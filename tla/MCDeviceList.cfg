CONSTANTS
    d1 = d1
    d2 = d2
    Geraet = {d1, d2}
    Kennung = {1, 2, 3}
    GERAETE_MAX = 2
    BEITRITTE_JE_ADRESSE = 1
    Niemand = Niemand
    EPOCHE_MAX = 3
    AUFTRAEGE_MAX = 3
    VERLUSTE_MAX = 1
SPECIFICATION Spec
CHECK_DEADLOCK FALSE
INVARIANTS
    TypeOK
    KeinWiderspruch
    BeitrittNurVonAussen
PROPERTIES
    EineAenderungNachDerAnderen
    AbgemeldetNurZuRecht
    AbgemeldetErfaehrtEs
