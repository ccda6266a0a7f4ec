CONSTANTS
    d1 = d1
    d2 = d2
    Geraet = {d1, d2}
    Kennung = {1, 2, 3}
    GERAETE_MAX = 2
    BEITRITTE_JE_ADRESSE = 1
    Niemand = Niemand
    EPOCHE_MAX = 4
    AUFTRAEGE_MAX = 2
    VERLUSTE_MAX = 0
SPECIFICATION Spec
CHECK_DEADLOCK FALSE
INVARIANTS
    EigeneKennungBleibt
