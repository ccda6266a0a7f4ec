CONSTANTS
    t1 = t1
    t2 = t2
    Keiner = Keiner
    Thread = {t1, t2}
    Geraet = {1, 2}
    Nummer = {1, 2}
    KYBER_OTK_MAX_GESAMT = 2
    FASSUNG_MAX = 2
SPECIFICATION Spec
SYMMETRY Symmetrie
INVARIANTS
    BuendelGanz
    NurEinmalAusgegeben
    KyberBuchStimmt
