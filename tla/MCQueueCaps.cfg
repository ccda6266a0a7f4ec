CONSTANTS
    g1 = g1
    g2 = g2
    a1 = a1
    a2 = a2
    l1 = l1
    l2 = l2
    Keiner = Keiner
    Geraet = {g1, g2}
    Absender = {a1, a2}
    Leitung = {l1, l2}
    QUEUE_MAX_JE_PAAR = 2
    QUEUE_MAX_JE_ABSENDER = 3
    QUEUE_MAX_PER_USER = 2
    QUEUE_MAX_TOTAL = 3
    VERDRAENGT_MAX = 1
    DOPPELT_MAX = 2
SPECIFICATION Spec
SYMMETRY Symmetrie
INVARIANTS
    TypeOK
    AlleDeckelHalten
PROPERTY
    GrundsatzAmGeraet
