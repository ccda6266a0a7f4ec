CONSTANTS
    g1 = g1
    g2 = g2
    Geraet = {g1, g2}
    PUSH_LAUFEND_MAX = 1
    ZEILEN_MAX = 3
    STOERUNGEN_MAX = 1
SPECIFICATION Spec
CHECK_DEADLOCK FALSE
INVARIANTS
    EinAnstossJeGeraet
    NichtsVergessen
PROPERTIES
    AnstossFolgt
