CONSTANTS
    w1 = w1
    w2 = w2
    w3 = w3
    k1 = k1
    k2 = k2
    a1 = a1
    a2 = a2
    Geraet = {1, 2}
    Schluessel = {k1, k2}
    Ws = {w1}
    Kommt <- Jedes
    Ansage <- Beides
    Auftrag = {a1}
    Keiner = Keiner
    GERAETE_MAX = 2
    EPOCHE_MAX = 1
SPECIFICATION Spec
SYMMETRY Symmetrie
CHECK_DEADLOCK FALSE
INVARIANT
    UngelisteteMussNeuAnmelden
