CONSTANTS
    a1 = a1
    a2 = a2
    Anlauf = {a1, a2}
    VORRAT = 2
    UNTERGRENZE = 1
    HOECHSTZAHL = 5
    WASSERMARKE = 1
    BUENDEL_MAX = 3
    NONCE_FRISCH = 1
    SPK_MAX = 0
    ZIEH_MAX = 2
    STOERUNG_MAX = 1
SPECIFICATION VorratLiveSpec

CHECK_DEADLOCK FALSE
PROPERTY VergessenMeldetNeuAn
