CONSTANTS
    a1 = a1
    a2 = a2
    Anlauf = {a1, a2}
    VORRAT = 2
    UNTERGRENZE = 1
    HOECHSTZAHL = 5
    WASSERMARKE = 2
    BUENDEL_MAX = 3
    NONCE_FRISCH = 1
    SPK_MAX = 1
    ZIEH_MAX = 3
    STOERUNG_MAX = 2
SPECIFICATION VorratLiveSpec
CHECK_DEADLOCK FALSE
INVARIANTS VorratTypeOK ImmerEinloesbar OhneStoerungEinmal
PROPERTY VorratKommtWieder
