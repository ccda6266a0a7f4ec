CONSTANTS
    t1 = t1
    t2 = t2
    k2 = k2
    k1 = k1
    u = u
    x = x
    y = y
    Faden = {t1, t2}
    Paar <- MCPaar
    Quelle <- MCQuelle
    Absender = {u}
    Niemand = Niemand
    NONCE_TTL_SECONDS = 1
    NONCE_PLAETZE = 1
    NONCE_HERKUENFTE = 2
    SPEICHER_MAX = 2
    AUFRAEUM_TAKT = 1
    AUFRAEUM_AB = 2
    MARKE = 2
    RATE_CAPACITY = 2
    RATE_REFILL = 2
    REG_KOSTEN = 2
    MSG_CAPACITY = 2
    MSG_REFILL = 1
    NEUE_ADRESSEN_JE_TAG = 2
    NEUE_ADRESSEN_ONION_JE_TAG = 2
    NEU_REFILL = 1
    NEU_ONION_REFILL = 2
    ZEIT_MAX = 1
    AUSGABE_MAX = 3
SPECIFICATION Spec
SYMMETRY Symmetrie
CHECK_DEADLOCK FALSE
INVARIANTS
    NonceGiltEinmal
    DaecherHalten
    MarkenBilanz
PROPERTIES
    FremdesNonceBleibt
    AbsageKostetNichts
    IdealeEimer
