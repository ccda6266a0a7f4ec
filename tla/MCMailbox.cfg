CONSTANTS
    m1 = m1
    m2 = m2
    Nachricht = {m1, m2}
    NACHWEIS = {TRUE, FALSE}
    PLATZ = 2
    ID_MAX = 3
    STOERUNG_MAX = 1
SPECIFICATION FairSpec
CHECK_DEADLOCK FALSE
INVARIANTS
    NachweisTrifftAbgelegtes
PROPERTIES
    KommtAn
    RueckstandLeertSich
    Versprechen
