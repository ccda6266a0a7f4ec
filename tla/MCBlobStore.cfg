CONSTANTS
    k1 = k1
    k2 = k2
    k3 = k3
    u1 = u1
    u2 = u2
    Kennung = {k1, k2, k3}
    Upload = {u1, u2}
    Keine = Keine
    GROESSE = 2
    PLATTE = 6
    TAGESMENGE_GESAMT = 4
    FENSTER = 2
    STUNDE_MAX = 3
SPECIFICATION Spec
SYMMETRY Symmetrie
INVARIANTS
    TypeOK
    NieHalb
    PlatzBleibtFrei
    TagesmengeHaelt
    NichtsBleibtReserviert
PROPERTY
    NichtUeberschrieben
