---------------------------- MODULE DeviceLines ----------------------------
(***************************************************************************)
(* The lines of the devices of ONE address at the relay                    *)
(* (server/relay_server.py): who may log in, which WebSocket stands for a  *)
(* device in `connections`, and how a new device list cuts the lines of    *)
(* the devices that left it.                                               *)
(*                                                                         *)
(* The relay runs its WebSocket handlers and POST /geraeteliste on one     *)
(* event loop: another handler runs only at an `await`.  POST /register    *)
(* runs in a thread pool, but holds `schreibsperre` from its list check to *)
(* its last statement.  Hence one action per stretch of code between two   *)
(* awaits, and one action for a whole /register.                           *)
(***************************************************************************)
EXTENDS Naturals, FiniteSets

CONSTANTS
    Geraet,      \* device ids of the address
    Schluessel,  \* device keys that may appear in a list
    Ws,          \* the WebSocket objects, each stands for one connection
    Kommt,       \* per connection: the devices it may be opened for
    Ansage,      \* per connection: may its client announce receipts, or not
    Auftrag,     \* calls of setze_geraeteliste that may be under way together
    Keiner,      \* Python's None
    GERAETE_MAX, \* roof for the devices of one address
    EPOCHE_MAX   \* the highest epoch a list may carry

ASSUME GeraetAssumption == Geraet \subseteq Nat /\ IsFiniteSet(Geraet)
ASSUME KeinerAssumption == Keiner \notin Geraet \cup Schluessel \cup Ws
ASSUME EingabenAssumption ==
    Kommt \in [Ws -> SUBSET Geraet] /\ Ansage \in [Ws -> SUBSET BOOLEAN]
ASSUME MaxAssumption == GERAETE_MAX \in Nat \ {0} /\ EPOCHE_MAX \in Nat

VARIABLES
    epoche,         \* geraetelisten.epoche, 0: the address has no list yet
    liste,          \* geraetelisten.liste: device -> key, Keiner: not listed
    zeilen,         \* devices with a row in `identities`
    gesehen,        \* rows whose last_seen is set
    alter,          \* age class of MAX(last_seen, updated_at), see Frist
    spkVon,         \* the key under which the row's spk_geraete_sig verifies
    connections,    \* device -> the line messages for it are sent to
    nachweisfaehig, \* device -> the flag kept beside that line
    ws,             \* per connection: where its handler stands and what it read
    auftrag         \* per list change: devices still to cut, line being cut

tabellen == <<epoche, liste, zeilen, gesehen, alter, spkVon>>
vars == <<tabellen, connections, nachweisfaehig, ws, auftrag>>

(* Age classes: 0 fresh, 1 past NIE_VERBUNDEN_TTL, 2 past GERAET_TTL.      *)
Frist == 0 .. 2

(* Where a handler stands, named after the await it is suspended at:       *)
(*   neu        not yet accepted                                           *)
(*   vorraum    waits for the answer to the challenge                      *)
(*   begruesst  sends auth_result                                          *)
(*   verdraengt waits for old.close(4409)                                  *)
(*   offen      registered and past the second list check                  *)
(*   abweisung  registered, sends `abgemeldet` after the second list check *)
(*   zu         left ws_endpoint                                           *)
Phase == {"neu", "vorraum", "begruesst", "verdraengt", "offen", "abweisung", "zu"}
Eingetragen == {"offen", "abweisung"}

(* A list that lies_liste lets through: 1 .. GERAETE_MAX entries, no key twice. *)
Mitglieder(l) == {g \in Geraet : l[g] # Keiner}
Liste == {l \in [Geraet -> Schluessel \cup {Keiner}] :
            /\ Cardinality(Mitglieder(l)) \in 1 .. GERAETE_MAX
            /\ \A g, h \in Mitglieder(l) : l[g] = l[h] => g = h}

(* A connection no handler runs for: not yet accepted, or left ws_endpoint. *)
OhneHandler(ph) ==
    [ph |-> ph, g |-> Keiner, schluessel |-> Keiner, nachweis |-> FALSE, zu |-> FALSE]

TypeOK ==
    /\ epoche \in 0 .. EPOCHE_MAX
    /\ liste \in [Geraet -> Schluessel \cup {Keiner}]
    /\ zeilen \subseteq Geraet
    /\ gesehen \subseteq zeilen
    /\ alter \in [Geraet -> Frist]
    /\ spkVon \in [Geraet -> Schluessel \cup {Keiner}]
    /\ connections \in [Geraet -> Ws \cup {Keiner}]
    /\ nachweisfaehig \in [Geraet -> BOOLEAN \cup {Keiner}]
    /\ ws \in [Ws -> [ph : Phase, g : Geraet \cup {Keiner},
                      schluessel : Schluessel \cup {Keiner},
                      nachweis : BOOLEAN, zu : BOOLEAN]]
    /\ auftrag \in [Auftrag -> [rest : SUBSET Geraet, bei : Ws \cup {Keiner}]]

Init ==
    /\ epoche = 0
    /\ liste = [g \in Geraet |-> Keiner]
    /\ zeilen = {}
    /\ gesehen = {}
    /\ alter = [g \in Geraet |-> 0]
    /\ spkVon = [g \in Geraet |-> Keiner]
    /\ connections = [g \in Geraet |-> Keiner]
    /\ nachweisfaehig = [g \in Geraet |-> Keiner]
    /\ ws = [w \in Ws |-> OhneHandler("neu")]
    /\ auftrag = [a \in Auftrag |-> [rest |-> {}, bei |-> Keiner]]

----------------------------------------------------------------------------
(* The rows of `identities`.                                               *)

(* loesche_geraet for every device of S (its mail and keys go with it).    *)
LoescheGeraete(S) ==
    /\ zeilen' = zeilen \ S
    /\ gesehen' = gesehen \ S
    /\ alter' = [g \in Geraet |-> IF g \in S THEN 0 ELSE alter[g]]
    /\ spkVon' = [g \in Geraet |-> IF g \in S THEN Keiner ELSE spkVon[g]]

(* The upsert of register(): a new row has last_seen = 0, an old one keeps it. *)
Trage(g, k, S) ==
    /\ zeilen' = (zeilen \ S) \cup {g}
    /\ gesehen' = gesehen \ S
    /\ alter' = [h \in Geraet |-> IF h \in S \cup {g} THEN 0 ELSE alter[h]]
    /\ spkVon' = [h \in Geraet |-> IF h = g THEN k
                                   ELSE IF h \in S THEN Keiner ELSE spkVon[h]]

(* Rows that may make room for a new device: no sign of life since GERAET_TTL. *)
Totes == {g \in zeilen : alter[g] = 2}

(* Deviation: off by one at the roof. *)
RaeumbarEinsZuviel(g) == IF g \in zeilen \/ Cardinality(zeilen) <= GERAETE_MAX
                         THEN {{}} ELSE {{t} : t \in Totes}

(* Whom register() removes to make room for g: nobody while there is room. *)
Raeumbar(g) == IF g \in zeilen \/ Cardinality(zeilen) < GERAETE_MAX
               THEN {{}} ELSE {{t} : t \in Totes}

(* POST /register for device g, signed with the device key k.  With a list *)
(* the key must be the listed one; a bundle without spk_geraete_sig clears *)
(* the stored one.  The eviction commits on its own, before the upsert,    *)
(* which may still be rolled back.                                         *)
Register(g, k, mitSpkSig) ==
    /\ epoche > 0 => liste[g] # Keiner /\ k = liste[g]
    /\ epoche = 0 => ~mitSpkSig
    /\ \E S \in Raeumbar(g) :
         \/ Trage(g, IF mitSpkSig THEN k ELSE Keiner, S)
         \/ LoescheGeraete(S) /\ S # {}
    /\ UNCHANGED <<epoche, liste, connections, nachweisfaehig, ws, auftrag>>

(* raeume_vergessene_geraete, from the hourly janitor. *)
Vergessene == {g \in zeilen : alter[g] = 2 \/ (g \notin gesehen /\ alter[g] >= 1)}
Vergesse ==
    /\ Vergessene # {}
    /\ LoescheGeraete(Vergessene)
    /\ UNCHANGED <<epoche, liste, connections, nachweisfaehig, ws, auftrag>>

(* Time passes over one of the two limits for a row. *)
Altern(g) ==
    /\ g \in zeilen /\ alter[g] < 2
    /\ alter' = [alter EXCEPT ![g] = @ + 1]
    /\ UNCHANGED <<epoche, liste, zeilen, gesehen, spkVon,
                   connections, nachweisfaehig, ws, auftrag>>

----------------------------------------------------------------------------
(* One WebSocket connection. *)

Verlaesst(w) == ws' = [ws EXCEPT ![w] = OhneHandler("zu")]

(* _vorraum up to the challenge: the list first, then the row.  The key    *)
(* is read here and used after the awaits.                                 *)
Vorraum(w, g) ==
    /\ ws[w].ph = "neu"
    /\ LET abgemeldet == epoche > 0 /\ liste[g] = Keiner
       IN IF abgemeldet \/ g \notin zeilen
          THEN Verlaesst(w)
          ELSE ws' = [ws EXCEPT ![w] = [ph |-> "vorraum", g |-> g, schluessel |-> liste[g],
                                        nachweis |-> FALSE, zu |-> FALSE]]
    /\ UNCHANGED <<tabellen, connections, nachweisfaehig, auftrag>>

(* The challenge fails, times out, or the line breaks before registration. *)
Abriss(w) ==
    /\ ws[w].ph \in {"vorraum", "begruesst"}
    /\ Verlaesst(w)
    /\ UNCHANGED <<tabellen, connections, nachweisfaehig, auftrag>>

(* The answer verifies: last_seen is set, then auth_result goes out. *)
Anmelden(w, nachweis) ==
    /\ ws[w].ph = "vorraum"
    /\ ws' = [ws EXCEPT ![w].ph = "begruesst", ![w].nachweis = nachweis]
    /\ gesehen' = gesehen \cup ({ws[w].g} \cap zeilen)
    /\ alter' = [alter EXCEPT ![ws[w].g] = 0]
    /\ UNCHANGED <<epoche, liste, zeilen, spkVon, connections, nachweisfaehig, auftrag>>

(* Deviation: the list is not looked at again after the awaits. *)
KeineZweitePruefung(w) == FALSE

(* The second list check, made once the line stands in `connections`. *)
ListeGeaendert(w) == epoche > 0 /\ liste[ws[w].g] # ws[w].schluessel

(* Registration and the second list check: one stretch without an await. *)
TrageEin(w) ==
    /\ connections' = [connections EXCEPT ![ws[w].g] = w]
    /\ nachweisfaehig' = [nachweisfaehig EXCEPT ![ws[w].g] = ws[w].nachweis]
    /\ ws' = [ws EXCEPT ![w].ph = IF ListeGeaendert(w) THEN "abweisung" ELSE "offen"]
    /\ UNCHANGED <<tabellen, auftrag>>

(* A line that has to be closed first is looked up BEFORE the await. *)
AlteLeitung(w) == connections[ws[w].g]
MussVerdraengen(w) == AlteLeitung(w) # Keiner /\ ~ws[AlteLeitung(w)].zu

(* auth_result is out and an older line exists: close it and wait for that. *)
Verdraenge(w) ==
    /\ ws[w].ph = "begruesst"
    /\ MussVerdraengen(w)
    /\ ws' = [ws EXCEPT ![w].ph = "verdraengt", ![AlteLeitung(w)].zu = TRUE]
    /\ UNCHANGED <<tabellen, connections, nachweisfaehig, auftrag>>

(* No older line to wait for, or its close() has returned. *)
Eintragen(w) ==
    /\ \/ ws[w].ph = "begruesst" /\ ~MussVerdraengen(w)
       \/ ws[w].ph = "verdraengt"
    /\ TrageEin(w)

(* Deviation: the flag goes, whoever owns the entry now. *)
EndeOhneVergleich(w) ==
    /\ ws[w].ph \in Eingetragen
    /\ connections' = [connections EXCEPT ![ws[w].g] = IF @ = w THEN Keiner ELSE @]
    /\ nachweisfaehig' = [nachweisfaehig EXCEPT ![ws[w].g] = Keiner]
    /\ Verlaesst(w)
    /\ UNCHANGED <<tabellen, auftrag>>

(* The `finally` of ws_endpoint: only its own entry goes. *)
Ende(w) ==
    /\ ws[w].ph \in Eingetragen
    /\ LET g == ws[w].g
           eigen == connections[g] = w
       IN /\ connections' = [connections EXCEPT ![g] = IF eigen THEN Keiner ELSE @]
          /\ nachweisfaehig' = [nachweisfaehig EXCEPT ![g] = IF eigen THEN Keiner ELSE @]
    /\ Verlaesst(w)
    /\ UNCHANGED <<tabellen, auftrag>>

----------------------------------------------------------------------------
(* POST /geraeteliste and the lines it cuts. *)

(* Who may set `neu` over the stored list: creation, a member, a reset. *)
DarfSetzen(neu, u) ==
    LET allein == Mitglieder(neu) = {u}
        mitglied == liste[u] # Keiner /\ neu[u] \in {Keiner, liste[u]}
    IN allein \/ (epoche > 0 /\ mitglied)

(* Deviation: a device whose key changed is taken for the old one. *)
WegOhneSchluesselwechsel(neu) == {g \in zeilen \cup Mitglieder(liste) : neu[g] = Keiner}

(* Devices that leave: listed or with a row, and now missing or re-keyed.  *)
Weg(neu) == {g \in zeilen \cup Mitglieder(liste) :
               neu[g] = Keiner \/ (liste[g] # Keiner /\ liste[g] # neu[g])}

Untaetig(a) == auftrag[a].rest = {} /\ auftrag[a].bei = Keiner

SetzeListe(a, neu, u) ==
    /\ Untaetig(a)
    /\ epoche < EPOCHE_MAX
    /\ DarfSetzen(neu, u)
    /\ epoche' = epoche + 1
    /\ liste' = neu
    /\ LoescheGeraete(Weg(neu))
    /\ auftrag' = [auftrag EXCEPT ![a].rest = Weg(neu)]
    /\ UNCHANGED <<connections, nachweisfaehig, ws>>

(* _melde_an_geraete walks the sorted list; the line is looked up when the *)
(* walk gets there, not when the list was stored.                          *)
TrennBeginn(a) ==
    /\ auftrag[a].bei = Keiner
    /\ \E g \in auftrag[a].rest :
         /\ \A h \in auftrag[a].rest : g <= h
         /\ auftrag' = [auftrag EXCEPT ![a] = [rest |-> @.rest \ {g}, bei |-> connections[g]]]
    /\ UNCHANGED <<tabellen, connections, nachweisfaehig, ws>>

(* Deviation: the device is told, and waited for until it hangs up. *)
TrennSchlussWartet(a) ==
    /\ auftrag[a].bei # Keiner /\ ws[auftrag[a].bei].ph = "zu"
    /\ auftrag' = [auftrag EXCEPT ![a].bei = Keiner]
    /\ UNCHANGED <<tabellen, connections, nachweisfaehig, ws>>

(* send and close(4410) are through; on a line that already ended they fail *)
(* and the failure is swallowed.                                           *)
TrennSchluss(a) ==
    /\ auftrag[a].bei # Keiner
    /\ ws' = [ws EXCEPT ![auftrag[a].bei].zu = ws[auftrag[a].bei].ph # "zu"]
    /\ auftrag' = [auftrag EXCEPT ![a].bei = Keiner]
    /\ UNCHANGED <<tabellen, connections, nachweisfaehig>>

(* The relay restarts: its memory is lost, its tables stay; lifespan() runs *)
(* raeume_vergessene_geraete before the first request.                     *)
Neustart ==
    /\ connections' = [g \in Geraet |-> Keiner]
    /\ nachweisfaehig' = [g \in Geraet |-> Keiner]
    /\ ws' = [w \in Ws |-> IF ws[w].ph = "neu" THEN ws[w] ELSE OhneHandler("zu")]
    /\ auftrag' = [a \in Auftrag |-> [rest |-> {}, bei |-> Keiner]]
    /\ LoescheGeraete(Vergessene)
    /\ UNCHANGED <<epoche, liste>>

----------------------------------------------------------------------------
Next ==
    \/ \E g \in Geraet, k \in Schluessel, b \in BOOLEAN : Register(g, k, b)
    \/ Vergesse
    \/ \E g \in Geraet : Altern(g)
    \/ \E w \in Ws : \E g \in Kommt[w] : Vorraum(w, g)
    \/ \E w \in Ws : \E n \in Ansage[w] : Anmelden(w, n)
    \/ \E w \in Ws : Abriss(w) \/ Verdraenge(w) \/ Eintragen(w) \/ Ende(w)
    \/ \E a \in Auftrag, neu \in Liste, u \in Geraet : SetzeListe(a, neu, u)
    \/ \E a \in Auftrag : TrennBeginn(a) \/ TrennSchluss(a)
    \/ Neustart

Spec == Init /\ [][Next]_vars

(* A line the server has closed ends: the closing handshake has a timeout. *)
EndeNachSchluss(w) == ws[w].zu /\ Ende(w)

(* The event loop runs every ready task again: a send to a line that does  *)
(* not read ends with the WebSocket ping timeout at the latest.            *)
Fairness ==
    /\ \A a \in Auftrag : WF_vars(TrennBeginn(a)) /\ WF_vars(TrennSchluss(a))
    /\ \A w \in Ws : WF_vars(EndeNachSchluss(w))

FairSpec == Spec /\ Fairness

----------------------------------------------------------------------------
(* Properties. *)

(* Every entry of `connections` belongs to a handler of that device that   *)
(* has not ended: no sender is ever pointed at a dead socket.              *)
EintragLebt ==
    \A g \in Geraet : connections[g] # Keiner =>
        ws[connections[g]].g = g /\ ws[connections[g]].ph \in Eingetragen

(* The receipt flag beside an entry is the one this very line announced,   *)
(* and there is no flag without a line, whatever older lines of the device *)
(* end later.                                                              *)
NachweisFolgtLeitung ==
    \A g \in Geraet :
        nachweisfaehig[g] = IF connections[g] = Keiner THEN Keiner
                            ELSE ws[connections[g]].nachweis

(* Whoever delivers to a device meets a living line and treats it as it    *)
(* asked to be treated.                                                    *)
LeitungStimmt == EintragLebt /\ NachweisFolgtLeitung

(* A device is signed out while its line logs in, is replaced or waits: if *)
(* the registered line showed a key that is no longer the listed one, some *)
(* list change is still going to cut it.                                   *)
Abgemeldet(w) == ws[w].schluessel # Keiner /\ liste[ws[w].g] # ws[w].schluessel
WirdGetrennt(w) == \E a \in Auftrag : ws[w].g \in auftrag[a].rest \/ auftrag[a].bei = w
AbmeldungErreichtLeitung ==
    \A g \in Geraet :
        LET w == connections[g]
        IN w # Keiner /\ ws[w].ph = "offen" /\ ~ws[w].zu /\ Abgemeldet(w) => WirdGetrennt(w)

(* No row outlives its place in the list, and no stored prekey signature   *)
(* is by a key the list no longer holds: a registration that races a list  *)
(* change never brings the row of a signed-out device back.                *)
ZeileNurMitListe ==
    /\ epoche > 0 => zeilen \subseteq Mitglieder(liste)
    /\ \A g \in Geraet : spkVon[g] # Keiner => g \in zeilen /\ spkVon[g] = liste[g]

(* An address never has more rows than devices it may have. *)
HoechstensGeraeteMax == Cardinality(zeilen) <= GERAETE_MAX

(* Another log-in took the entry of an open line over: both had waited for *)
(* one older line to close, and nobody has closed this one.                *)
Ueberschrieben(w) ==
    ws[w].ph \in Eingetragen /\ ~ws[w].zu /\ connections[ws[w].g] # w

(* A registered line of a signed-out device does not stay open, unless its *)
(* entry is overwritten before the walk over `connections` gets there: two *)
(* log-ins that wait for the close of one old line both register, without  *)
(* looking again, and the walk only knows the entry.  Such a line belongs  *)
(* to nobody's entry and is closed by no one, against the comment that     *)
(* from its entry on every later sign-out sees the line.                   *)
AbgemeldeteLeitungEndet ==
    \A w \in Ws :
        (ws[w].ph = "offen" /\ connections[ws[w].g] = w /\ Abgemeldet(w))
            ~> (ws[w].ph = "zu" \/ Ueberschrieben(w))

(* Comment at 4200-4202 of relay_server.py: a device that logged in        *)
(* without a list while another one created it showed no device key and    *)
(* must log in again.  So no device outside the list keeps an open line,   *)
(* unless a list change is still going to cut it.  The second check        *)
(* compares None with None for a device the new list does not hold.        *)
UngelisteteMussNeuAnmelden ==
    \A w \in Ws : epoche > 0 /\ ws[w].ph = "offen" /\ ~ws[w].zu /\ liste[ws[w].g] = Keiner
                    => WirdGetrennt(w)
=============================================================================
