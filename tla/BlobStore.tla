----------------------------- MODULE BlobStore -----------------------------
(***************************************************************************)
(* The store for attachments (server/blob_server.py) and its sweeper       *)
(* (server/blob_kehrmaschine.py, a process of its own): PUTs that stream   *)
(* into side files, space and daily amount set aside before they start,    *)
(* tokens that are used up, the final link, DELETE, and restarts.          *)
(*                                                                         *)
(* Handlers of PUT share one event loop and wait for the next piece, for   *)
(* its write, for fsync and for the link; writes, links and DELETEs happen *)
(* in threads.  Sizes are counted in pieces.  A token stands for one name  *)
(* and one size; who holds none gets no further than the first check.      *)
(***************************************************************************)
EXTENDS Integers, FiniteSets, Functions

CONSTANTS
    Kennung,            \* names the relay has issued a token for
    Upload,             \* PUTs that may be under way together
    Keine,              \* no file, no name
    GROESSE,            \* pieces of a file, as its token says
    PLATTE,             \* pieces the disk takes above MIN_FREI_BYTES
    TAGESMENGE_GESAMT,  \* pieces the store takes in a day
    FENSTER,            \* hours that count as a day
    STUNDE_MAX          \* bound: the last hour

ASSUME UploadAssumption == IsFiniteSet(Upload)
ASSUME GroesseAssumption == GROESSE \in Nat \ {0}
ASSUME GrenzenAssumption == {PLATTE, TAGESMENGE_GESAMT, STUNDE_MAX} \subseteq Nat
ASSUME FensterAssumption == FENSTER \in Nat \ {0}
ASSUME KeineAssumption == Keine \notin Kennung \cup Upload

VARIABLES
    datei,       \* files under their name: pieces, hour of the last write,
                 \* and the PUT that wrote them
    upload,      \* per PUT: where its handler stands
    reste,       \* pieces in side files nobody writes any more
    reserviert,  \* _reserviert
    vorgemerkt,  \* _tag_vorgemerkt
    jeStunde,    \* _je_stunde
    verbraucht,  \* names in _verbraucht
    abgelaufen,  \* names whose token has expired
    stunde       \* the present hour

platte == <<datei, reste>>
buch == <<reserviert, vorgemerkt, jeStunde, verbraucht>>
vars == <<platte, upload, buch, abgelaufen, stunde>>

Stunde == 0 .. STUNDE_MAX
Datei == [stuecke : Nat, zeit : Stunde, von : Upload]

(* Where the handler of a PUT stands:                                      *)
(*   empfaengt  waits for a piece                                          *)
(*   schrieb    the thread has written a piece, the handler goes on next   *)
(*   fertig     all pieces, synced and closed                              *)
(*   abgelegt   the thread has linked the file, the handler goes on next   *)
(* `offen` is noch_reserviert; `teil`: the side file has its name.         *)
Stelle == {"frei", "empfaengt", "schrieb", "fertig", "abgelegt"}
Schreibend == {"empfaengt", "schrieb"}
Frei == [ph |-> "frei", k |-> Keine, stuecke |-> 0, zeit |-> 0, offen |-> 0, teil |-> FALSE]

TypeOK ==
    /\ datei \in [Kennung -> Datei \cup {Keine}]
    /\ upload \in [Upload -> [ph : Stelle, k : Kennung \cup {Keine}, stuecke : 0 .. GROESSE,
                              zeit : Stunde, offen : 0 .. GROESSE, teil : BOOLEAN]]
    /\ reste \in Nat /\ reserviert \in Nat /\ vorgemerkt \in Nat
    /\ jeStunde \in [Stunde -> Nat]
    /\ verbraucht \subseteq Kennung /\ abgelaufen \subseteq Kennung
    /\ stunde \in Stunde

Init ==
    /\ datei = [k \in Kennung |-> Keine]
    /\ upload = [u \in Upload |-> Frei]
    /\ reste = 0 /\ reserviert = 0 /\ vorgemerkt = 0
    /\ jeStunde = [s \in Stunde |-> 0]
    /\ verbraucht = {} /\ abgelaufen = {} /\ stunde = 0

----------------------------------------------------------------------------
(* What the disk and the books say. *)

Liegende == {k \in Kennung : datei[k] # Keine}

(* A side file takes space while it has its name or is open. *)
TeilBelegt(u) == IF upload[u].ph \in Schreibend \/ (upload[u].ph = "fertig" /\ upload[u].teil)
                 THEN upload[u].stuecke ELSE 0
Belegt == SumFunction([k \in Liegende |-> datei[k].stuecke])
            + SumFunction([u \in Upload |-> TeilBelegt(u)]) + reste

ImFenster(s) == s > stunde - FENSTER
HeuteGeschrieben == SumFunctionOnSet(jeStunde, {s \in Stunde : ImFenster(s)})

(* Deviation: only what is on the disk counts. *)
PasstOhneReserve == Belegt + GROESSE <= PLATTE

Passt == Belegt + reserviert + GROESSE <= PLATTE
PasstHeute == HeuteGeschrieben + vorgemerkt + GROESSE <= TAGESMENGE_GESAMT

----------------------------------------------------------------------------
(* lege_ab up to its first await: token, name, space, day.  A refused PUT  *)
(* at most forgets expired tokens, which the first check refuses anyway.   *)
Beginne(u, k) ==
    /\ upload[u].ph = "frei"
    /\ k \notin abgelaufen \cup verbraucht
    /\ datei[k] = Keine
    /\ Passt /\ PasstHeute
    /\ upload' = [upload EXCEPT ![u] = [ph |-> "empfaengt", k |-> k, stuecke |-> 0,
                                        zeit |-> stunde, offen |-> GROESSE, teil |-> TRUE]]
    /\ reserviert' = reserviert + GROESSE
    /\ vorgemerkt' = vorgemerkt + GROESSE
    /\ verbraucht' = verbraucht \ abgelaufen
    /\ UNCHANGED <<platte, jeStunde, abgelaufen, stunde>>

(* A piece is on the disk before its reservation goes. *)
Schreibe(u) ==
    /\ upload[u].ph = "empfaengt"
    /\ upload[u].stuecke < GROESSE
    /\ upload' = [upload EXCEPT ![u].ph = "schrieb", ![u].stuecke = @ + 1, ![u].zeit = stunde]
    /\ UNCHANGED <<platte, buch, abgelaufen, stunde>>

Verbuche(u) ==
    /\ upload[u].ph = "schrieb"
    /\ upload' = [upload EXCEPT ![u].ph = "empfaengt", ![u].offen = @ - 1]
    /\ reserviert' = reserviert - 1
    /\ UNCHANGED <<platte, vorgemerkt, jeStunde, verbraucht, abgelaufen, stunde>>

(* Deviation: the length is not compared with the token's. *)
JedeLaenge(u) == TRUE
Vollstaendig(u) == upload[u].stuecke = GROESSE

(* The stream ends: fsync, close. *)
Schliesse(u) ==
    /\ upload[u].ph = "empfaengt"
    /\ Vollstaendig(u)
    /\ upload' = [upload EXCEPT ![u].ph = "fertig"]
    /\ UNCHANGED <<platte, buch, abgelaufen, stunde>>

(* Deviation: a rename, which replaces what is there. *)
ImmerFrei(k) == TRUE
NameFrei(k) == datei[k] = Keine

(* _lege_endgueltig_ab: the link fails if the name is taken or the side    *)
(* file is gone.                                                           *)
Endgueltig(u) ==
    /\ upload[u].ph = "fertig" /\ upload[u].teil
    /\ NameFrei(upload[u].k)
    /\ datei' = [datei EXCEPT ![upload[u].k] =
                   [stuecke |-> upload[u].stuecke, zeit |-> upload[u].zeit, von |-> u]]
    /\ upload' = [upload EXCEPT ![u].ph = "abgelegt", ![u].teil = FALSE]
    /\ UNCHANGED <<reste, buch, abgelaufen, stunde>>

(* Deviations: the whole size is given back, whatever is left of it;       *)
(* nothing is given back.                                                  *)
GanzeGroesse(u) == GROESSE
NichtsFrei(u) == UNCHANGED <<reserviert, vorgemerkt>>

(* The `finally` of lege_ab. *)
Rest(u) == upload[u].offen
GibFrei(u) == reserviert' = reserviert - Rest(u) /\ vorgemerkt' = vorgemerkt - GROESSE

(* The link is made: book it, release what was set aside, use up the token *)
(* (no await in between).                                                  *)
Buche(u) ==
    /\ upload[u].ph = "abgelegt"
    /\ jeStunde' = [jeStunde EXCEPT ![stunde] = @ + GROESSE]
    /\ GibFrei(u)
    /\ verbraucht' = verbraucht \cup {upload[u].k}
    /\ upload' = [upload EXCEPT ![u] = Frei]
    /\ UNCHANGED <<platte, abgelaufen, stunde>>

(* Too much or too little data, the client is gone, a write fails, or the  *)
(* link does: the side file goes.                                          *)
Verwirf(u) ==
    /\ upload[u].ph \in {"empfaengt", "schrieb", "fertig"}
    /\ GibFrei(u)
    /\ upload' = [upload EXCEPT ![u] = Frei]
    /\ UNCHANGED <<platte, jeStunde, verbraucht, abgelaufen, stunde>>

----------------------------------------------------------------------------
(* DELETE needs no token. *)
Loesche(k) ==
    /\ datei[k] # Keine
    /\ datei' = [datei EXCEPT ![k] = Keine]
    /\ UNCHANGED <<reste, upload, buch, abgelaufen, stunde>>

(* kehre: files past TTL_SEKUNDEN, which is longer than a day ...          *)
KehreDatei(k) ==
    /\ datei[k] # Keine /\ ~ImFenster(datei[k].zeit)
    /\ datei' = [datei EXCEPT ![k] = Keine]
    /\ UNCHANGED <<reste, upload, buch, abgelaufen, stunde>>

(* ... and side files not written to for a day, of a PUT or left behind.   *)
KehreTeil(u) ==
    /\ upload[u].teil /\ ~ImFenster(upload[u].zeit)
    /\ upload' = [upload EXCEPT ![u].teil = FALSE]
    /\ UNCHANGED <<platte, buch, abgelaufen, stunde>>

KehreReste ==
    /\ reste > 0
    /\ reste' \in 0 .. reste - 1
    /\ UNCHANGED <<datei, upload, buch, abgelaufen, stunde>>

LaeuftAb(k) ==
    /\ k \notin abgelaufen
    /\ abgelaufen' = abgelaufen \cup {k}
    /\ UNCHANGED <<platte, upload, buch, stunde>>

StundeVergeht ==
    /\ stunde < STUNDE_MAX
    /\ stunde' = stunde + 1
    /\ UNCHANGED <<platte, upload, buch, abgelaufen>>

(* Deviation: the day starts at nothing. *)
NichtsGezaehlt == [s \in Stunde |-> 0]

(* _zaehle_die_platte_nach: each file at the hour of its last write. *)
Nachgezaehlt ==
    [s \in Stunde |-> IF ~ImFenster(s) THEN 0
                      ELSE SumFunction([k \in {l \in Liegende : datei[l].zeit = s}
                                          |-> datei[k].stuecke])]

(* The service ends and starts: its books are lost, the disk is counted. *)
Neustart ==
    /\ reste' = reste + SumFunction([u \in Upload |-> IF upload[u].teil THEN upload[u].stuecke
                                                                        ELSE 0])
    /\ upload' = [u \in Upload |-> Frei]
    /\ reserviert' = 0 /\ vorgemerkt' = 0 /\ verbraucht' = {}
    /\ jeStunde' = Nachgezaehlt
    /\ UNCHANGED <<datei, abgelaufen, stunde>>

----------------------------------------------------------------------------
Next ==
    \/ \E u \in Upload : \/ \E k \in Kennung : Beginne(u, k)
                         \/ Schreibe(u) \/ Verbuche(u) \/ Schliesse(u)
                         \/ Endgueltig(u) \/ Buche(u) \/ Verwirf(u) \/ KehreTeil(u)
    \/ \E k \in Kennung : Loesche(k) \/ KehreDatei(k) \/ LaeuftAb(k)
    \/ KehreReste \/ StundeVergeht \/ Neustart

Spec == Init /\ [][Next]_vars

----------------------------------------------------------------------------
(* Properties. *)

(* Nobody ever finds half a block under a name (comment at 410-415),       *)
(* whatever PUTs of the same name run beside each other and wherever they  *)
(* or the service stop.                                                    *)
NieHalb == \A k \in Liegende : datei[k].stuecke = GROESSE

(* PUTs that start together never write the disk below MIN_FREI_BYTES      *)
(* (comment at 213-218), nor do side files that a crash left behind or     *)
(* the sweeper took from them.                                             *)
PlatzBleibtFrei == Belegt <= PLATTE

(* What lies on the disk from the last day is never more than the day's    *)
(* amount, across restarts, late bookings and parallel PUTs.               *)
TagesmengeHaelt ==
    SumFunction([k \in {l \in Liegende : ImFenster(datei[l].zeit)} |-> datei[k].stuecke])
        <= TAGESMENGE_GESAMT

(* The two books, each against the PUTs under way. *)
Laufend == {u \in Upload : upload[u].ph # "frei"}
ReserveStimmt == reserviert = SumFunction([u \in Upload |-> upload[u].offen])
VormerkungStimmt == vorgemerkt = GROESSE * Cardinality(Laufend)

(* What is set aside is set aside for a PUT under way: no way out of       *)
(* lege_ab leaves the store a little smaller until the next restart.       *)
NichtsBleibtReserviert == ReserveStimmt /\ VormerkungStimmt

(* A file under its name is never replaced, only removed: two PUTs of one  *)
(* name, a DELETE and a sweep may come in any order.                       *)
NichtUeberschrieben ==
    [][\A k \in Kennung : datei[k] # Keine => datei'[k] \in {datei[k], Keine}]_vars
=============================================================================
