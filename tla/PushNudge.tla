------------------------------ MODULE PushNudge ------------------------------
(***************************************************************************)
(* How the relay wakes a device that is away (relay_server.py, stosse_an   *)
(* and its coalescing), composed with the line of that device and the app  *)
(* the nudge wakes (app_state.dart beiAnstoss).  All of the relay's part   *)
(* runs on the event loop: one action is what happens between two awaits.  *)
(*                                                                         *)
(* A row is a message in the queue; the device confirms receipts           *)
(* (Mailbox has the queue itself, with its caps and the other clients).    *)
(* The push server may lose a nudge or deliver it late, and the user may   *)
(* open the app at any time: it connects when it does, with no fairness.   *)
(***************************************************************************)
EXTENDS Integers, FiniteSets

CONSTANTS
    Geraet,             \* (address, device) pairs with a row in identities
    PUSH_LAUFEND_MAX,
    ZEILEN_MAX,         \* bound: messages ever sent
    STOERUNGEN_MAX      \* bound: broken senders, database errors, restarts, new endpoints

Keins == "keins"        \* no device

ASSUME PushAssumption ==
    /\ IsFiniteSet(Geraet) /\ Keins \notin Geraet
    /\ PUSH_LAUFEND_MAX \in Nat /\ ZEILEN_MAX \in Nat /\ STOERUNGEN_MAX \in Nat

VARIABLES
    ziel,       \* row -> its device, or Keins before it is written
    schlange,   \* rows in the queue
    naechste,   \* the next row
    vorAck,     \* buffered rows whose sender is still being sent its ack
    endpunkt,   \* devices with a push_endpoint
    leitung,    \* connections: "keine", "steht", or "zu" (the app has closed
                \* it and the relay does not know)
    nochmal,    \* _anstoss_nochmal: "kein" (no key), "nein" (False), "ja" (True)
    bereit,     \* tasks _stosse_an_bis_nichts_nachkam about to call stosse_an
    unterwegs,  \* tasks waiting for the answer to their POST
    stoerungen, \* faults so far
    weck        \* history: what became of the nudge for a row

relay == <<ziel, schlange, naechste, vorAck, endpunkt>>
anstoss == <<nochmal, bereit, unterwegs>>
vars == <<relay, anstoss, leitung, stoerungen, weck>>

Zeile == 1 .. ZEILEN_MAX
Schluessel == {g \in Geraet : nochmal[g] # "kein"}
An(g) == {z \in Zeile : ziel[z] = g}
Gefordert(g) == {z \in An(g) : weck[z] = "gefordert"}

TypeOK ==
    /\ ziel \in [Zeile -> Geraet \cup {Keins}]
    /\ naechste \in 1 .. ZEILEN_MAX + 1
    /\ schlange \subseteq {z \in Zeile : z < naechste} /\ vorAck \subseteq Zeile
    /\ endpunkt \subseteq Geraet
    /\ leitung \in [Geraet -> {"keine", "steht", "zu"}]
    /\ nochmal \in [Geraet -> {"kein", "nein", "ja"}]
    /\ bereit \in [Geraet -> 0 .. 1] /\ unterwegs \in [Geraet -> 0 .. 1]
    /\ stoerungen \in 0 .. STOERUNGEN_MAX
    /\ weck \in [Zeile -> {"nie", "gefordert", "angestossen", "entfallen", "abgeholt"}]

Init ==
    /\ ziel = [z \in Zeile |-> Keins] /\ schlange = {} /\ naechste = 1 /\ vorAck = {}
    /\ endpunkt = Geraet
    /\ leitung = [g \in Geraet |-> "keine"]
    /\ nochmal = [g \in Geraet |-> "kein"]
    /\ bereit = [g \in Geraet |-> 0] /\ unterwegs = [g \in Geraet |-> 0]
    /\ stoerungen = 0
    /\ weck = [z \in Zeile |-> "nie"]

Stoerung == stoerungen < STOERUNGEN_MAX /\ stoerungen' = stoerungen + 1

----------------------------------------------------------------------------
(* The handler of a sender (ws_endpoint).                                  *)

Schreibt(g) ==
    /\ naechste <= ZEILEN_MAX
    /\ ziel' = [ziel EXCEPT ![naechste] = g]
    /\ schlange' = schlange \cup {naechste}
    /\ naechste' = naechste + 1

(* The device has a line: the row is written and sent on it, dead or not. *)
SendetLive(g) ==
    /\ leitung[g] # "keine"
    /\ Schreibt(g)
    /\ UNCHANGED <<vorAck, endpunkt, leitung, anstoss, stoerungen, weck>>

(* It has none: the row is written, then the sender is sent its ack. *)
Puffert(g) ==
    /\ leitung[g] = "keine"
    /\ Schreibt(g)
    /\ vorAck' = vorAck \cup {naechste}
    /\ UNCHANGED <<endpunkt, leitung, anstoss, stoerungen, weck>>

SchonUnterwegs(g) == nochmal[g] # "kein"
Voll == Cardinality(Schluessel) >= PUSH_LAUFEND_MAX

(* Deviation: the key is there, but stays False. *)
MerktNichts(g) == UNCHANGED nochmal
Merkt(g) == nochmal' = [nochmal EXCEPT ![g] = "ja"]

(* Deviation: every row starts a task of its own (the code before SV-7). *)
stosse_im_hintergrund_anStets(g, z) ==
    /\ nochmal' = [nochmal EXCEPT ![g] = "nein"]
    /\ bereit' = [bereit EXCEPT ![g] = @ + 1]
    /\ weck' = [weck EXCEPT ![z] = "gefordert"]
(* A nudge is asked for: noted at the one under way, dropped at the cap,   *)
(* or a task of its own (it runs when the handler next waits).             *)
stosse_im_hintergrund_an(g, z) ==
    \/ /\ SchonUnterwegs(g) /\ Merkt(g)
       /\ weck' = [weck EXCEPT ![z] = "gefordert"]
       /\ UNCHANGED bereit
    \/ /\ ~SchonUnterwegs(g) /\ Voll
       /\ weck' = [weck EXCEPT ![z] = "entfallen"]
       /\ UNCHANGED <<nochmal, bereit>>
    \/ /\ ~SchonUnterwegs(g) /\ ~Voll
       /\ nochmal' = [nochmal EXCEPT ![g] = "nein"]
       /\ bereit' = [bereit EXCEPT ![g] = @ + 1]
       /\ weck' = [weck EXCEPT ![z] = "gefordert"]

AckFertig(z) ==
    /\ z \in vorAck
    /\ vorAck' = vorAck \ {z}
    /\ stosse_im_hintergrund_an(ziel[z], z)
    /\ UNCHANGED <<ziel, schlange, naechste, endpunkt, leitung, unterwegs, stoerungen>>

(* The sender is gone before its ack: its handler ends without the nudge. *)
AckScheitert(z) ==
    /\ z \in vorAck /\ Stoerung
    /\ vorAck' = vorAck \ {z}
    /\ weck' = [weck EXCEPT ![z] = IF @ = "nie" THEN "entfallen" ELSE @]
    /\ UNCHANGED <<ziel, schlange, naechste, endpunkt, leitung, anstoss>>

----------------------------------------------------------------------------
(* The task.  stosse_an reads the endpoint and waits only for a POST; with *)
(* no endpoint, or on a database error, the task is over at once.          *)

(* The POST goes out: it is about every row that lies there now. *)
Postet(g) ==
    /\ g \in endpunkt
    /\ unterwegs' = [unterwegs EXCEPT ![g] = 1]
    /\ weck' = [z \in Zeile |-> IF ziel[z] = g /\ weck[z] \in {"nie", "gefordert"}
                                THEN "angestossen" ELSE weck[z]]

Endet(g) ==
    /\ nochmal' = [nochmal EXCEPT ![g] = "kein"]
    /\ unterwegs' = [unterwegs EXCEPT ![g] = 0]

(* One call of stosse_an up to its first wait; `rest` is nochmal if it goes *)
(* on.  If it ends without a POST, what was asked for meanwhile has none.  *)
stosse_an(g, rest) ==
    \/ Postet(g) /\ nochmal' = rest /\ UNCHANGED stoerungen
    \/ /\ \/ g \notin endpunkt /\ UNCHANGED stoerungen
          \/ Stoerung
       /\ Endet(g)
       /\ weck' = [z \in Zeile |-> IF z \in Gefordert(g) THEN "entfallen" ELSE weck[z]]

(* Deviation: the nudge waits until the device has no line. *)
AufgabeBeginntWennWeg(g) ==
    /\ bereit[g] > 0 /\ leitung[g] = "keine"
    /\ bereit' = [bereit EXCEPT ![g] = @ - 1]
    /\ stosse_an(g, nochmal)
    /\ UNCHANGED <<relay, leitung>>

AufgabeBeginnt(g) ==
    /\ bereit[g] > 0
    /\ bereit' = [bereit EXCEPT ![g] = @ - 1]
    /\ stosse_an(g, nochmal)
    /\ UNCHANGED <<relay, leitung>>

(* The answer to the POST, an error status, an exception, or PUSH_TIMEOUT: *)
(* once more if a row came meanwhile, else the end.                        *)
PostFertig(g) ==
    /\ unterwegs[g] > 0
    /\ \/ nochmal[g] = "ja" /\ stosse_an(g, [nochmal EXCEPT ![g] = "nein"])
       \/ nochmal[g] # "ja" /\ Endet(g) /\ UNCHANGED <<stoerungen, weck>>
    /\ UNCHANGED <<relay, bereit, leitung>>

----------------------------------------------------------------------------
(* The app and its line. *)

(* The user opens the line, or a nudge does (beiAnstoss; connect() does    *)
(* nothing if the app takes itself for connected).  The new line takes the *)
(* place of an old one, and the queue is sent on it.                       *)
Verbindet(g) ==
    /\ leitung[g] # "steht"
    /\ leitung' = [leitung EXCEPT ![g] = "steht"]
    /\ UNCHANGED <<relay, anstoss, stoerungen, weck>>

Bestaetigt(g, z) ==
    /\ leitung[g] = "steht" /\ z \in schlange \cap An(g)
    /\ schlange' = schlange \ {z}
    /\ weck' = [weck EXCEPT ![z] = IF @ = "gefordert" THEN @ ELSE "abgeholt"]
    /\ UNCHANGED <<ziel, naechste, vorAck, endpunkt, anstoss, leitung, stoerungen>>

(* push_endpoint on the line: entered or deleted. *)
SetzeEndpunkt(g) ==
    /\ leitung[g] = "steht" /\ Stoerung
    /\ endpunkt' = IF g \in endpunkt THEN endpunkt \ {g} ELSE endpunkt \cup {g}
    /\ UNCHANGED <<ziel, schlange, naechste, vorAck, anstoss, leitung, weck>>

(* disconnect() after the 20 seconds, or the line breaks: what is under    *)
(* way on it is lost, and the relay sees it later.                         *)
Trennt(g) ==
    /\ leitung[g] = "steht"
    /\ leitung' = [leitung EXCEPT ![g] = "zu"]
    /\ UNCHANGED <<relay, anstoss, stoerungen, weck>>
RaeumtAb(g) ==
    /\ leitung[g] = "zu"
    /\ leitung' = [leitung EXCEPT ![g] = "keine"]
    /\ UNCHANGED <<relay, anstoss, stoerungen, weck>>

(* The relay restarts: tasks, keys and lines are gone, the queue is not. *)
Neustart ==
    /\ Stoerung
    /\ vorAck' = {}
    /\ leitung' = [g \in Geraet |-> "keine"]
    /\ nochmal' = [g \in Geraet |-> "kein"]
    /\ bereit' = [g \in Geraet |-> 0] /\ unterwegs' = [g \in Geraet |-> 0]
    /\ weck' = [z \in Zeile |-> IF weck[z] = "gefordert" \/ (z \in vorAck /\ weck[z] = "nie")
                                THEN "entfallen" ELSE weck[z]]
    /\ UNCHANGED <<ziel, schlange, naechste, endpunkt>>

Next ==
    \/ \E g \in Geraet :
         \/ SendetLive(g) \/ Puffert(g) \/ AufgabeBeginnt(g) \/ PostFertig(g)
         \/ Verbindet(g) \/ SetzeEndpunkt(g) \/ Trennt(g) \/ RaeumtAb(g)
         \/ \E z \in Zeile : Bestaetigt(g, z)
    \/ \E z \in Zeile : AckFertig(z) \/ AckScheitert(z)
    \/ Neustart

(* The event loop runs every task that is ready, and PUSH_TIMEOUT ends the *)
(* wait for an answer.                                                     *)
Fairness == \A g \in Geraet : WF_vars(AufgabeBeginnt(g)) /\ WF_vars(PostFertig(g))

Spec == Init /\ [][Next]_vars /\ Fairness

----------------------------------------------------------------------------
(* Properties *)

(* At most one nudge to a device is under way and at most PUSH_LAUFEND_MAX *)
(* in all, and a key stands for a living task: one that outlived it would  *)
(* keep its device unwoken until the next restart.                         *)
EinAnstossJeGeraet ==
    /\ Cardinality(Schluessel) <= PUSH_LAUFEND_MAX
    /\ \A g \in Geraet : bereit[g] + unterwegs[g] = (IF nochmal[g] = "kein" THEN 0 ELSE 1)

(* A row for which a nudge was asked and has not gone out is not forgotten *)
(* by the coalescing: a task has yet to start for its device, or the one   *)
(* that waits for an answer knows that it must go round again.             *)
NichtsVergessen ==
    \A g \in Geraet : Gefordert(g) # {} => bereit[g] > 0 \/ nochmal[g] = "ja"

(* So a POST goes out after the row was asked for, unless a database error,*)
(* a restart or a deleted endpoint took the nudge.                         *)
AnstossFolgt == \A z \in Zeile : weck[z] = "gefordert" ~> weck[z] # "gefordert"
=============================================================================
