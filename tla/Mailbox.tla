------------------------------ MODULE Mailbox ------------------------------
(***************************************************************************)
(* The mailbox of ONE device at the relay: senders, the table `queue`, the *)
(* device's line, and the client that stores a message and then confirms   *)
(* it (server/relay_server.py ws_endpoint; app real_messenger_core.dart).  *)
(*                                                                         *)
(* Every message has a sender of its own, whose handler runs at the relay. *)
(* Handlers share one event loop.  A handler between its checks and its    *)
(* INSERT holds the loop, but not the database lock: only threads of the   *)
(* HTTP endpoints can act then.                                            *)
(***************************************************************************)
EXTENDS Naturals, Sequences, FiniteSets

CONSTANTS
    Nachricht,    \* the messages sent to the device
    NACHWEIS,     \* what its clients announce as `empfangsnachweis`
    PLATZ,        \* rows the device may have (QUEUE_MAX_JE_PAAR, _PER_USER)
    ID_MAX,       \* bound: rows ever inserted
    STOERUNG_MAX  \* bound: broken lines (either side) and restarts

ASSUME NachweisAssumption == NACHWEIS \subseteq BOOLEAN
ASSUME SchrankenAssumption == PLATZ \in Nat \ {0} /\ ID_MAX \in Nat /\ STOERUNG_MAX \in Nat

VARIABLES
    bekannt,     \* the device has a row in `identities`
    queue,       \* the device's rows in `queue`: id and message
    naechste,    \* the next row id (AUTOINCREMENT)
    leitung,     \* the device's line: down, sending the backlog, main loop
    nachweis,    \* what that line announced
    ausstehend,  \* rows of the backlog query not yet sent
    zugestellt,  \* ids of the backlog rows sent on this line
    luft,        \* frames on their way to the client; q = 0: no row behind it
    haendler,    \* per message: where the sender's handler stands
    abgelegt,    \* messages the client has processed durably
    zubest,      \* row ids the client has yet to confirm
    quittiert,   \* messages whose sender has the `ack`
    fort,        \* history: messages that fell to a limit or to an old client
    stoerungen   \* broken lines and restarts so far

relay == <<bekannt, queue, naechste, haendler>>
strecke == <<leitung, nachweis, ausstehend, zugestellt, luft>>
client == <<abgelegt, zubest>>
vars == <<relay, strecke, client, quittiert, fort, stoerungen>>

(* Where the handler of a sender stands:                                   *)
(*   ruhe       nothing of this message at the relay                       *)
(*   live       awaits the send on a line without receipts                 *)
(*   abgerissen that line broke while it waited                            *)
(*   prueft     place is made, the INSERT follows without an await         *)
(*   puffert    the same after a live send that failed                     *)
(*   quittung   the message is in, the `ack` is not out yet                *)
Stelle == {"ruhe", "live", "abgerissen", "prueft", "puffert", "quittung"}
Zeile == [id : 1 .. ID_MAX, n : Nachricht]

TypeOK ==
    /\ bekannt \in BOOLEAN
    /\ queue \subseteq Zeile
    /\ naechste \in 1 .. ID_MAX + 1
    /\ leitung \in {"aus", "rueckstand", "haupt"}
    /\ nachweis \in BOOLEAN
    /\ ausstehend \subseteq Zeile
    /\ zugestellt \subseteq 1 .. ID_MAX
    /\ luft \in Seq([n : Nachricht, q : 0 .. ID_MAX])
    /\ haendler \in [Nachricht -> Stelle]
    /\ abgelegt \subseteq Nachricht
    /\ zubest \subseteq 1 .. ID_MAX
    /\ quittiert \subseteq Nachricht
    /\ fort \subseteq Nachricht
    /\ stoerungen \in 0 .. STOERUNG_MAX

Init ==
    /\ bekannt = TRUE
    /\ queue = {}
    /\ naechste = 1
    /\ leitung = "aus" /\ nachweis = FALSE
    /\ ausstehend = {} /\ zugestellt = {} /\ luft = <<>>
    /\ haendler = [m \in Nachricht |-> "ruhe"]
    /\ abgelegt = {} /\ zubest = {} /\ quittiert = {} /\ fort = {}
    /\ stoerungen = 0

LoopFrei == \A m \in Nachricht : haendler[m] \notin {"prueft", "puffert"}
Rueckt(m, s) == haendler' = [haendler EXCEPT ![m] = s]
Nachrichten(zeilen) == {z.n : z \in zeilen}
Aelteste == {z \in queue : \A y \in queue : z.id <= y.id}

----------------------------------------------------------------------------
(* A message arrives at the relay. *)

(* schaffe_platz for a single sender: at the cap its own oldest row falls. *)
SchaffePlatz ==
    LET faellt == IF Cardinality(queue) >= PLATZ THEN Aelteste ELSE {}
    IN queue' = queue \ faellt /\ fort' = fort \cup Nachrichten(faellt)

(* The branch of ws_endpoint that buffers: for an offline device and for a *)
(* line with receipts.  A refusal (unknown device, rate limit) changes     *)
(* nothing and is no step.                                                 *)
Pruefe(m) ==
    /\ LoopFrei /\ bekannt
    /\ haendler[m] = "ruhe" /\ m \notin quittiert
    /\ leitung = "aus" \/ nachweis
    /\ naechste <= ID_MAX
    /\ SchaffePlatz
    /\ Rueckt(m, "prueft")
    /\ UNCHANGED <<bekannt, naechste, strecke, client, quittiert, stoerungen>>

(* The branch for a line without receipts: straight through, no row. *)
SendeLive(m) ==
    /\ LoopFrei /\ bekannt
    /\ haendler[m] = "ruhe" /\ m \notin quittiert
    /\ leitung # "aus" /\ ~nachweis
    /\ luft' = Append(luft, [n |-> m, q |-> 0])
    /\ Rueckt(m, "live")
    /\ UNCHANGED <<bekannt, queue, naechste, leitung, nachweis, ausstehend, zugestellt,
                   client, quittiert, fort, stoerungen>>

(* The send returned: the frame is in the line's buffer, nothing more. *)
LiveFertig(m) ==
    /\ LoopFrei
    /\ haendler[m] \in {"live", "abgerissen"}
    /\ Rueckt(m, "quittung")
    /\ fort' = fort \cup {m}
    /\ UNCHANGED <<bekannt, queue, naechste, strecke, client, quittiert, stoerungen>>

(* The send failed: carry on as if the device were offline, whatever line  *)
(* it may have by now.                                                     *)
LiveGescheitert(m) ==
    /\ LoopFrei
    /\ haendler[m] = "abgerissen"
    /\ naechste <= ID_MAX
    /\ SchaffePlatz
    /\ Rueckt(m, "puffert")
    /\ UNCHANGED <<bekannt, naechste, strecke, client, quittiert, stoerungen>>

(* Deviation: the id a table without AUTOINCREMENT would give. *)
FreieId == 1 + Cardinality({i \in 1 .. ID_MAX : \E z \in queue : z.id >= i})

NeueId == naechste

(* Deviation: live frames only once the backlog is out. *)
LeitungNimmtErstDanach == leitung = "haupt" /\ nachweis

(* A line that takes live frames with a row: from its registration on. *)
LeitungNimmt == leitung # "aus" /\ nachweis

(* INSERT.  With receipts the live frame with the row's id follows; who    *)
(* buffers for an offline device sends none.                               *)
Einfuegen(m) ==
    /\ haendler[m] \in {"prueft", "puffert"}
    /\ queue' = queue \cup {[id |-> NeueId, n |-> m]}
    /\ naechste' = naechste + 1
    /\ luft' = IF haendler[m] = "prueft" /\ LeitungNimmt
                 THEN Append(luft, [n |-> m, q |-> NeueId]) ELSE luft
    /\ Rueckt(m, "quittung")
    /\ UNCHANGED <<bekannt, leitung, nachweis, ausstehend, zugestellt,
                   client, quittiert, fort, stoerungen>>

(* The `ack` reaches the sender, or the sender's line broke before: then   *)
(* the sender may send the message again.                                  *)
Quittiere(m) ==
    /\ LoopFrei
    /\ haendler[m] = "quittung"
    /\ Rueckt(m, "ruhe")
    /\ quittiert' = quittiert \cup {m}
    /\ UNCHANGED <<bekannt, queue, naechste, strecke, client, fort, stoerungen>>

QuittungVerloren(m) ==
    /\ LoopFrei
    /\ stoerungen < STOERUNG_MAX
    /\ haendler[m] = "quittung"
    /\ Rueckt(m, "ruhe")
    /\ stoerungen' = stoerungen + 1
    /\ UNCHANGED <<bekannt, queue, naechste, strecke, client, quittiert, fort>>

----------------------------------------------------------------------------
(* The line of the device. *)

(* Registered and the backlog query read: one stretch without an await. *)
Verbinde(n) ==
    /\ LoopFrei /\ bekannt
    /\ leitung = "aus"
    /\ leitung' = "rueckstand" /\ nachweis' = n
    /\ ausstehend' = queue /\ zugestellt' = {}
    /\ UNCHANGED <<relay, luft, client, quittiert, fort, stoerungen>>

(* One backlog frame; rows deleted meanwhile are still sent. *)
RueckstandSenden ==
    /\ LoopFrei
    /\ leitung = "rueckstand"
    /\ \E z \in ausstehend :
         /\ \A y \in ausstehend : z.id <= y.id
         /\ luft' = Append(luft, [n |-> z.n, q |-> z.id])
         /\ ausstehend' = ausstehend \ {z}
         /\ zugestellt' = zugestellt \cup {z.id}
    /\ UNCHANGED <<relay, leitung, nachweis, client, quittiert, fort, stoerungen>>

(* The backlog is out: without receipts its rows go now. *)
RueckstandFertig ==
    /\ LoopFrei
    /\ leitung = "rueckstand" /\ ausstehend = {}
    /\ LET weg == IF nachweis THEN {} ELSE {z \in queue : z.id \in zugestellt}
       IN queue' = queue \ weg /\ fort' = fort \cup Nachrichten(weg)
    /\ leitung' = "haupt" /\ zugestellt' = {}
    /\ UNCHANGED <<bekannt, naechste, haendler, nachweis, ausstehend, luft,
                   client, quittiert, stoerungen>>

(* Deviation: a duplicate is dropped without a receipt. *)
EmpfangeDoppeltesStill ==
    /\ luft # <<>>
    /\ abgelegt' = abgelegt \cup {Head(luft).n}
    /\ zubest' = IF nachweis /\ Head(luft).n \notin abgelegt
                   THEN zubest \cup ({Head(luft).q} \ {0}) ELSE zubest
    /\ luft' = Tail(luft)
    /\ UNCHANGED <<relay, leitung, nachweis, ausstehend, zugestellt, quittiert, fort, stoerungen>>

(* The client processes a frame: it stores the message (a duplicate or an  *)
(* undecryptable one is dropped, its session state is stored) and only     *)
(* then has something to confirm.                                          *)
Empfange ==
    /\ luft # <<>>
    /\ abgelegt' = abgelegt \cup {Head(luft).n}
    /\ zubest' = IF nachweis THEN zubest \cup ({Head(luft).q} \ {0}) ELSE zubest
    /\ luft' = Tail(luft)
    /\ UNCHANGED <<relay, leitung, nachweis, ausstehend, zugestellt, quittiert, fort, stoerungen>>

(* Deviation: a receipt counts for every older row as well. *)
BestaetigeBis(q) ==
    /\ LoopFrei
    /\ leitung = "haupt"
    /\ q \in zubest
    /\ zubest' = zubest \ {q}
    /\ queue' = {z \in queue : z.id > q}
    /\ UNCHANGED <<bekannt, naechste, haendler, strecke, abgelegt, quittiert, fort, stoerungen>>

(* "empfangen" on the client's current line: the main loop deletes the row. *)
Bestaetige(q) ==
    /\ LoopFrei
    /\ leitung = "haupt"
    /\ q \in zubest
    /\ zubest' = zubest \ {q}
    /\ queue' = {z \in queue : z.id # q}
    /\ UNCHANGED <<bekannt, naechste, haendler, strecke, abgelegt, quittiert, fort, stoerungen>>

(* Without a line the confirmation goes nowhere, and nobody keeps it. *)
NachweisVerloren(q) ==
    /\ leitung = "aus"
    /\ q \in zubest
    /\ zubest' = zubest \ {q}
    /\ UNCHANGED <<relay, strecke, abgelegt, quittiert, fort, stoerungen>>

(* The line breaks (network, lock, crash of the app): frames on it are     *)
(* lost.                                                                   *)
LeitungAus ==
    /\ leitung' = "aus" /\ nachweis' = FALSE
    /\ ausstehend' = {} /\ zugestellt' = {} /\ luft' = <<>>

Abriss ==
    /\ LoopFrei
    /\ stoerungen < STOERUNG_MAX
    /\ leitung # "aus"
    /\ LeitungAus
    /\ haendler' = [m \in Nachricht |->
                      IF haendler[m] = "live" THEN "abgerissen" ELSE haendler[m]]
    /\ stoerungen' = stoerungen + 1
    /\ UNCHANGED <<bekannt, queue, naechste, client, quittiert, fort>>

----------------------------------------------------------------------------
(* What else touches the rows. *)

(* purge_expired for a row past QUEUE_TTL_SECONDS. *)
Ablauf(z) ==
    /\ LoopFrei
    /\ z \in queue
    /\ queue' = queue \ {z}
    /\ fort' = fort \cup {z.n}
    /\ UNCHANGED <<bekannt, naechste, haendler, strecke, client, quittiert, stoerungen>>

(* loesche_geraet: from a list change or the janitor on the event loop, or *)
(* from register() in a thread, where nothing waits for the loop.  The     *)
(* line is not touched here; an `Abriss` may follow.                       *)
LoescheGeraet ==
    /\ bekannt
    /\ bekannt' = FALSE
    /\ queue' = {}
    /\ fort' = fort \cup Nachrichten(queue)
    /\ UNCHANGED <<naechste, haendler, strecke, client, quittiert, stoerungen>>

(* The device registers again. *)
Register ==
    /\ ~bekannt
    /\ bekannt' = TRUE
    /\ UNCHANGED <<queue, naechste, haendler, strecke, client, quittiert, fort, stoerungen>>

(* The relay restarts: handlers and lines are gone, the table stays. *)
Neustart ==
    /\ stoerungen < STOERUNG_MAX
    /\ LeitungAus
    /\ haendler' = [m \in Nachricht |-> "ruhe"]
    /\ stoerungen' = stoerungen + 1
    /\ UNCHANGED <<bekannt, queue, naechste, client, quittiert, fort>>

----------------------------------------------------------------------------
Next ==
    \/ \E m \in Nachricht : \/ Pruefe(m) \/ SendeLive(m) \/ LiveFertig(m)
                            \/ LiveGescheitert(m) \/ Einfuegen(m)
                            \/ Quittiere(m) \/ QuittungVerloren(m)
    \/ \E n \in NACHWEIS : Verbinde(n)
    \/ RueckstandSenden \/ RueckstandFertig \/ Empfange \/ Abriss
    \/ \E q \in zubest : Bestaetige(q) \/ NachweisVerloren(q)
    \/ \E z \in queue : Ablauf(z)
    \/ LoescheGeraet \/ Register \/ Neustart

Spec == Init /\ [][Next]_vars

(* The event loop runs every ready handler, the client reconnects while it *)
(* runs, and it processes what arrives.  Nothing forces a row to expire, a *)
(* device to be removed or to come back.                                   *)
Fairness ==
    /\ WF_vars(RueckstandSenden) /\ WF_vars(RueckstandFertig) /\ WF_vars(Empfange)
    /\ WF_vars(\E n \in NACHWEIS : Verbinde(n))
    /\ \A m \in Nachricht : WF_vars(Einfuegen(m))
    /\ \A q \in 1 .. ID_MAX : WF_vars(Bestaetige(q))

FairSpec == Spec /\ Fairness

----------------------------------------------------------------------------
(* Properties. *)

(* What is confirmed is stored: no row falls to a receipt whose message    *)
(* the client does not have, however old the receipt is.                   *)
NachweisTrifftAbgelegtes ==
    \A z \in queue : z.id \in zubest => z.n \in abgelegt

(* The mailbox keeps the promise: an acknowledged message lies in the      *)
(* table until the client has it, through broken lines, lost receipts,     *)
(* lost `ack`s, restarts and rows sent twice.                              *)
Liegt(m) == \E z \in queue : z.n = m
standVon == [m \in Nachricht |->
               IF m \in abgelegt THEN "abgelegt"
               ELSE IF Liegt(m) THEN "liegt"
               ELSE IF m \in fort THEN "ohneGewaehr"
               ELSE "offen"]
Promise == INSTANCE MailboxPromise WITH stand <- standVon
Versprechen == Promise!Spec

(* Every line of the device announces receipts.  After a change from one   *)
(* without, a message whose live send failed waits for the next line.      *)
NurMitNachweis == [](leitung # "aus" => nachweis)

(* With receipts an acknowledged message arrives, or falls to a limit, or  *)
(* its device is removed: it does not wait behind an open line.            *)
KommtAn ==
    NurMitNachweis =>
        \A m \in Nachricht : (m \in quittiert) ~> (m \in abgelegt \cup fort \/ ~bekannt)

(* What the client has is not delivered for ever: its rows leave the table *)
(* once the line is up long enough to confirm them.                        *)
RueckstandLeertSich ==
    NurMitNachweis =>
        (<>[](leitung = "haupt") => []<>(\A z \in queue : z.n \notin abgelegt))
=============================================================================
