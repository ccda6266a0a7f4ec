----------------------------- MODULE QueueCaps -----------------------------
(***************************************************************************)
(* The caps on the table `queue` (server/relay_server.py, schaffe_platz):  *)
(* per sender and device, per sender, per device, and the roof over the    *)
(* whole table, which is not counted but kept in `_queue_zeilen`, and      *)
(* which asks a remembered answer who the heaviest sender is.              *)
(*                                                                         *)
(* Two threads change the table: the event loop, and one /register at a    *)
(* time, which holds `schreibsperre` while it removes a forgotten device.  *)
(* queue_zeilen_aendern reads and writes the counter without a lock the    *)
(* loop holds, so the two may tear each other's update.                    *)
(*                                                                         *)
(* A client without receipts has its backlog sent and then deleted.  The   *)
(* rows are read, then sent with an await for each, and at the end as many *)
(* are counted off as were sent, also those that have left in between.     *)
(***************************************************************************)
EXTENDS Integers, Sequences, FiniteSets, SequencesExt

CONSTANTS
    Geraet,                \* the devices messages are sent to
    Absender,              \* the senders
    Leitung,               \* the lines of clients without receipts
    Keiner,                \* Python's None
    QUEUE_MAX_JE_PAAR, QUEUE_MAX_JE_ABSENDER, QUEUE_MAX_PER_USER, QUEUE_MAX_TOTAL,
    VERDRAENGT_MAX,        \* bound: evictions by a thread
    DOPPELT_MAX            \* bound: rows counted off that were gone

ASSUME DeckelAssumption ==
    {QUEUE_MAX_JE_PAAR, QUEUE_MAX_JE_ABSENDER, QUEUE_MAX_PER_USER, QUEUE_MAX_TOTAL}
        \subseteq Nat \ {0}
ASSUME SchrankenAssumption == {VERDRAENGT_MAX, DOPPELT_MAX} \subseteq Nat
ASSUME KeinerAssumption == Keiner \notin Absender \cup Geraet

VARIABLES
    queue,         \* the table in id order: who wrote to which device, and
                   \* which backlogs under way have read the row
    queueZeilen,   \* _queue_zeilen
    schwerster,    \* _schwerster: sender and rows as remembered, or Keiner
    loop,          \* the event loop between two statements, see Faden
    thread,        \* the same for the /register that holds schreibsperre
    rueckstand,    \* len(zugestellt) of the backlog under way, 0 if none
    verdraengt,    \* history: evictions by a thread so far
    verlust,       \* history: those that wrote over a +1 of the loop
    doppelt        \* history: rows a backlog counted off that were gone

geschichte == <<verdraengt, verlust, doppelt>>
vars == <<queue, queueZeilen, schwerster, loop, thread, rueckstand, geschichte>>

Zeile == [ziel : Geraet, von : Absender, bei : SUBSET Leitung]
NeueZeile == {z \in Zeile : z.bei = {}}

(* A thread that has changed the table brings the counter after it:        *)
(*   frei        nothing to do                                             *)
(*   zaehlen     committed, delta not yet applied                          *)
(*   schreiben   has read the counter and computed its new value           *)
(*   einfuegen   the loop between schaffe_platz and its INSERT             *)
Ruht == [ph |-> "frei", delta |-> 0, gelesen |-> 0, fuer |-> Keiner]
Zaehlt(delta, fuer) == [Ruht EXCEPT !.ph = "zaehlen", !.delta = delta, !.fuer = fuer]
SperreFrei == thread.ph = "frei"

TypeOK ==
    /\ queue \in Seq(Zeile)
    /\ queueZeilen \in Nat
    /\ schwerster = Keiner \/ schwerster \in [von : Absender, n : Nat]
    /\ loop.ph \in {"frei", "zaehlen", "schreiben", "einfuegen"}
    /\ loop.fuer = Keiner \/ loop.fuer \in NeueZeile
    /\ thread.ph \in {"frei", "zaehlen", "schreiben"} /\ thread.delta <= 0
    /\ rueckstand \in [Leitung -> Nat]
    /\ verdraengt \in 0 .. VERDRAENGT_MAX /\ verlust \in 0 .. verdraengt
    /\ doppelt \in 0 .. DOPPELT_MAX

Init ==
    /\ queue = <<>> /\ queueZeilen = 0 /\ schwerster = Keiner
    /\ loop = Ruht /\ thread = Ruht /\ rueckstand = [l \in Leitung |-> 0]
    /\ verdraengt = 0 /\ verlust = 0 /\ doppelt = 0

----------------------------------------------------------------------------
(* Counting and dropping rows, by the rows a WHERE clause asks for. *)

Von(a) == {z \in Zeile : z.von = a}
Nach(g) == {z \in Zeile : z.ziel = g}
VonNach(g, a) == Nach(g) \cap Von(a)

Treffer(q, Z) == {i \in DOMAIN q : q[i] \in Z}
Zahl(q, Z) == Cardinality(Treffer(q, Z))
Gesamt(q, a) == Zahl(q, Von(a))
Bei(q, g) == Zahl(q, Nach(g))
Paar(q, g, a) == Zahl(q, VonNach(g, a))
AeltesteFort(q, Z) == RemoveFirstMatch(q, LAMBDA z : z \in Z)

(* The heaviest at a device; of two the one with the oldest row. *)
SchwersterBei(g) ==
    LET schwere == {a \in Absender : \A b \in Absender : Paar(queue, g, b) <= Paar(queue, g, a)}
        erste == CHOOSE i \in DOMAIN queue :
                   /\ queue[i].ziel = g /\ queue[i].von \in schwere
                   /\ \A j \in 1 .. i - 1 : queue[j].ziel # g \/ queue[j].von \notin schwere
    IN queue[erste].von

(* _schwerster_absender: the remembered answer, else the table's (any of   *)
(* the heaviest), else nobody.                                             *)
Schwerste ==
    IF schwerster # Keiner THEN {schwerster}
    ELSE {[von |-> a, n |-> Gesamt(queue, a)] :
             a \in {b \in Absender : /\ Gesamt(queue, b) > 0
                                     /\ \A c \in Absender : Gesamt(queue, c) <= Gesamt(queue, b)}}

(* Deviation: a cap that gives way by one. *)
TabelleVollEinsZuviel == queueZeilen > QUEUE_MAX_TOTAL

(* Which of the four checks of schaffe_platz decides. *)
PaarVoll(z) == Paar(queue, z.ziel, z.von) >= QUEUE_MAX_JE_PAAR
AbsenderVoll(z) == Gesamt(queue, z.von) >= QUEUE_MAX_JE_ABSENDER
GeraetVoll(z) == Bei(queue, z.ziel) >= QUEUE_MAX_PER_USER
TabelleVoll == queueZeilen >= QUEUE_MAX_TOTAL

----------------------------------------------------------------------------
(* schaffe_platz(to, geraet, absender), z = the row to come. *)

Angenommen(z, weg) == loop' = Zaehlt(-weg, z)
Abgewiesen == loop' = Zaehlt(0, Keiner)

Beginn == loop.ph = "frei" /\ SperreFrei

EigeneAelteste(z) ==
    /\ Beginn /\ PaarVoll(z)
    /\ queue' = AeltesteFort(queue, VonNach(z.ziel, z.von))
    /\ Angenommen(z, 1)
    /\ UNCHANGED <<queueZeilen, schwerster, thread, rueckstand, geschichte>>

(* Deviation: at a full device the oldest row falls, whoever sent it. *)
AeltesteAmGeraetWeicht(z) ==
    /\ Beginn /\ ~PaarVoll(z) /\ ~AbsenderVoll(z) /\ GeraetVoll(z)
    /\ queue' = AeltesteFort(queue, Nach(z.ziel))
    /\ Angenommen(z, 1)
    /\ UNCHANGED <<queueZeilen, schwerster, thread, rueckstand, geschichte>>

AmGeraetWeichen(z) ==
    /\ Beginn /\ ~PaarVoll(z) /\ ~AbsenderVoll(z) /\ GeraetVoll(z)
    /\ LET schwer == SchwersterBei(z.ziel)
           opfer == IF Paar(queue, z.ziel, z.von) >= Paar(queue, z.ziel, schwer)
                    THEN z.von ELSE schwer
       IN queue' = AeltesteFort(queue, VonNach(z.ziel, opfer))
    /\ Angenommen(z, 1)
    /\ UNCHANGED <<queueZeilen, schwerster, thread, rueckstand, geschichte>>

(* The roof: the remembered heaviest loses its oldest row, if he is not    *)
(* the sender and was heavier than the sender is.  If he has none left the *)
(* memory is dropped and the sender refused.                               *)
AmDach(z) ==
    /\ Beginn /\ ~PaarVoll(z) /\ ~AbsenderVoll(z) /\ ~GeraetVoll(z) /\ TabelleVoll
    /\ \/ /\ Schwerste = {} /\ Abgewiesen
          /\ UNCHANGED <<queue, schwerster>>
       \/ \E s \in Schwerste :
            IF s.von = z.von \/ s.n <= Gesamt(queue, z.von)
            THEN /\ Abgewiesen /\ schwerster' = s
                 /\ UNCHANGED queue
            ELSE IF Gesamt(queue, s.von) = 0
            THEN /\ Abgewiesen /\ schwerster' = Keiner
                 /\ UNCHANGED queue
            ELSE /\ queue' = AeltesteFort(queue, Von(s.von))
                 /\ schwerster' = [s EXCEPT !.n = @ - 1]
                 /\ Angenommen(z, 1)
    /\ UNCHANGED <<queueZeilen, thread, rueckstand, geschichte>>

AbsenderAbgewiesen(z) ==
    /\ Beginn /\ ~PaarVoll(z) /\ AbsenderVoll(z)
    /\ Abgewiesen
    /\ UNCHANGED <<queue, queueZeilen, schwerster, thread, rueckstand, geschichte>>

NochPlatz(z) ==
    /\ Beginn /\ ~PaarVoll(z) /\ ~AbsenderVoll(z) /\ ~GeraetVoll(z) /\ ~TabelleVoll
    /\ Angenommen(z, 0)
    /\ UNCHANGED <<queue, queueZeilen, schwerster, thread, rueckstand, geschichte>>

SchaffePlatz(z) ==
    EigeneAelteste(z) \/ AbsenderAbgewiesen(z) \/ AmGeraetWeichen(z) \/ AmDach(z) \/ NochPlatz(z)

(* The INSERT of ws_endpoint, no await after schaffe_platz. *)
Einfuegen ==
    /\ loop.ph = "einfuegen" /\ SperreFrei
    /\ queue' = Append(queue, loop.fuer)
    /\ loop' = Zaehlt(1, Keiner)
    /\ UNCHANGED <<queueZeilen, schwerster, thread, rueckstand, geschichte>>

----------------------------------------------------------------------------
(* queue_zeilen_aendern: max(0, _queue_zeilen + delta), read and write. *)

(* Deviation: no floor. *)
NeuOhneBoden(gelesen, delta) == gelesen + delta

Neu(gelesen, delta) == IF gelesen + delta < 0 THEN 0 ELSE gelesen + delta

LoopLiest ==
    /\ loop.ph = "zaehlen"
    /\ loop' = [loop EXCEPT !.ph = "schreiben", !.gelesen = queueZeilen]
    /\ UNCHANGED <<queue, queueZeilen, schwerster, thread, rueckstand, geschichte>>

LoopSchreibt ==
    /\ loop.ph = "schreiben"
    /\ queueZeilen' = Neu(loop.gelesen, loop.delta)
    /\ loop' = IF loop.fuer = Keiner THEN Ruht
               ELSE [Ruht EXCEPT !.ph = "einfuegen", !.fuer = loop.fuer]
    /\ UNCHANGED <<queue, schwerster, thread, rueckstand, geschichte>>

ThreadLiest ==
    /\ thread.ph = "zaehlen"
    /\ thread' = [thread EXCEPT !.ph = "schreiben", !.gelesen = queueZeilen]
    /\ UNCHANGED <<queue, queueZeilen, schwerster, loop, rueckstand, geschichte>>

ThreadSchreibt ==
    /\ thread.ph = "schreiben"
    /\ queueZeilen' = Neu(thread.gelesen, thread.delta)
    /\ thread' = Ruht
    /\ verlust' = IF queueZeilen > thread.gelesen THEN verlust + 1 ELSE verlust
    /\ UNCHANGED <<queue, schwerster, loop, rueckstand, verdraengt, doppelt>>

----------------------------------------------------------------------------
(* Rows that leave. *)

Ohne(S) == LET bleibt == {i \in DOMAIN queue : i \notin S}
           IN [k \in 1 .. Cardinality(bleibt) |->
                 queue[CHOOSE i \in bleibt : Cardinality({j \in bleibt : j <= i}) = k]]
An(g) == Treffer(queue, Nach(g))

(* Receipts, and a list change that removes the device: rows of one        *)
(* device, on the loop, counted by what the DELETE found.                  *)
Loesche(g) ==
    /\ loop.ph = "frei" /\ SperreFrei
    /\ \E S \in SUBSET An(g) :
         /\ S # {}
         /\ queue' = Ohne(S)
         /\ loop' = Zaehlt(-Cardinality(S), Keiner)
    /\ UNCHANGED <<queueZeilen, schwerster, thread, rueckstand, geschichte>>

(* The backlog of a client without receipts, over line l: read at once,    *)
(* sent row by row.  A row that leaves takes its mark along.               *)
RueckstandLesen(l, g) ==
    /\ loop.ph = "frei" /\ rueckstand[l] = 0
    /\ queue' = [i \in DOMAIN queue |->
                   IF i \in An(g) THEN [queue[i] EXCEPT !.bei = @ \cup {l}] ELSE queue[i]]
    /\ rueckstand' = [rueckstand EXCEPT ![l] = Bei(queue, g)]
    /\ UNCHANGED <<queueZeilen, schwerster, loop, thread, geschichte>>

VonGelesen(l) == {z \in Zeile : l \in z.bei}
NochDa(l) == Treffer(queue, VonGelesen(l))

(* All sent: what is still there is deleted, but all of it counted off.    *)
RueckstandGeloescht(l) ==
    /\ loop.ph = "frei" /\ SperreFrei /\ rueckstand[l] > 0
    /\ queue' = Ohne(NochDa(l))
    /\ loop' = Zaehlt(-rueckstand[l], Keiner)
    /\ doppelt' = doppelt + (rueckstand[l] - Cardinality(NochDa(l)))
    /\ doppelt' <= DOPPELT_MAX
    /\ rueckstand' = [rueckstand EXCEPT ![l] = 0]
    /\ UNCHANGED <<queueZeilen, schwerster, thread, verdraengt, verlust>>

Vergessen(L) == queue' = [i \in DOMAIN queue |-> [queue[i] EXCEPT !.bei = @ \ L]]

(* A send fails: the handler ends, and nothing is deleted. *)
RueckstandAbriss(l) ==
    /\ loop.ph = "frei" /\ rueckstand[l] > 0
    /\ Vergessen({l})
    /\ rueckstand' = [rueckstand EXCEPT ![l] = 0]
    /\ UNCHANGED <<queueZeilen, schwerster, loop, thread, geschichte>>

(* janitor: the expired rows (the oldest ones), the rows of forgotten      *)
(* devices, then the count against the table, all without an await.        *)
Aufraeumen ==
    /\ loop.ph = "frei" /\ SperreFrei
    /\ \E n \in 0 .. Len(queue), G \in SUBSET Geraet :
         queue' = Ohne(1 .. n \cup UNION {An(g) : g \in G})
    /\ queueZeilen' = Len(queue')
    /\ UNCHANGED <<schwerster, loop, thread, rueckstand, geschichte>>

(* register() evicts a forgotten device, in a thread and under the lock. *)
ThreadVerdraengt(g) ==
    /\ SperreFrei
    /\ verdraengt < VERDRAENGT_MAX
    /\ queue' = Ohne(An(g))
    /\ thread' = Zaehlt(-Cardinality(An(g)), Keiner)
    /\ verdraengt' = verdraengt + 1
    /\ UNCHANGED <<queueZeilen, schwerster, loop, rueckstand, verlust, doppelt>>

(* SCHWERSTER_FRIST is over. *)
Verjaehrt ==
    /\ schwerster # Keiner
    /\ schwerster' = Keiner
    /\ UNCHANGED <<queue, queueZeilen, loop, thread, rueckstand, geschichte>>

(* A restart counts before it serves. *)
Neustart ==
    /\ queueZeilen' = Len(queue)
    /\ schwerster' = Keiner /\ loop' = Ruht /\ thread' = Ruht
    /\ Vergessen(Leitung) /\ rueckstand' = [l \in Leitung |-> 0]
    /\ UNCHANGED geschichte

----------------------------------------------------------------------------
Next ==
    \/ \E z \in NeueZeile : SchaffePlatz(z)
    \/ Einfuegen \/ LoopLiest \/ LoopSchreibt \/ ThreadLiest \/ ThreadSchreibt
    \/ \E g \in Geraet : Loesche(g) \/ ThreadVerdraengt(g)
    \/ \E l \in Leitung :
          \/ \E g \in Geraet : RueckstandLesen(l, g)
          \/ RueckstandGeloescht(l) \/ RueckstandAbriss(l)
    \/ Aufraeumen \/ Verjaehrt \/ Neustart

Spec == Init /\ [][Next]_vars

----------------------------------------------------------------------------
(* Properties. *)

(* The three counted caps hold in the table, whatever the order in which   *)
(* the checks decide and whoever loses a row to whom.                      *)
DeckelHalten ==
    /\ \A a \in Absender : Gesamt(queue, a) <= QUEUE_MAX_JE_ABSENDER
    /\ \A g \in Geraet : /\ Bei(queue, g) <= QUEUE_MAX_PER_USER
                         /\ \A a \in Absender : Paar(queue, g, a) <= QUEUE_MAX_JE_PAAR

(* The roof is kept by a counter that is wrong between two recounts in two *)
(* ways: an update of the loop that a thread tore, and rows a backlog      *)
(* counted off although they had gone, and been counted, while it was      *)
(* sent.  It gives way by no more than one row for each, for every order   *)
(* of deletions, backlogs, evictions, recounts and restarts.               *)
DachHaelt == Len(queue) <= QUEUE_MAX_TOTAL + verlust + doppelt

(* Four limits in a fixed order, each by a count of its own, and one row   *)
(* dropped makes room for exactly one: none of them is ever passed over.   *)
AlleDeckelHalten == DeckelHalten /\ DachHaelt

(* Somebody else's row falls for a newcomer. *)
Weicht(a) == /\ loop.ph = "frei" /\ loop'.fuer # Keiner
             /\ Gesamt(queue', a) < Gesamt(queue, a)
             /\ a # loop'.fuer.von

(* At a full device nobody loses a row to a sender who has as many there:  *)
(* DER GRUNDSATZ of schaffe_platz, for its third case.                     *)
GrundsatzAmGeraet ==
    [][\A a \in Absender :
         Weicht(a) /\ GeraetVoll(loop'.fuer)
           => LET g == loop'.fuer.ziel
              IN Paar(queue, g, loop'.fuer.von) < Paar(queue, g, a)]_vars
=============================================================================
