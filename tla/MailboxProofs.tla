--------------------------- MODULE MailboxProofs ---------------------------
(***************************************************************************)
(* Proofs about Mailbox, for any number of messages, rows, broken lines    *)
(* and restarts: its types, that a receipt only ever deletes what the      *)
(* client has, and that it implements MailboxPromise.                      *)
(***************************************************************************)
EXTENDS Mailbox, SequenceTheorems, TLAPS

----------------------------------------------------------------------------
(* The inductive invariant. *)

Schreibt(m) == haendler[m] \in {"prueft", "puffert"}

(* A handler between its checks and its INSERT holds the event loop: there *)
(* is one, and its id is free.                                             *)
EinSchreiber ==
    /\ \A m, n \in Nachricht : Schreibt(m) /\ Schreibt(n) => m = n
    /\ \A m \in Nachricht : Schreibt(m) => naechste <= ID_MAX

(* Every id anyone holds was given out: AUTOINCREMENT never repeats one. *)
IdsVergeben ==
    /\ \A z \in queue \cup ausstehend : z.id < naechste
    /\ \A q \in zubest \cup zugestellt : q < naechste
    /\ \A i \in 1 .. Len(luft) : luft[i].q < naechste

(* An id names one message, in the table, in the backlog and on the wire. *)
EineNachricht ==
    /\ \A y, z \in queue \cup ausstehend : y.id = z.id => y.n = z.n
    /\ \A i \in 1 .. Len(luft) : \A z \in queue : luft[i].q = z.id => luft[i].n = z.n

(* What is about to be acknowledged is in the table, with the client, or   *)
(* has fallen to a limit.                                                  *)
QuittungGedeckt ==
    \A m \in Nachricht : haendler[m] = "quittung" => m \in abgelegt \cup fort \/ Liegt(m)

IInv ==
    /\ TypeOK
    /\ EinSchreiber
    /\ IdsVergeben
    /\ EineNachricht
    /\ NachweisTrifftAbgelegtes
    /\ QuittungGedeckt

LEMMA Zahlen == ID_MAX \in Nat /\ PLATZ \in Nat \ {0} /\ STOERUNG_MAX \in Nat
BY SchrankenAssumption

LEMMA AnfangGut == Init => IInv
<1> SUFFICES ASSUME Init PROVE IInv OBVIOUS
<1>1. TypeOK
  <2>1. <<>> \in Seq([n : Nachricht, q : 0 .. ID_MAX]) BY EmptySeq
  <2>2. naechste \in 1 .. ID_MAX + 1 BY Zahlen DEF Init
  <2>3. stoerungen \in 0 .. STOERUNG_MAX BY Zahlen DEF Init
  <2> QED BY <2>1, <2>2, <2>3 DEF Init, TypeOK, Stelle
<1>2. EinSchreiber /\ QuittungGedeckt BY DEF Init, EinSchreiber, Schreibt, QuittungGedeckt
<1>3. IdsVergeben /\ EineNachricht /\ NachweisTrifftAbgelegtes
  <2>1. Len(luft) = 0 BY DEF Init
  <2> QED BY <2>1 DEF Init, IdsVergeben, EineNachricht, NachweisTrifftAbgelegtes
<1> QED BY <1>1, <1>2, <1>3 DEF IInv

----------------------------------------------------------------------------
(* Frames on the wire. *)

Rahmen == [n : Nachricht, q : 0 .. ID_MAX]

(* Whatever goes on the wire: an id that was given out (below g), that     *)
(* names the message of its row (in Q).                                    *)
LEMMA Gesendet ==
  ASSUME IInv, NEW g \in Nat, naechste <= g, NEW Q,
         \A i \in 1 .. Len(luft) : \A z \in Q : luft[i].q = z.id => luft[i].n = z.n,
         NEW r \in Rahmen, r.q < g, \A z \in Q : r.q = z.id => r.n = z.n
  PROVE  /\ Append(luft, r) \in Seq(Rahmen)
         /\ \A i \in 1 .. Len(Append(luft, r)) :
              /\ Append(luft, r)[i].q < g
              /\ \A z \in Q : Append(luft, r)[i].q = z.id => Append(luft, r)[i].n = z.n
<1> DEFINE neu == Append(luft, r)
<1>1. luft \in Seq(Rahmen) BY DEF IInv, TypeOK, Rahmen
<1>2. /\ neu \in Seq(Rahmen) /\ Len(neu) = Len(luft) + 1
      /\ \A i \in 1 .. Len(luft) : neu[i] = luft[i]
      /\ neu[Len(luft) + 1] = r
  BY <1>1, AppendProperties
<1>3. Len(luft) \in Nat BY <1>1, LenProperties
<1>4. \A i \in 1 .. Len(luft) : luft[i].q < g
  <2>1. \A i \in 1 .. Len(luft) : luft[i] \in Rahmen BY <1>1, ElementOfSeq
  <2>2. \A i \in 1 .. Len(luft) : luft[i].q \in Nat BY <2>1, Zahlen DEF Rahmen
  <2>3. naechste \in Nat BY Zahlen DEF IInv, TypeOK
  <2> QED BY <2>2, <2>3 DEF IInv, IdsVergeben
<1> HIDE DEF neu
<1>5. ASSUME NEW i \in 1 .. Len(neu)
      PROVE  neu[i].q < g /\ \A z \in Q : neu[i].q = z.id => neu[i].n = z.n
  <2>1. CASE i = Len(luft) + 1 BY <1>2, <2>1
  <2>2. CASE i # Len(luft) + 1
    <3>1. i \in 1 .. Len(luft) BY <1>2, <1>3, <2>2
    <3> QED BY <1>2, <1>4, <3>1
  <2> QED BY <2>1, <2>2
<1> QED BY <1>2, <1>5 DEF neu

(* Its head is such a frame, and the rest stays one. *)
LEMMA Angekommen ==
  ASSUME IInv, luft # <<>>
  PROVE  /\ Head(luft) \in Rahmen /\ Tail(luft) \in Seq(Rahmen)
         /\ Head(luft).q < naechste
         /\ \A z \in queue : Head(luft).q = z.id => Head(luft).n = z.n
         /\ \A i \in 1 .. Len(Tail(luft)) :
              /\ Tail(luft)[i].q < naechste
              /\ \A z \in queue : Tail(luft)[i].q = z.id => Tail(luft)[i].n = z.n
<1>1. luft \in Seq(Rahmen) BY DEF IInv, TypeOK, Rahmen
<1>2. /\ Head(luft) \in Rahmen /\ Tail(luft) \in Seq(Rahmen) /\ Len(Tail(luft)) = Len(luft) - 1
      /\ \A i \in 1 .. Len(Tail(luft)) : Tail(luft)[i] = luft[i + 1]
  BY <1>1, HeadTailProperties
<1>3. Len(luft) \in Nat /\ Len(luft) # 0 BY <1>1, EmptySeq, LenProperties
<1>4. Head(luft) = luft[1] /\ 1 \in 1 .. Len(luft) BY <1>1, <1>3
<1>5. \A i \in 1 .. Len(Tail(luft)) : i + 1 \in 1 .. Len(luft) BY <1>2, <1>3
<1> QED BY <1>2, <1>4, <1>5 DEF IInv, IdsVergeben, EineNachricht

----------------------------------------------------------------------------
(* Every step keeps the invariant. *)

(* Rows that leave the table disturb nothing, as long as each leaves       *)
(* because its message fell or the client has it.                          *)
LEMMA ZeilenGehen ==
  ASSUME IInv, queue' \subseteq queue,
         \A z \in queue \ queue' : z.n \in abgelegt' \cup fort',
         abgelegt \subseteq abgelegt', fort \subseteq fort', UNCHANGED haendler
  PROVE  QuittungGedeckt'
<1> SUFFICES ASSUME NEW m \in Nachricht, haendler'[m] = "quittung"
             PROVE  m \in (abgelegt \cup fort)' \/ Liegt(m)'
  BY DEF QuittungGedeckt
<1>1. m \in abgelegt \cup fort \/ Liegt(m) BY DEF IInv, QuittungGedeckt
<1>2. CASE Liegt(m) BY <1>2 DEF Liegt
<1>3. CASE m \in abgelegt \cup fort BY <1>3
<1> QED BY <1>1, <1>2, <1>3

(* schaffe_platz. *)
LEMMA PlatzGeschafft ==
  ASSUME IInv, SchaffePlatz
  PROVE  /\ queue' \subseteq queue /\ fort \subseteq fort' /\ fort' \subseteq Nachricht
         /\ \A z \in queue \ queue' : z.n \in fort'
         /\ \A m \in fort' \ fort : Liegt(m)
<1>1. PICK f \in SUBSET queue : queue' = queue \ f /\ fort' = fort \cup Nachrichten(f)
  BY DEF SchaffePlatz, Aelteste
<1>2. queue \subseteq Zeile /\ fort \subseteq Nachricht BY DEF IInv, TypeOK
<1>3. \A z \in queue : z.n \in Nachricht BY <1>2 DEF Zeile
<1> QED BY <1>1, <1>2, <1>3 DEF Nachrichten, Liegt

LEMMA PruefeGut ==
  ASSUME IInv, NEW m \in Nachricht, Pruefe(m) \/ LiveGescheitert(m)
  PROVE  IInv'
<1>1. LoopFrei /\ SchaffePlatz /\ naechste <= ID_MAX
  BY DEF Pruefe, LiveGescheitert
<1>2. PICK s \in {"prueft", "puffert"} : haendler' = [haendler EXCEPT ![m] = s]
  BY DEF Pruefe, LiveGescheitert, Rueckt
<1>3. UNCHANGED <<bekannt, naechste, strecke, client, quittiert, stoerungen>>
  BY DEF Pruefe, LiveGescheitert
<1>4. /\ queue' \subseteq queue /\ fort \subseteq fort' /\ fort' \subseteq Nachricht
      /\ \A z \in queue \ queue' : z.n \in fort'
  BY <1>1, PlatzGeschafft
<1>5. haendler \in [Nachricht -> Stelle] BY DEF IInv, TypeOK
<1>6. TypeOK' BY <1>2, <1>3, <1>4 DEF IInv, TypeOK, strecke, client, Stelle
<1>7. EinSchreiber'
  BY <1>1, <1>2, <1>3, <1>5 DEF EinSchreiber, Schreibt, LoopFrei
<1>8. IdsVergeben' BY <1>3, <1>4 DEF IInv, IdsVergeben, strecke, client
<1>9. EineNachricht' BY <1>3, <1>4 DEF IInv, EineNachricht, strecke
<1>10. NachweisTrifftAbgelegtes' BY <1>3, <1>4 DEF IInv, NachweisTrifftAbgelegtes, client
<1>11. QuittungGedeckt'
  <2> SUFFICES ASSUME NEW k \in Nachricht, haendler'[k] = "quittung"
               PROVE  k \in (abgelegt \cup fort)' \/ Liegt(k)'
    BY DEF QuittungGedeckt
  <2>1. haendler[k] = "quittung" BY <1>2, <1>5
  <2>2. k \in abgelegt \cup fort \/ Liegt(k) BY <2>1 DEF IInv, QuittungGedeckt
  <2> QED BY <1>3, <1>4, <2>2 DEF Liegt, client
<1> QED BY <1>6, <1>7, <1>8, <1>9, <1>10, <1>11 DEF IInv

(* A handler that is not writing moves on, to a place that does not write. *)
LEMMA HaendlerRueckt ==
  ASSUME IInv, NEW m \in Nachricht, NEW s \in Stelle \ {"prueft", "puffert"}, Rueckt(m, s),
         naechste' = naechste
  PROVE  EinSchreiber' /\ haendler' \in [Nachricht -> Stelle]
BY DEF IInv, TypeOK, EinSchreiber, Schreibt, Rueckt

LEMMA SendeLiveGut ==
  ASSUME IInv, NEW m \in Nachricht, SendeLive(m)
  PROVE  IInv'
<1> DEFINE r == [n |-> m, q |-> 0]
<1>1. r \in Rahmen BY Zahlen DEF Rahmen
<1>2. naechste \in Nat /\ 0 < naechste BY Zahlen DEF IInv, TypeOK
<1>3. queue \subseteq Zeile BY DEF IInv, TypeOK
<1>4. \A z \in queue : z.id # 0 BY <1>3, Zahlen DEF Zeile
<1>5. /\ luft' \in Seq(Rahmen)
      /\ \A i \in 1 .. Len(luft') : luft'[i].q < naechste /\ \A z \in queue : luft'[i].q = z.id => luft'[i].n = z.n
  <2>1. luft' = Append(luft, r) /\ r.q = 0 BY DEF SendeLive
  <2>2. \A i \in 1 .. Len(luft) : \A z \in queue : luft[i].q = z.id => luft[i].n = z.n
    BY DEF IInv, EineNachricht
  <2> HIDE DEF r
  <2>3. r.q < naechste /\ \A z \in queue : r.q = z.id => r.n = z.n BY <1>2, <1>4, <2>1
  <2>4. naechste \in Nat /\ naechste <= naechste BY <1>2
  <2>5. /\ Append(luft, r) \in Seq(Rahmen)
        /\ \A i \in 1 .. Len(Append(luft, r)) :
             /\ Append(luft, r)[i].q < naechste
             /\ \A z \in queue : Append(luft, r)[i].q = z.id => Append(luft, r)[i].n = z.n
    BY <1>1, <2>2, <2>3, <2>4, Gesendet
  <2> QED BY <2>1, <2>5
<1>6. EinSchreiber' /\ haendler' \in [Nachricht -> Stelle]
  BY HaendlerRueckt DEF SendeLive, Stelle
<1>7. TypeOK' BY <1>5, <1>6 DEF SendeLive, IInv, TypeOK, client, Rahmen
<1>8. IdsVergeben' /\ EineNachricht' /\ NachweisTrifftAbgelegtes'
  BY <1>5 DEF SendeLive, IInv, IdsVergeben, EineNachricht, NachweisTrifftAbgelegtes, client
<1>9. QuittungGedeckt'
  BY DEF SendeLive, IInv, QuittungGedeckt, Rueckt, Liegt, client, TypeOK
<1> QED BY <1>6, <1>7, <1>8, <1>9 DEF IInv

(* The live send is done, the `ack` is out or lost. *)
LEMMA HaendlerGut ==
  ASSUME IInv, NEW m \in Nachricht, LiveFertig(m) \/ Quittiere(m) \/ QuittungVerloren(m)
  PROVE  IInv'
<1>1. UNCHANGED <<bekannt, queue, naechste, strecke, client>>
  BY DEF LiveFertig, Quittiere, QuittungVerloren
<1>2. PICK s \in {"quittung", "ruhe"} : Rueckt(m, s) /\ (s = "quittung" => m \in fort')
  BY DEF LiveFertig, Quittiere, QuittungVerloren
<1>3. /\ fort \subseteq fort' /\ fort' \subseteq Nachricht /\ quittiert' \subseteq Nachricht
      /\ stoerungen' \in 0 .. STOERUNG_MAX
  BY Zahlen DEF LiveFertig, Quittiere, QuittungVerloren, IInv, TypeOK
<1>4. EinSchreiber' /\ haendler' \in [Nachricht -> Stelle]
  BY <1>1, <1>2, HaendlerRueckt DEF Stelle
<1>5. TypeOK' BY <1>1, <1>3, <1>4 DEF IInv, TypeOK, strecke, client
<1>6. IdsVergeben' /\ EineNachricht' /\ NachweisTrifftAbgelegtes'
  BY <1>1 DEF IInv, IdsVergeben, EineNachricht, NachweisTrifftAbgelegtes, strecke, client
<1>7. QuittungGedeckt'
  BY <1>1, <1>2, <1>3 DEF IInv, QuittungGedeckt, Rueckt, Liegt, client, TypeOK
<1> QED BY <1>4, <1>5, <1>6, <1>7 DEF IInv

(* The INSERT: the only step that gives out an id. *)
LEMMA EinfuegenGut ==
  ASSUME IInv, NEW m \in Nachricht, Einfuegen(m)
  PROVE  IInv'
<1> DEFINE r == [n |-> m, q |-> naechste]
           y == [id |-> naechste, n |-> m]
<1>1. Schreibt(m) /\ naechste \in 1 .. ID_MAX /\ naechste + 1 \in 1 .. ID_MAX + 1
  BY Zahlen DEF Einfuegen, IInv, TypeOK, EinSchreiber, Schreibt
<1>2. queue' = queue \cup {y} /\ y \in Zeile /\ y.id = naechste /\ y.n = m
  BY <1>1 DEF Einfuegen, NeueId, Zeile
<1>3. r \in Rahmen /\ r.q = naechste /\ r.n = m BY <1>1, Zahlen DEF Rahmen
<1>4. luft' = luft \/ luft' = Append(luft, r) BY DEF Einfuegen, NeueId
<1> HIDE DEF r, y
<1>5. naechste' = naechste + 1 /\ UNCHANGED <<leitung, nachweis, ausstehend, zugestellt, client, bekannt, quittiert, fort, stoerungen>>
  BY DEF Einfuegen
<1>6. \A z \in queue \cup ausstehend : z.id \in Nat /\ z.id < naechste
  BY Zahlen DEF IInv, TypeOK, IdsVergeben, Zeile
<1>7. \A i \in 1 .. Len(luft) : luft[i].q \in Nat /\ luft[i].q < naechste
  <2>1. \A i \in 1 .. Len(luft) : luft[i] \in Rahmen
    BY ElementOfSeq DEF IInv, TypeOK, Rahmen
  <2> QED BY <2>1, Zahlen DEF Rahmen, IInv, IdsVergeben
<1>8. \A i \in 1 .. Len(luft) : \A z \in queue' : luft[i].q = z.id => luft[i].n = z.n
  <2>1. \A i \in 1 .. Len(luft) : luft[i].q # y.id BY <1>1, <1>2, <1>7
  <2> QED BY <1>2, <2>1 DEF IInv, EineNachricht
<1>9. /\ luft' \in Seq(Rahmen)
      /\ \A i \in 1 .. Len(luft') :
           luft'[i].q < naechste + 1 /\ \A z \in queue' : luft'[i].q = z.id => luft'[i].n = z.n
  <2>1. CASE luft' = luft
    BY <1>1, <1>7, <1>8, <2>1 DEF IInv, TypeOK, Rahmen
  <2>2. CASE luft' = Append(luft, r)
    <3>1. naechste + 1 \in Nat /\ naechste <= naechste + 1 /\ r.q < naechste + 1 BY <1>1, <1>3
    <3>2. \A z \in queue' : r.q = z.id => r.n = z.n BY <1>1, <1>2, <1>3, <1>6
    <3>3. /\ Append(luft, r) \in Seq(Rahmen)
          /\ \A i \in 1 .. Len(Append(luft, r)) :
               /\ Append(luft, r)[i].q < naechste + 1
               /\ \A z \in queue' : Append(luft, r)[i].q = z.id => Append(luft, r)[i].n = z.n
      BY <1>3, <1>8, <3>1, <3>2, Gesendet
    <3> QED BY <2>2, <3>3
  <2> QED BY <1>4, <2>1, <2>2
<1>10. EinSchreiber' /\ haendler' \in [Nachricht -> Stelle]
  BY <1>1 DEF Einfuegen, Rueckt, IInv, TypeOK, EinSchreiber, Schreibt, Stelle
<1>11. TypeOK'
  BY <1>1, <1>2, <1>5, <1>9, <1>10 DEF IInv, TypeOK, client, Rahmen
<1>12. IdsVergeben'
  <2>1. \A z \in (queue \cup ausstehend)' : z.id < naechste + 1 BY <1>1, <1>2, <1>5, <1>6
  <2>2. \A q \in (zubest \cup zugestellt)' : q < naechste + 1
    <3>1. zubest \cup zugestellt \subseteq 1 .. ID_MAX BY DEF IInv, TypeOK
    <3>2. \A q \in zubest \cup zugestellt : q < naechste BY DEF IInv, IdsVergeben
    <3>3. \A q \in zubest \cup zugestellt : q < naechste + 1 BY <1>1, <3>1, <3>2
    <3> QED BY <1>5, <3>3 DEF client
  <2> QED BY <1>5, <1>9, <2>1, <2>2 DEF IdsVergeben
<1>13. EineNachricht'
  <2>1. \A a, z \in (queue \cup ausstehend)' : a.id = z.id => a.n = z.n
    BY <1>1, <1>2, <1>5, <1>6 DEF IInv, EineNachricht
  <2> QED BY <1>9, <2>1 DEF EineNachricht
<1>14. NachweisTrifftAbgelegtes'
  <2>1. naechste \notin zubest
    BY <1>1 DEF IInv, IdsVergeben
  <2> QED BY <1>2, <1>5, <2>1 DEF IInv, NachweisTrifftAbgelegtes, client
<1>15. QuittungGedeckt'
  <2> SUFFICES ASSUME NEW k \in Nachricht, haendler'[k] = "quittung"
               PROVE  k \in (abgelegt \cup fort)' \/ Liegt(k)'
    BY DEF QuittungGedeckt
  <2>1. CASE k = m BY <1>2, <2>1 DEF Liegt
  <2>2. CASE k # m
    <3>1. haendler[k] = "quittung" BY <2>2 DEF Einfuegen, Rueckt, IInv, TypeOK
    <3>2. k \in abgelegt \cup fort \/ Liegt(k) BY <3>1 DEF IInv, QuittungGedeckt
    <3> QED BY <1>2, <1>5, <3>2 DEF Liegt, client
  <2> QED BY <2>1, <2>2
<1> QED BY <1>10, <1>11, <1>12, <1>13, <1>14, <1>15 DEF IInv

(* The line comes, sends one row of the backlog, and is done with it. *)
LEMMA VerbindeGut ==
  ASSUME IInv, NEW n \in NACHWEIS, Verbinde(n)
  PROVE  IInv'
<1>1. /\ UNCHANGED <<bekannt, queue, naechste, haendler, luft, abgelegt, zubest, quittiert, fort, stoerungen>>
      /\ ausstehend' = queue /\ zugestellt' = {} /\ leitung' = "rueckstand" /\ nachweis' = n
  BY DEF Verbinde, relay, client
<1>2. TypeOK' BY <1>1, NachweisAssumption DEF IInv, TypeOK
<1>3. EinSchreiber' /\ NachweisTrifftAbgelegtes' /\ QuittungGedeckt'
  BY <1>1 DEF IInv, EinSchreiber, Schreibt, NachweisTrifftAbgelegtes, QuittungGedeckt, Liegt
<1>4. IdsVergeben' /\ EineNachricht' BY <1>1 DEF IInv, IdsVergeben, EineNachricht
<1> QED BY <1>2, <1>3, <1>4 DEF IInv

LEMMA RueckstandSendenGut ==
  ASSUME IInv, RueckstandSenden
  PROVE  IInv'
<1>1. PICK z \in ausstehend :
        /\ luft' = Append(luft, [n |-> z.n, q |-> z.id])
        /\ ausstehend' = ausstehend \ {z}
        /\ zugestellt' = zugestellt \cup {z.id}
  BY DEF RueckstandSenden
<1>2. UNCHANGED <<bekannt, queue, naechste, haendler, leitung, nachweis, abgelegt, zubest, quittiert, fort, stoerungen>>
  BY DEF RueckstandSenden, relay, client
<1> DEFINE r == [n |-> z.n, q |-> z.id]
<1>3. z.id \in 1 .. ID_MAX /\ z.n \in Nachricht /\ z.id < naechste
  BY DEF IInv, TypeOK, Zeile, IdsVergeben
<1>4. r \in Rahmen /\ r.q = z.id /\ r.n = z.n BY <1>3, Zahlen DEF Rahmen
<1>5. naechste \in Nat /\ naechste <= naechste BY Zahlen DEF IInv, TypeOK
<1>6. /\ luft' \in Seq(Rahmen)
      /\ \A i \in 1 .. Len(luft') : luft'[i].q < naechste /\ \A x \in queue : luft'[i].q = x.id => luft'[i].n = x.n
  <2>1. luft' = Append(luft, r) BY <1>1
  <2>2. \A i \in 1 .. Len(luft) : \A x \in queue : luft[i].q = x.id => luft[i].n = x.n
    BY DEF IInv, EineNachricht
  <2> HIDE DEF r
  <2>3. r.q < naechste /\ \A x \in queue : r.q = x.id => r.n = x.n
    BY <1>3, <1>4 DEF IInv, EineNachricht
  <2>4. /\ Append(luft, r) \in Seq(Rahmen)
        /\ \A i \in 1 .. Len(Append(luft, r)) :
             /\ Append(luft, r)[i].q < naechste
             /\ \A x \in queue : Append(luft, r)[i].q = x.id => Append(luft, r)[i].n = x.n
    BY <1>4, <1>5, <2>2, <2>3, Gesendet
  <2> QED BY <2>1, <2>4
<1>7. TypeOK' BY <1>1, <1>2, <1>3, <1>6 DEF IInv, TypeOK, Rahmen
<1>8. EinSchreiber' /\ NachweisTrifftAbgelegtes' /\ QuittungGedeckt'
  BY <1>2 DEF IInv, EinSchreiber, Schreibt, NachweisTrifftAbgelegtes, QuittungGedeckt, Liegt
<1>9. IdsVergeben' /\ EineNachricht' BY <1>1, <1>2, <1>3, <1>6 DEF IInv, IdsVergeben, EineNachricht
<1> QED BY <1>7, <1>8, <1>9 DEF IInv

(* Rows leave the table: the backlog of a client without receipts, an      *)
(* expiry, the removal of the device, or a receipt.                        *)
LEMMA ZeilenWegGut ==
  ASSUME IInv, queue' \subseteq queue,
         \A z \in queue \ queue' : z.n \in abgelegt' \cup fort',
         fort \subseteq fort', fort' \subseteq Nachricht,
         zubest' \subseteq zubest, zugestellt' \subseteq zugestellt,
         bekannt' \in BOOLEAN, leitung' \in {"aus", "rueckstand", "haupt"},
         UNCHANGED <<naechste, haendler, nachweis, ausstehend, luft, abgelegt, quittiert, stoerungen>>
  PROVE  IInv'
<1>1. TypeOK' BY DEF IInv, TypeOK
<1>2. EinSchreiber' /\ IdsVergeben' /\ EineNachricht'
  BY DEF IInv, EinSchreiber, Schreibt, IdsVergeben, EineNachricht
<1>3. NachweisTrifftAbgelegtes' BY DEF IInv, NachweisTrifftAbgelegtes
<1>4. QuittungGedeckt' BY ZeilenGehen
<1> QED BY <1>1, <1>2, <1>3, <1>4 DEF IInv

LEMMA NachrichtDerZeile == ASSUME IInv PROVE \A z \in queue : z.n \in Nachricht
BY DEF IInv, TypeOK, Zeile

LEMMA AbgangGut ==
  ASSUME IInv,
         \/ RueckstandFertig \/ LoescheGeraet \/ Register
         \/ \E q \in zubest : Bestaetige(q) \/ NachweisVerloren(q)
         \/ \E z \in queue : Ablauf(z)
  PROVE  IInv'
<1>1. CASE RueckstandFertig
  <2>1. PICK weg \in SUBSET queue : queue' = queue \ weg /\ fort' = fort \cup Nachrichten(weg)
    BY <1>1 DEF RueckstandFertig
  <2>2. fort' \subseteq Nachricht /\ \A z \in weg : z.n \in fort'
    BY <2>1, NachrichtDerZeile DEF Nachrichten, IInv, TypeOK
  <2> QED BY <1>1, <2>1, <2>2, ZeilenWegGut DEF RueckstandFertig, client, IInv, TypeOK
<1>2. CASE LoescheGeraet
  <2>1. fort' \subseteq Nachricht /\ \A z \in queue : z.n \in fort'
    BY <1>2, NachrichtDerZeile DEF LoescheGeraet, Nachrichten, IInv, TypeOK
  <2> QED BY <1>2, <2>1, ZeilenWegGut DEF LoescheGeraet, client, strecke, IInv, TypeOK
<1>3. CASE Register
  BY <1>3, ZeilenWegGut DEF Register, client, strecke, IInv, TypeOK
<1>4. ASSUME NEW q \in zubest, Bestaetige(q) PROVE IInv'
  <2>1. \A z \in queue \ queue' : z.n \in abgelegt
    BY <1>4 DEF Bestaetige, IInv, NachweisTrifftAbgelegtes
  <2> QED BY <1>4, <2>1, ZeilenWegGut DEF Bestaetige, strecke, IInv, TypeOK
<1>5. ASSUME NEW q \in zubest, NachweisVerloren(q) PROVE IInv'
  BY <1>5, ZeilenWegGut DEF NachweisVerloren, relay, strecke, IInv, TypeOK
<1>6. ASSUME NEW z \in queue, Ablauf(z) PROVE IInv'
  BY <1>6, NachrichtDerZeile, ZeilenWegGut DEF Ablauf, client, strecke, IInv, TypeOK
<1> QED BY <1>1, <1>2, <1>3, <1>4, <1>5, <1>6

(* The client stores first; what it then has to confirm, it has. *)
LEMMA EmpfangeGut ==
  ASSUME IInv, Empfange
  PROVE  IInv'
<1> DEFINE h == Head(luft)
<1>1. luft # <<>> /\ luft' = Tail(luft) /\ abgelegt' = abgelegt \cup {h.n}
      /\ zubest' \subseteq zubest \cup ({h.q} \ {0})
  BY DEF Empfange
<1>2. UNCHANGED <<bekannt, queue, naechste, haendler, leitung, nachweis, ausstehend, zugestellt, quittiert, fort, stoerungen>>
  BY DEF Empfange, relay
<1>3. h \in Rahmen /\ h.q < naechste /\ \A z \in queue : h.q = z.id => h.n = z.n
  BY <1>1, Angekommen
<1>4. /\ Tail(luft) \in Seq(Rahmen)
      /\ \A i \in 1 .. Len(Tail(luft)) :
           /\ Tail(luft)[i].q < naechste
           /\ \A z \in queue : Tail(luft)[i].q = z.id => Tail(luft)[i].n = z.n
  BY <1>1, Angekommen
<1> HIDE DEF h
<1>5. h.n \in Nachricht /\ h.q \in 0 .. ID_MAX BY <1>3 DEF Rahmen
<1>6. TypeOK'
  <2>1. zubest' \subseteq 1 .. ID_MAX BY <1>1, <1>5, Zahlen DEF IInv, TypeOK
  <2> QED BY <1>1, <1>2, <1>4, <1>5, <2>1 DEF IInv, TypeOK, Rahmen
<1>7. EinSchreiber' BY <1>2 DEF IInv, EinSchreiber, Schreibt
<1>8. IdsVergeben' /\ EineNachricht'
  BY <1>1, <1>2, <1>3, <1>4 DEF IInv, IdsVergeben, EineNachricht
<1>9. NachweisTrifftAbgelegtes' BY <1>1, <1>2, <1>3 DEF IInv, NachweisTrifftAbgelegtes
<1>10. QuittungGedeckt' BY <1>1, <1>2 DEF IInv, QuittungGedeckt, Liegt
<1> QED BY <1>6, <1>7, <1>8, <1>9, <1>10 DEF IInv

(* The line breaks, the relay restarts. *)
LEMMA AusfallGut ==
  ASSUME IInv, Abriss \/ Neustart
  PROVE  IInv'
<1>1. LeitungAus /\ UNCHANGED <<bekannt, queue, naechste, client, quittiert, fort>>
      /\ stoerungen' = stoerungen + 1 /\ stoerungen < STOERUNG_MAX
  BY DEF Abriss, Neustart
<1>2. /\ haendler' \in [Nachricht -> Stelle]
      /\ \A m \in Nachricht : haendler'[m] \in {"abgerissen", "ruhe"} \/ haendler'[m] = haendler[m]
  BY DEF Abriss, Neustart, IInv, TypeOK, Stelle
<1>3. <<>> \in Seq(Rahmen) /\ Len(<<>>) = 0 BY EmptySeq
<1>4. TypeOK'
  <2>1. stoerungen' \in 0 .. STOERUNG_MAX BY <1>1, Zahlen DEF IInv, TypeOK
  <2>2. luft' \in Seq([n : Nachricht, q : 0 .. ID_MAX]) BY <1>1, <1>3 DEF LeitungAus, Rahmen
  <2> QED BY <1>1, <1>2, <2>1, <2>2 DEF LeitungAus, IInv, TypeOK, client
<1>5. EinSchreiber' /\ QuittungGedeckt'
  BY <1>1, <1>2 DEF IInv, EinSchreiber, Schreibt, QuittungGedeckt, Liegt, client
<1>6. IdsVergeben' /\ EineNachricht' /\ NachweisTrifftAbgelegtes'
  BY <1>1, <1>3 DEF LeitungAus, IInv, IdsVergeben, EineNachricht, NachweisTrifftAbgelegtes, client
<1> QED BY <1>4, <1>5, <1>6 DEF IInv

LEMMA SchrittGut == IInv /\ [Next]_vars => IInv'
<1> SUFFICES ASSUME IInv, [Next]_vars PROVE IInv' OBVIOUS
<1>1. ASSUME NEW m \in Nachricht, Pruefe(m) \/ LiveGescheitert(m) PROVE IInv'
  BY <1>1, PruefeGut
<1>2. ASSUME NEW m \in Nachricht, SendeLive(m) PROVE IInv' BY <1>2, SendeLiveGut
<1>3. ASSUME NEW m \in Nachricht, LiveFertig(m) \/ Quittiere(m) \/ QuittungVerloren(m) PROVE IInv'
  BY <1>3, HaendlerGut
<1>4. ASSUME NEW m \in Nachricht, Einfuegen(m) PROVE IInv' BY <1>4, EinfuegenGut
<1>5. ASSUME NEW n \in NACHWEIS, Verbinde(n) PROVE IInv' BY <1>5, VerbindeGut
<1>6. CASE RueckstandSenden BY <1>6, RueckstandSendenGut
<1>7. CASE \/ RueckstandFertig \/ LoescheGeraet \/ Register
           \/ \E q \in zubest : Bestaetige(q) \/ NachweisVerloren(q)
           \/ \E z \in queue : Ablauf(z)
  BY <1>7, AbgangGut
<1>8. CASE Empfange BY <1>8, EmpfangeGut
<1>9. CASE Abriss \/ Neustart BY <1>9, AusfallGut
<1>10. CASE UNCHANGED vars
  BY <1>10 DEF vars, relay, strecke, client, IInv, TypeOK, EinSchreiber, Schreibt, IdsVergeben,
               EineNachricht, NachweisTrifftAbgelegtes, QuittungGedeckt, Liegt
<1> QED BY <1>1, <1>2, <1>3, <1>4, <1>5, <1>6, <1>7, <1>8, <1>9, <1>10 DEF Next

----------------------------------------------------------------------------
(* The inductive invariant holds in every reachable state. *)
THEOREM Invariante == Spec => []IInv
BY AnfangGut, SchrittGut, PTL DEF Spec

(* Type correctness of the mailbox, which no run repeats. *)
THEOREM TypKorrekt == Spec => []TypeOK
<1>1. IInv => TypeOK BY DEF IInv
<1> QED BY <1>1, Invariante, PTL

(* What is confirmed is stored: no row falls to a receipt whose message    *)
(* the client does not have, however old the receipt is.                   *)
THEOREM NachweisTrifft == Spec => []NachweisTrifftAbgelegtes
<1>1. IInv => NachweisTrifftAbgelegtes BY DEF IInv
<1> QED BY <1>1, Invariante, PTL

----------------------------------------------------------------------------
(* Mailbox implements MailboxPromise. *)

(* Where a message is, as the promise counts. *)
Lage(m) == IF m \in abgelegt THEN "abgelegt"
           ELSE IF Liegt(m) THEN "liegt"
           ELSE IF m \in fort THEN "ohneGewaehr"
           ELSE "offen"

LEMMA LageVon == standVon = [m \in Nachricht |-> Lage(m)] /\ standVon' = [m \in Nachricht |-> Lage(m)']
BY DEF standVon, Lage

LEMMA AnfangVersprochen == Init => Promise!Init
BY DEF Init, Promise!Init, standVon, Liegt

(* A step that moves one message only is that message's step. *)
LEMMA EineRueckt ==
  ASSUME NEW m \in Nachricht, \A k \in Nachricht \ {m} : Lage(k)' = Lage(k)
  PROVE  standVon' = [standVon EXCEPT ![m] = Lage(m)']
BY LageVon

(* Rows leave the table, each because its message fell or the client has   *)
(* it: a fall of several messages, or nothing.                             *)
LEMMA ZeilenFallen ==
  ASSUME IInv, queue' \subseteq queue, abgelegt' = abgelegt, quittiert' = quittiert,
         fort \subseteq fort', \A m \in fort' \ fort : Liegt(m),
         \A z \in queue \ queue' : z.n \in abgelegt \cup fort'
  PROVE  [Promise!Next]_Promise!vars
<1> DEFINE S == {m \in Nachricht : Lage(m) = "liegt" /\ Lage(m)' # "liegt"}
<1>1. ASSUME NEW m \in Nachricht
      PROVE  Lage(m)' = IF m \in S THEN "ohneGewaehr" ELSE Lage(m)
  <2>1. Liegt(m)' => Liegt(m) BY DEF Liegt
  <2>2. Liegt(m) /\ ~Liegt(m)' => m \in abgelegt \cup fort' BY DEF Liegt
  <2> HIDE DEF Liegt
  <2>3. CASE m \in abgelegt BY <2>3 DEF Lage
  <2>4. CASE m \notin abgelegt /\ Liegt(m)' BY <2>1, <2>4 DEF Lage
  <2>5. CASE m \notin abgelegt /\ ~Liegt(m)' /\ Liegt(m) BY <2>2, <2>5 DEF Lage
  <2>6. CASE m \notin abgelegt /\ ~Liegt(m)' /\ ~Liegt(m) BY <2>6 DEF Lage
  <2> QED BY <2>3, <2>4, <2>5, <2>6
<1>2. standVon' = [m \in Nachricht |-> IF m \in S THEN "ohneGewaehr" ELSE standVon[m]]
  BY <1>1, LageVon
<1>3. \A m \in S : m \in Nachricht /\ standVon[m] = "liegt" BY LageVon
<1> HIDE DEF S
<1>4. CASE S = {}
  <2>1. standVon' = standVon BY <1>2, <1>4, LageVon
  <2> QED BY <2>1 DEF Promise!vars
<1>5. CASE S # {}
  <2>1. Promise!Fallen(S) BY <1>2, <1>3, <1>5 DEF Promise!Fallen
  <2>2. S \in SUBSET Nachricht BY <1>3
  <2> QED BY <2>1, <2>2 DEF Promise!Next
<1> QED BY <1>4, <1>5

(* One message gets a row, reaches the client, or goes to a client that    *)
(* cannot confirm.                                                         *)
LEMMA EinfuegenIstAnnehmen ==
  ASSUME IInv, NEW m \in Nachricht, Einfuegen(m)
  PROVE  [Promise!Next]_Promise!vars
<1> DEFINE y == [id |-> NeueId, n |-> m]
<1>1. queue' = queue \cup {y} /\ UNCHANGED <<abgelegt, fort, quittiert>>
  BY DEF Einfuegen, client
<1>2. Liegt(m)' /\ \A k \in Nachricht \ {m} : Liegt(k)' <=> Liegt(k)
  <2>1. y.n = m OBVIOUS
  <2> HIDE DEF y
  <2> QED BY <1>1, <2>1 DEF Liegt
<1> HIDE DEF y
<1>3. \A k \in Nachricht \ {m} : Lage(k)' = Lage(k) BY <1>1, <1>2 DEF Lage
<1>4. standVon' = [standVon EXCEPT ![m] = Lage(m)'] BY <1>3, EineRueckt
<1>5. standVon[m] = Lage(m) BY LageVon
<1>6. CASE Lage(m) \in {"abgelegt", "liegt"}
  <2>1. Lage(m)' = Lage(m) BY <1>1, <1>2, <1>6 DEF Lage
  <2>2. standVon' = standVon BY <1>3, <2>1, LageVon
  <2> QED BY <1>1, <2>2 DEF Promise!vars
<1>7. CASE Lage(m) \notin {"abgelegt", "liegt"}
  <2>1. Lage(m) \in {"offen", "ohneGewaehr"} /\ Lage(m)' = "liegt" BY <1>1, <1>2, <1>7 DEF Lage
  <2>2. Promise!Annehmen(m) BY <1>1, <1>4, <1>5, <2>1 DEF Promise!Annehmen
  <2> QED BY <2>2 DEF Promise!Next
<1> QED BY <1>6, <1>7

LEMMA EmpfangeIstAblegen ==
  ASSUME IInv, Empfange
  PROVE  [Promise!Next]_Promise!vars
<1>1. PICK m \in Nachricht : m = Head(luft).n BY Angekommen DEF Empfange, Rahmen
<1>2. abgelegt' = abgelegt \cup {m} /\ UNCHANGED <<queue, fort, quittiert>>
  BY <1>1 DEF Empfange, relay
<1>3. \A k \in Nachricht \ {m} : Lage(k)' = Lage(k) BY <1>2 DEF Lage, Liegt
<1>4. standVon' = [standVon EXCEPT ![m] = Lage(m)'] BY <1>1, <1>3, EineRueckt
<1>5. standVon[m] = Lage(m) /\ Lage(m)' = "abgelegt" BY <1>1, <1>2, LageVon DEF Lage
<1>6. CASE Lage(m) = "abgelegt"
  <2>1. standVon' = standVon BY <1>3, <1>5, <1>6, LageVon
  <2> QED BY <1>2, <2>1 DEF Promise!vars
<1>7. CASE Lage(m) # "abgelegt"
  <2>1. Promise!Ablegen(m) BY <1>2, <1>4, <1>5, <1>7 DEF Promise!Ablegen
  <2> QED BY <1>1, <2>1 DEF Promise!Next
<1> QED BY <1>6, <1>7

LEMMA LiveFertigIstAushaendigen ==
  ASSUME IInv, NEW m \in Nachricht, LiveFertig(m)
  PROVE  [Promise!Next]_Promise!vars
<1>1. fort' = fort \cup {m} /\ UNCHANGED <<queue, abgelegt, quittiert>>
  BY DEF LiveFertig, client
<1>2. \A k \in Nachricht \ {m} : Lage(k)' = Lage(k) BY <1>1 DEF Lage, Liegt
<1>3. standVon' = [standVon EXCEPT ![m] = Lage(m)'] BY <1>2, EineRueckt
<1>4. standVon[m] = Lage(m) BY LageVon
<1>5. Liegt(m)' <=> Liegt(m) BY <1>1 DEF Liegt
<1>6. CASE Lage(m) = "offen"
  <2>1. Lage(m)' = "ohneGewaehr" BY <1>1, <1>5, <1>6 DEF Lage
  <2>2. Promise!Aushaendigen(m) BY <1>1, <1>3, <1>4, <1>6, <2>1 DEF Promise!Aushaendigen
  <2> QED BY <2>2 DEF Promise!Next
<1>7. CASE Lage(m) # "offen"
  <2>1. Lage(m)' = Lage(m) BY <1>1, <1>5, <1>7 DEF Lage
  <2>2. standVon' = standVon BY <1>2, <2>1, LageVon
  <2> QED BY <1>1, <2>2 DEF Promise!vars
<1> QED BY <1>6, <1>7

LEMMA QuittiereIstQuittieren ==
  ASSUME IInv, NEW m \in Nachricht, Quittiere(m)
  PROVE  [Promise!Next]_Promise!vars
<1>1. quittiert' = quittiert \cup {m} /\ UNCHANGED <<queue, abgelegt, fort>> /\ haendler[m] = "quittung"
  BY DEF Quittiere, client
<1>2. standVon' = standVon BY <1>1 DEF standVon, Liegt
<1>3. Lage(m) # "offen" BY <1>1 DEF IInv, QuittungGedeckt, Lage
<1>4. standVon[m] # "offen" BY <1>3, LageVon
<1>5. Promise!Quittieren(m) BY <1>1, <1>2, <1>4 DEF Promise!Quittieren
<1> QED BY <1>5 DEF Promise!Next

LEMMA SchrittVersprochen == IInv /\ [Next]_vars => [Promise!Next]_Promise!vars
<1> SUFFICES ASSUME IInv, [Next]_vars PROVE [Promise!Next]_Promise!vars OBVIOUS
<1>1. ASSUME NEW m \in Nachricht, Pruefe(m) \/ LiveGescheitert(m) PROVE [Promise!Next]_Promise!vars
  <2>1. SchaffePlatz /\ UNCHANGED <<abgelegt, quittiert>>
    BY <1>1 DEF Pruefe, LiveGescheitert, client
  <2> QED BY <2>1, PlatzGeschafft, ZeilenFallen
<1>2. ASSUME NEW m \in Nachricht, Einfuegen(m) PROVE [Promise!Next]_Promise!vars
  BY <1>2, EinfuegenIstAnnehmen
<1>3. CASE Empfange BY <1>3, EmpfangeIstAblegen
<1>4. ASSUME NEW m \in Nachricht, LiveFertig(m) PROVE [Promise!Next]_Promise!vars
  BY <1>4, LiveFertigIstAushaendigen
<1>5. ASSUME NEW m \in Nachricht, Quittiere(m) PROVE [Promise!Next]_Promise!vars
  BY <1>5, QuittiereIstQuittieren
<1>6. CASE RueckstandFertig
  <2>1. PICK weg \in SUBSET queue : queue' = queue \ weg /\ fort' = fort \cup Nachrichten(weg)
    BY <1>6 DEF RueckstandFertig
  <2>2. UNCHANGED <<abgelegt, quittiert>> BY <1>6 DEF RueckstandFertig, client
  <2> QED BY <2>1, <2>2, ZeilenFallen DEF Nachrichten, Liegt
<1>7. CASE LoescheGeraet
  <2>1. queue' = {} /\ fort' = fort \cup Nachrichten(queue) /\ UNCHANGED <<abgelegt, quittiert>>
    BY <1>7 DEF LoescheGeraet, client
  <2> QED BY <2>1, ZeilenFallen DEF Nachrichten, Liegt
<1>8. ASSUME NEW q \in zubest, Bestaetige(q) PROVE [Promise!Next]_Promise!vars
  <2>1. /\ queue' \subseteq queue /\ UNCHANGED <<abgelegt, quittiert, fort>>
        /\ \A z \in queue \ queue' : z.n \in abgelegt
    BY <1>8 DEF Bestaetige, IInv, NachweisTrifftAbgelegtes
  <2> QED BY <2>1, ZeilenFallen
<1>9. ASSUME NEW z \in queue, Ablauf(z) PROVE [Promise!Next]_Promise!vars
  <2>1. queue' = queue \ {z} /\ fort' = fort \cup {z.n} /\ UNCHANGED <<abgelegt, quittiert>>
    BY <1>9 DEF Ablauf, client
  <2> QED BY <2>1, ZeilenFallen DEF Liegt
<1>10. ASSUME UNCHANGED <<queue, abgelegt, fort, quittiert>> PROVE [Promise!Next]_Promise!vars
  BY <1>10 DEF Promise!vars, standVon, Liegt
<1>11. CASE \/ \E m \in Nachricht : SendeLive(m) \/ QuittungVerloren(m)
            \/ \E n \in NACHWEIS : Verbinde(n)
            \/ \E q \in zubest : NachweisVerloren(q)
            \/ RueckstandSenden \/ Register \/ Abriss \/ Neustart \/ UNCHANGED vars
  <2>1. UNCHANGED <<queue, abgelegt, fort, quittiert>>
    BY <1>11 DEF SendeLive, QuittungVerloren, Verbinde, NachweisVerloren, RueckstandSenden, Register,
                 Abriss, Neustart, vars, relay, client
  <2> QED BY <1>10, <2>1
<1> QED BY <1>1, <1>2, <1>3, <1>4, <1>5, <1>6, <1>7, <1>8, <1>9, <1>11 DEF Next

(* The mailbox keeps the promise (Versprechen): an acknowledged message    *)
(* lies in the table until the client has it or it falls to a limit.       *)
THEOREM HaeltVersprechen == Spec => Versprechen
BY AnfangVersprochen, SchrittVersprochen, Invariante, PTL DEF Spec, Versprechen, Promise!Spec
============================================================================
