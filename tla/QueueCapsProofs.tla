-------------------------- MODULE QueueCapsProofs --------------------------
(***************************************************************************)
(* Proofs about QueueCaps: the four caps and the rule of the full device,  *)
(* for any number of devices, senders and rows.                            *)
(***************************************************************************)
EXTENDS QueueCaps, FiniteSetTheorems, SequenceTheorems, TLAPS

(* The counters and the two threads between their statements. *)
Faeden ==
    /\ queue \in Seq(Zeile) /\ queueZeilen \in Nat
    /\ schwerster = Keiner \/ schwerster \in [von : Absender, n : Nat]
    /\ loop \in [ph : {"frei", "zaehlen", "schreiben", "einfuegen"}, delta : Int,
                 gelesen : Nat, fuer : NeueZeile \cup {Keiner}]
    /\ loop.delta <= 1
    /\ loop.ph = "frei" => loop.fuer = Keiner
    /\ loop.ph = "einfuegen" => loop.fuer # Keiner
    /\ thread \in [ph : {"frei", "zaehlen", "schreiben"}, delta : Int,
                   gelesen : Nat, fuer : {Keiner}]
    /\ thread.delta <= 0 /\ (thread.ph = "frei" => thread.delta = 0)
    /\ rueckstand \in [Leitung -> Nat]
    /\ verdraengt \in 0 .. VERDRAENGT_MAX /\ verlust \in Nat
    /\ doppelt \in Nat /\ doppelt <= DOPPELT_MAX

(* A torn update belongs to one eviction, and one that still counts has    *)
(* not torn anything yet.                                                  *)
VerlustJeVerdraengung ==
    verlust + (IF thread.ph = "frei" THEN 0 ELSE 1) <= verdraengt

(* Who is promised a place finds it: below all four caps by one. *)
PlatzVersprochen ==
    loop.fuer # Keiner =>
        /\ Gesamt(queue, loop.fuer.von) < QUEUE_MAX_JE_ABSENDER
        /\ Bei(queue, loop.fuer.ziel) < QUEUE_MAX_PER_USER
        /\ Paar(queue, loop.fuer.ziel, loop.fuer.von) < QUEUE_MAX_JE_PAAR
        /\ Len(queue) < QUEUE_MAX_TOTAL + verlust + doppelt

(* What the loop has in hand for the counter. *)
Offen == IF loop.ph \in {"zaehlen", "schreiben"} THEN loop.delta ELSE 0

(* The counter covers the table, with what both threads still bring to it; *)
(* but for the rows counted off twice, and for the updates of the loop     *)
(* that a thread has written over, or is about to: those it does not see   *)
(* because it read before they were made.                                  *)
ZaehlerDeckt ==
    IF thread.ph = "schreiben"
    THEN /\ Len(queue) <= thread.gelesen + Offen + thread.delta + verlust + doppelt
                             + (IF queueZeilen > thread.gelesen THEN 1 ELSE 0)
         /\ loop.ph \in {"zaehlen", "schreiben"} => queueZeilen = thread.gelesen
    ELSE Len(queue) <= queueZeilen + Offen + thread.delta + verlust + doppelt

(* The loop has read no less than what stands there now. *)
NichtZuWenigGelesen == loop.ph = "schreiben" => loop.gelesen >= queueZeilen

(* No backlog has more rows left in the table than it has read. *)
Marken == \A l \in Leitung : Zahl(queue, VonGelesen(l)) <= rueckstand[l]

(* The inductive invariant. *)
IInv == /\ Faeden /\ VerlustJeVerdraengung /\ Marken
        /\ DeckelHalten /\ DachHaelt /\ PlatzVersprochen
        /\ ZaehlerDeckt /\ NichtZuWenigGelesen

----------------------------------------------------------------------------
(* Counting rows. *)

LEMMA TrefferZaehlbar ==
  ASSUME NEW q \in Seq(Zeile), NEW G
  PROVE  /\ IsFiniteSet(DOMAIN q) /\ Cardinality(DOMAIN q) = Len(q) /\ Len(q) \in Nat
         /\ IsFiniteSet(Treffer(q, G)) /\ Zahl(q, G) \in Nat
         /\ Treffer(q, G) # {} => Zahl(q, G) > 0
         /\ Zahl(q, G) > 0 => Treffer(q, G) # {}
<1>1. Len(q) \in Nat /\ DOMAIN q = 1 .. Len(q) OBVIOUS
<1>2. IsFiniteSet(DOMAIN q) /\ Cardinality(DOMAIN q) = Len(q) BY <1>1, FS_Interval
<1>3. Treffer(q, G) \in SUBSET DOMAIN q BY DEF Treffer
<1>4. IsFiniteSet(Treffer(q, G)) BY <1>2, <1>3, FS_Subset
<1>5. Cardinality(Treffer(q, G)) \in Nat BY <1>4, FS_CardinalityType
<1>6. Cardinality(Treffer(q, G)) = 0 <=> Treffer(q, G) = {} BY <1>4, FS_EmptySet
<1> QED BY <1>1, <1>2, <1>4, <1>5, <1>6 DEF Zahl

(* Counting along an injection that keeps the rows. *)
LEMMA Uebertragen ==
  ASSUME NEW q \in Seq(Zeile), NEW p \in Seq(Zeile), NEW G, NEW D \in SUBSET DOMAIN q,
         NEW h \in [DOMAIN p -> D],
         \A k \in DOMAIN p : p[k] = q[h[k]],
         \A j \in DOMAIN p, k \in DOMAIN p : h[j] = h[k] => j = k
  PROVE  Zahl(p, G) <= Cardinality(Treffer(q, G) \cap D)
<1> DEFINE f == [k \in Treffer(p, G) |-> h[k]]
<1>1. f \in Injection(Treffer(p, G), Treffer(q, G) \cap D) BY DEF Injection, IsInjective, Treffer
<1>2. IsFiniteSet(Treffer(q, G) \cap D) BY TrefferZaehlbar, FS_Intersection
<1> QED BY <1>1, <1>2, FS_Injection DEF Zahl

LEMMA Angehaengt ==
  ASSUME NEW q \in Seq(Zeile), NEW z \in Zeile, NEW G
  PROVE  /\ Append(q, z) \in Seq(Zeile) /\ Len(Append(q, z)) = Len(q) + 1
         /\ Zahl(Append(q, z), G) = Zahl(q, G) + (IF z \in G THEN 1 ELSE 0)
<1>1. /\ Append(q, z) \in Seq(Zeile) /\ Len(Append(q, z)) = Len(q) + 1
      /\ \A i \in 1 .. Len(q) : Append(q, z)[i] = q[i]
      /\ Append(q, z)[Len(q) + 1] = z
  OBVIOUS
<1>2. Treffer(Append(q, z), G)
        = IF z \in G THEN Treffer(q, G) \cup {Len(q) + 1} ELSE Treffer(q, G)
  BY <1>1 DEF Treffer
<1>3. Len(q) + 1 \notin Treffer(q, G) BY DEF Treffer
<1>4. PICK T : T = Treffer(q, G) OBVIOUS
<1>5. IsFiniteSet(T) /\ Cardinality(T) \in Nat BY <1>4, TrefferZaehlbar DEF Zahl
<1>6. Cardinality(T \cup {Len(q) + 1}) = Cardinality(T) + 1 BY <1>3, <1>4, <1>5, FS_AddElement
<1> QED BY <1>1, <1>2, <1>4, <1>5, <1>6 DEF Zahl

(* One row taken out of the middle. *)
LEMMA Herausgenommen ==
  ASSUME NEW q \in Seq(Zeile), NEW i \in DOMAIN q
  PROVE  /\ RemoveAt(q, i) \in Seq(Zeile) /\ Len(RemoveAt(q, i)) = Len(q) - 1
         /\ \A k \in 1 .. Len(q) - 1 :
              RemoveAt(q, i)[k] = IF k < i THEN q[k] ELSE q[k + 1]
<1> DEFINE a == SubSeq(q, 1, i - 1)
           b == SubSeq(q, i + 1, Len(q))
<1>1. i \in 1 .. Len(q) /\ Len(q) \in Nat OBVIOUS
<1>2. a \in Seq(Zeile) /\ Len(a) = i - 1 /\ \A k \in 1 .. i - 1 : a[k] = q[k]
  BY <1>1
<1>3. b \in Seq(Zeile) /\ Len(b) = Len(q) - i /\ \A k \in 1 .. Len(q) - i : b[k] = q[k + i]
  BY <1>1
<1> HIDE DEF a, b
<1>4. /\ a \o b \in Seq(Zeile) /\ Len(a \o b) = Len(a) + Len(b)
      /\ \A k \in 1 .. Len(a) + Len(b) :
           (a \o b)[k] = IF k <= Len(a) THEN a[k] ELSE b[k - Len(a)]
  BY <1>2, <1>3, ConcatProperties
<1>5. RemoveAt(q, i) = a \o b BY DEF RemoveAt, a, b
<1>6. Len(a) + Len(b) = Len(q) - 1 BY <1>1, <1>2, <1>3
<1>7. ASSUME NEW k \in 1 .. Len(q) - 1 PROVE (a \o b)[k] = IF k < i THEN q[k] ELSE q[k + 1]
  <2>1. CASE k < i BY <2>1, <1>1, <1>2, <1>4, <1>6
  <2>2. CASE ~(k < i)
    <3>1. ~(k <= Len(a)) /\ k - Len(a) = k - i + 1 /\ k - i + 1 \in 1 .. Len(q) - i
      BY <2>2, <1>1, <1>2
    <3>2. PICK j \in 1 .. Len(q) - i : j = k - i + 1 BY <3>1
    <3>3. b[j] = q[j + i] /\ j + i = k + 1 BY <3>2, <1>1, <1>3
    <3> QED BY <2>2, <3>1, <3>2, <3>3, <1>4, <1>6
  <2> QED BY <2>1, <2>2
<1> QED BY <1>4, <1>5, <1>6, <1>7

LEMMA EinsWeg ==
  ASSUME NEW U, IsFiniteSet(U), NEW x
  PROVE  Cardinality(U \ {x}) = Cardinality(U) - (IF x \in U THEN 1 ELSE 0)
<1>1. Cardinality(U) \in Nat BY FS_CardinalityType
<1>2. CASE x \in U BY <1>2, FS_RemoveElement
<1>3. CASE x \notin U BY <1>1, <1>3, FS_RemoveElement
<1> QED BY <1>2, <1>3

LEMMA EineWeniger ==
  ASSUME NEW q \in Seq(Zeile), NEW i \in DOMAIN q, NEW G
  PROVE  Zahl(RemoveAt(q, i), G) = Zahl(q, G) - (IF q[i] \in G THEN 1 ELSE 0)
<1> DEFINE p == RemoveAt(q, i)
           T == Treffer(q, G) \ {i}
           h == [k \in Treffer(p, G) |-> IF k < i THEN k ELSE k + 1]
<1>1. /\ p \in Seq(Zeile) /\ Len(p) = Len(q) - 1
      /\ \A k \in 1 .. Len(q) - 1 : p[k] = IF k < i THEN q[k] ELSE q[k + 1]
  BY Herausgenommen
<1>2. Len(q) \in Nat /\ i \in 1 .. Len(q) /\ DOMAIN q = 1 .. Len(q) OBVIOUS
<1> HIDE DEF p
<1>3. DOMAIN p = 1 .. Len(q) - 1 BY <1>1
<1>4. h \in [Treffer(p, G) -> T] BY <1>1, <1>2, <1>3 DEF Treffer
<1>5. h \in Injection(Treffer(p, G), T) BY <1>2, <1>3, <1>4 DEF Injection, IsInjective, Treffer
<1>6. ASSUME NEW t \in T PROVE \E k \in Treffer(p, G) : h[k] = t
  <2>1. t \in 1 .. Len(q) /\ t # i /\ q[t] \in G BY <1>2 DEF Treffer
  <2>2. CASE t < i
    <3>1. t \in Treffer(p, G) BY <2>1, <2>2, <1>1, <1>2, <1>3 DEF Treffer
    <3> QED BY <3>1, <2>2
  <2>3. CASE t > i
    <3>1. t - 1 \in Treffer(p, G) BY <2>1, <2>3, <1>1, <1>2, <1>3 DEF Treffer
    <3>2. h[t - 1] = t BY <3>1, <2>1, <2>3, <1>2
    <3> QED BY <3>1, <3>2
  <2> QED BY <2>1, <2>2, <2>3, <1>2
<1>7. h \in Bijection(Treffer(p, G), T) BY <1>4, <1>5, <1>6 DEF Bijection, Surjection
<1>8. ExistsBijection(Treffer(p, G), T) BY <1>7 DEF ExistsBijection
<1>9. IsFiniteSet(Treffer(p, G)) BY <1>1, TrefferZaehlbar
<1>10. Cardinality(T) = Cardinality(Treffer(p, G)) BY <1>8, <1>9, FS_Bijection
<1>11. Cardinality(T) = Cardinality(Treffer(q, G)) - (IF i \in Treffer(q, G) THEN 1 ELSE 0)
  <2>1. PICK U : U = Treffer(q, G) OBVIOUS
  <2>2. IsFiniteSet(U) BY <2>1, TrefferZaehlbar
  <2>3. Cardinality(U \ {i}) = Cardinality(U) - (IF i \in U THEN 1 ELSE 0)
    BY <2>2, EinsWeg
  <2> QED BY <2>1, <2>3
<1>12. i \in Treffer(q, G) <=> q[i] \in G BY DEF Treffer
<1> QED BY <1>10, <1>11, <1>12 DEF Zahl, p

(* The first of some places exists. *)
LEMMA Ordnung == \E R : IsWellFoundedOn(R, Nat) /\ \A x, y \in Nat : x < y => <<x, y>> \in R
<1>1. IsWellFoundedOn(OpToRel(<, Nat), Nat) BY NatLessThanWellFounded
<1>2. \A x, y \in Nat : x < y => <<x, y>> \in OpToRel(<, Nat) BY DEF OpToRel
<1> QED BY <1>1, <1>2, Zenon

LEMMA ErsteStelle ==
  ASSUME NEW I \in SUBSET Nat, I # {}
  PROVE  \E m \in I : \A n \in I : m <= n
<1>1. PICK R : IsWellFoundedOn(R, Nat) /\ \A x, y \in Nat : x < y => <<x, y>> \in R
  BY Ordnung, Zenon
<1>2. IsWellFoundedOn(R, Nat) /\ I \subseteq Nat BY <1>1
<1>3. PICK m \in I : \A n \in I : ~ (<<n, m>> \in R) BY <1>2, WFMin, Zenon
<1>4. \A n \in I : ~ (n < m) BY <1>1, <1>2, <1>3, Zenon
<1> QED BY <1>2, <1>4

(* What _wirf_aelteste takes is one row, and one of those it was told. *)
LEMMA AeltesteTrifft ==
  ASSUME NEW q \in Seq(Zeile), NEW Z, Treffer(q, Z) # {}
  PROVE  \E i \in Treffer(q, Z) : AeltesteFort(q, Z) = RemoveAt(q, i)
<1>1. PICK I : I = {i \in 1 .. Len(q) : q[i] \in Z} OBVIOUS
<1>2. I = Treffer(q, Z) /\ I \in SUBSET Nat BY <1>1 DEF Treffer
<1>3. PICK m : m = CHOOSE x \in I : \A y \in I : x <= y OBVIOUS
<1>4. m \in I BY <1>2, <1>3, ErsteStelle
<1>5. \E i \in 1 .. Len(q) : q[i] \in Z BY <1>1, <1>4
<1>6. AeltesteFort(q, Z) = RemoveAt(q, m)
  BY <1>1, <1>3, <1>4, <1>5 DEF AeltesteFort, RemoveFirstMatch, SelectInSeq, Min
<1> QED BY <1>2, <1>4, <1>6

(* Rows left out: the others keep their order and their number. *)

Rang(B, i) == Cardinality({j \in B : j <= i})

LEMMA RangTrifft ==
  ASSUME NEW B \in SUBSET Int, IsFiniteSet(B)
  PROVE  /\ Cardinality(B) \in Nat
         /\ \A i \in B : Rang(B, i) \in 1 .. Cardinality(B)
         /\ \A i, j \in B : Rang(B, i) = Rang(B, j) => i = j
         /\ \A k \in 1 .. Cardinality(B) : \E i \in B : Rang(B, i) = k
<1> DEFINE bis(i) == {j \in B : j <= i}
           R == [i \in B |-> Rang(B, i)]
<1>1. Cardinality(B) \in Nat BY FS_CardinalityType
<1>2. ASSUME NEW i \in B
      PROVE  /\ IsFiniteSet(bis(i)) /\ Rang(B, i) = Cardinality(bis(i)) /\ i \in bis(i)
             /\ Rang(B, i) \in 1 .. Cardinality(B)
  <2>1. PICK T \in SUBSET B : T = bis(i) OBVIOUS
  <2>2. i \in T BY <2>1
  <2>3. IsFiniteSet(T) /\ Cardinality(T) <= Cardinality(B) BY FS_Subset
  <2>4. Cardinality(T) \in Nat /\ Cardinality(T) # 0
    BY <2>2, <2>3, FS_CardinalityType, FS_EmptySet
  <2> QED BY <1>1, <2>1, <2>2, <2>3, <2>4 DEF Rang
<1>3. ASSUME NEW i \in B, NEW j \in B, i < j PROVE Rang(B, i) # Rang(B, j)
  <2>1. PICK T : T = bis(i) OBVIOUS
  <2>2. PICK U : U = bis(j) OBVIOUS
  <2>3. IsFiniteSet(U) /\ Rang(B, i) = Cardinality(T) /\ Rang(B, j) = Cardinality(U)
    BY <1>2, <2>1, <2>2
  <2>4. i \in Int /\ j \in Int /\ \A x \in B : x \in Int OBVIOUS
  <2>5. \A x \in T : x \in U
    <3> SUFFICES ASSUME NEW x \in T PROVE x \in U OBVIOUS
    <3>1. x \in B /\ x <= i /\ x \in Int BY <2>1, <2>4
    <3>2. x <= j BY <1>3, <2>4, <3>1
    <3> QED BY <2>2, <3>1, <3>2
  <2>6. j \in U BY <2>2, <2>4
  <2>7. j \notin T BY <1>3, <2>1, <2>4
  <2>8. IsFiniteSet(T) /\ Cardinality(T) <= Cardinality(U) /\ Cardinality(U) # Cardinality(T)
    BY <2>3, <2>5, <2>6, <2>7, FS_Subset
  <2> QED BY <2>3, <2>8
<1>4. \A i, j \in B : Rang(B, i) = Rang(B, j) => i = j
  <2>1. ASSUME NEW i \in B, NEW j \in B, i # j PROVE i < j \/ j < i BY <2>1
  <2> QED BY <1>3, <2>1
<1>5. R \in [B -> 1 .. Cardinality(B)] BY <1>2
<1>6. R \in Injection(B, 1 .. Cardinality(B))
  BY <1>4, <1>5 DEF Injection, IsInjective
<1>7. IsFiniteSet(1 .. Cardinality(B)) /\ Cardinality(1 .. Cardinality(B)) = Cardinality(B)
  BY <1>1, FS_Interval
<1>8. R \in Surjection(B, 1 .. Cardinality(B)) BY <1>6, <1>7, FS_Injection
<1>9. \A k \in 1 .. Cardinality(B) : \E i \in B : R[i] = k BY <1>8 DEF Surjection
<1> QED BY <1>1, <1>2, <1>4, <1>9

LEMMA OhneZaehlt ==
  ASSUME queue \in Seq(Zeile), NEW S \in SUBSET DOMAIN queue
  PROVE  /\ Ohne(S) \in Seq(Zeile) /\ Len(Ohne(S)) = Len(queue) - Cardinality(S)
         /\ IsFiniteSet(S) /\ Cardinality(S) \in Nat /\ Len(Ohne(S)) \in Nat
         /\ \A g, a : /\ Gesamt(Ohne(S), a) <= Gesamt(queue, a)
                      /\ Bei(Ohne(S), g) <= Bei(queue, g)
                      /\ Paar(Ohne(S), g, a) <= Paar(queue, g, a)
         /\ \A G : Zahl(Ohne(S), G) <= Zahl(queue, G)
<1>1. PICK B : B = {i \in DOMAIN queue : i \notin S} OBVIOUS
<1>2. /\ DOMAIN queue = 1 .. Len(queue) /\ Len(queue) \in Nat
      /\ IsFiniteSet(DOMAIN queue) /\ Cardinality(DOMAIN queue) = Len(queue)
  BY TrefferZaehlbar
<1>3. B \in SUBSET Int /\ B \subseteq DOMAIN queue BY <1>1, <1>2
<1>4. IsFiniteSet(B) BY <1>2, <1>3, FS_Subset
<1>5. IsFiniteSet(S) /\ Cardinality(S) \in Nat BY <1>2, FS_Subset, FS_CardinalityType
<1>6. Cardinality(B) = Len(queue) - Cardinality(S)
  <2>1. PICK D : D = DOMAIN queue OBVIOUS
  <2>2. B = D \ S /\ D \cap S = S /\ IsFiniteSet(D) BY <1>1, <1>2, <2>1
  <2>3. Cardinality(D \ S) = Cardinality(D) - Cardinality(D \cap S) BY <2>2, FS_Difference
  <2> QED BY <1>2, <2>1, <2>2, <2>3
<1>7. PICK n \in Nat : n = Cardinality(B) BY <1>4, FS_CardinalityType
<1> DEFINE ort == [k \in 1 .. n |-> CHOOSE i \in B : Rang(B, i) = k]
<1>8. ASSUME NEW k \in 1 .. n PROVE ort[k] \in B /\ Rang(B, ort[k]) = k
  <2>1. \E i \in B : Rang(B, i) = k BY <1>3, <1>4, <1>7, RangTrifft
  <2> QED BY <2>1
<1>9. Ohne(S) = [k \in 1 .. n |-> queue[ort[k]]]
  BY <1>1, <1>7 DEF Ohne, Rang
<1> HIDE DEF ort
<1>10. \A k \in 1 .. n : queue[ort[k]] \in Zeile
  <2>1. \A i \in DOMAIN queue : queue[i] \in Zeile OBVIOUS
  <2> QED BY <1>3, <1>8, <2>1
<1>11. PICK p : p = Ohne(S) OBVIOUS
<1>12. p = [k \in 1 .. n |-> queue[ort[k]]] BY <1>9, <1>11
<1>13. p \in Seq(Zeile) /\ Len(p) = n BY <1>10, <1>12
<1>14. DOMAIN p = 1 .. n /\ \A k \in DOMAIN p : p[k] = queue[ort[k]] BY <1>12
<1>15. PICK h : h = [k \in DOMAIN p |-> ort[k]] OBVIOUS
<1>16. /\ h \in [DOMAIN p -> B] /\ \A k \in DOMAIN p : p[k] = queue[h[k]]
       /\ \A j \in DOMAIN p, k \in DOMAIN p : h[j] = h[k] => j = k
  BY <1>8, <1>14, <1>15
<1>17. ASSUME NEW G PROVE Zahl(p, G) <= Zahl(queue, G)
  <2>1. Zahl(p, G) <= Cardinality(Treffer(queue, G) \cap B)
    BY <1>3, <1>13, <1>16, Uebertragen
  <2>2. IsFiniteSet(Treffer(queue, G)) /\ Zahl(queue, G) \in Nat BY TrefferZaehlbar
  <2>3. /\ Cardinality(Treffer(queue, G) \cap B) <= Zahl(queue, G)
        /\ Cardinality(Treffer(queue, G) \cap B) \in Nat
    BY <2>2, FS_Intersection, FS_CardinalityType DEF Zahl
  <2>4. Zahl(p, G) \in Nat BY <1>13, TrefferZaehlbar
  <2> QED BY <2>1, <2>2, <2>3, <2>4
<1>18. ASSUME NEW g, NEW a
       PROVE  /\ Gesamt(p, a) <= Gesamt(queue, a) /\ Bei(p, g) <= Bei(queue, g)
              /\ Paar(p, g, a) <= Paar(queue, g, a)
  BY <1>17 DEF Gesamt, Bei, Paar
<1> QED BY <1>2, <1>5, <1>6, <1>7, <1>11, <1>13, <1>17, <1>18

(* Rows left out that are all of a kind leave none of that kind. *)
LEMMA OhneAlle ==
  ASSUME queue \in Seq(Zeile), NEW G
  PROVE  Zahl(Ohne(Treffer(queue, G)), G) = 0
<1>1. PICK B : B = {i \in DOMAIN queue : i \notin Treffer(queue, G)} OBVIOUS
<1>2. DOMAIN queue = 1 .. Len(queue) /\ Len(queue) \in Nat /\ IsFiniteSet(DOMAIN queue)
  BY TrefferZaehlbar
<1>3. B \in SUBSET Int /\ B \subseteq DOMAIN queue BY <1>1, <1>2
<1>4. IsFiniteSet(B) BY <1>2, <1>3, FS_Subset
<1>5. PICK n \in Nat : n = Cardinality(B) BY <1>4, FS_CardinalityType
<1> DEFINE ort == [k \in 1 .. n |-> CHOOSE i \in B : Rang(B, i) = k]
<1>6. ASSUME NEW k \in 1 .. n PROVE ort[k] \in B
  <2>1. \E i \in B : Rang(B, i) = k BY <1>3, <1>4, <1>5, RangTrifft
  <2> QED BY <2>1
<1>7. Ohne(Treffer(queue, G)) = [k \in 1 .. n |-> queue[ort[k]]] BY <1>1, <1>5 DEF Ohne, Rang
<1> HIDE DEF ort
<1>8. \A k \in 1 .. n : queue[ort[k]] \notin G BY <1>1, <1>6 DEF Treffer
<1>9. Treffer(Ohne(Treffer(queue, G)), G) = {} BY <1>7, <1>8 DEF Treffer
<1> QED BY <1>9, FS_EmptySet DEF Zahl

(* What one row taken or added does to the three counts. *)

LEMMA Zaehlbar ==
  ASSUME NEW q \in Seq(Zeile)
  PROVE  /\ Len(q) \in Nat
         /\ \A g, a : Gesamt(q, a) \in Nat /\ Bei(q, g) \in Nat /\ Paar(q, g, a) \in Nat
<1>1. Len(q) \in Nat OBVIOUS
<1>2. ASSUME NEW g, NEW a
      PROVE  Gesamt(q, a) \in Nat /\ Bei(q, g) \in Nat /\ Paar(q, g, a) \in Nat
  BY TrefferZaehlbar DEF Gesamt, Bei, Paar
<1> QED BY <1>1, <1>2

(* p counts as q does, but for one row z. *)
EineFehlt(p, q, z) ==
    \A g, a : /\ Gesamt(p, a) = Gesamt(q, a) - (IF z.von = a THEN 1 ELSE 0)
              /\ Bei(p, g) = Bei(q, g) - (IF z.ziel = g THEN 1 ELSE 0)
              /\ Paar(p, g, a) = Paar(q, g, a) - (IF z.ziel = g /\ z.von = a THEN 1 ELSE 0)

LEMMA NachWegnahme ==
  ASSUME NEW q \in Seq(Zeile), NEW i \in DOMAIN q
  PROVE  /\ RemoveAt(q, i) \in Seq(Zeile) /\ Len(RemoveAt(q, i)) = Len(q) - 1
         /\ EineFehlt(RemoveAt(q, i), q, q[i])
<1>1. RemoveAt(q, i) \in Seq(Zeile) /\ Len(RemoveAt(q, i)) = Len(q) - 1 BY Herausgenommen
<1>2. q[i] \in Zeile OBVIOUS
<1> SUFFICES ASSUME NEW g, NEW a
             PROVE  /\ Gesamt(RemoveAt(q, i), a)
                         = Gesamt(q, a) - (IF q[i].von = a THEN 1 ELSE 0)
                    /\ Bei(RemoveAt(q, i), g) = Bei(q, g) - (IF q[i].ziel = g THEN 1 ELSE 0)
                    /\ Paar(RemoveAt(q, i), g, a)
                         = Paar(q, g, a) - (IF q[i].ziel = g /\ q[i].von = a THEN 1 ELSE 0)
  BY <1>1 DEF EineFehlt
<1>3. /\ q[i] \in Von(a) <=> q[i].von = a
      /\ q[i] \in Nach(g) <=> q[i].ziel = g
      /\ q[i] \in VonNach(g, a) <=> q[i].ziel = g /\ q[i].von = a
  BY <1>2 DEF Von, Nach, VonNach
<1> QED BY <1>3, EineWeniger DEF Gesamt, Bei, Paar

LEMMA NachAnhang ==
  ASSUME NEW q \in Seq(Zeile), NEW z \in Zeile
  PROVE  /\ Append(q, z) \in Seq(Zeile) /\ Len(Append(q, z)) = Len(q) + 1
         /\ EineFehlt(q, Append(q, z), z)
<1>1. Append(q, z) \in Seq(Zeile) /\ Len(Append(q, z)) = Len(q) + 1 OBVIOUS
<1> SUFFICES ASSUME NEW g, NEW a
             PROVE  /\ Gesamt(q, a) = Gesamt(Append(q, z), a) - (IF z.von = a THEN 1 ELSE 0)
                    /\ Bei(q, g) = Bei(Append(q, z), g) - (IF z.ziel = g THEN 1 ELSE 0)
                    /\ Paar(q, g, a)
                         = Paar(Append(q, z), g, a)
                             - (IF z.ziel = g /\ z.von = a THEN 1 ELSE 0)
  BY <1>1 DEF EineFehlt
<1>2. /\ z \in Von(a) <=> z.von = a
      /\ z \in Nach(g) <=> z.ziel = g
      /\ z \in VonNach(g, a) <=> z.ziel = g /\ z.von = a
  BY DEF Von, Nach, VonNach
<1>3. Gesamt(q, a) \in Nat /\ Bei(q, g) \in Nat /\ Paar(q, g, a) \in Nat BY Zaehlbar
<1> QED BY <1>2, <1>3, Angehaengt DEF Gesamt, Bei, Paar

(* p counts no more than q, whatever is counted. *)
NichtMehr(p, q) ==
    \A g, a : Gesamt(p, a) <= Gesamt(q, a) /\ Bei(p, g) <= Bei(q, g) /\ Paar(p, g, a) <= Paar(q, g, a)

LEMMA DeckelBleiben ==
  ASSUME DeckelHalten, queue \in Seq(Zeile), queue' \in Seq(Zeile), NichtMehr(queue', queue)
  PROVE  DeckelHalten'
<1>1. /\ \A g, a : Gesamt(queue, a) \in Nat /\ Bei(queue, g) \in Nat /\ Paar(queue, g, a) \in Nat
      /\ \A g, a : Gesamt(queue', a) \in Nat /\ Bei(queue', g) \in Nat
                   /\ Paar(queue', g, a) \in Nat
  BY Zaehlbar
<1>2. /\ QUEUE_MAX_JE_PAAR \in Nat /\ QUEUE_MAX_JE_ABSENDER \in Nat
      /\ QUEUE_MAX_PER_USER \in Nat
  BY DeckelAssumption
<1>3. \A k, m, n \in Nat : k <= m /\ m <= n => k <= n OBVIOUS
<1>4. ASSUME NEW a \in Absender PROVE Gesamt(queue', a) <= QUEUE_MAX_JE_ABSENDER
  <2>1. Gesamt(queue', a) <= Gesamt(queue, a) /\ Gesamt(queue, a) <= QUEUE_MAX_JE_ABSENDER
    BY DEF DeckelHalten, NichtMehr
  <2> QED BY <1>1, <1>2, <1>3, <2>1
<1>5. ASSUME NEW g \in Geraet PROVE Bei(queue', g) <= QUEUE_MAX_PER_USER
  <2>1. Bei(queue', g) <= Bei(queue, g) /\ Bei(queue, g) <= QUEUE_MAX_PER_USER
    BY DEF DeckelHalten, NichtMehr
  <2> QED BY <1>1, <1>2, <1>3, <2>1
<1>6. ASSUME NEW g \in Geraet, NEW a \in Absender
      PROVE Paar(queue', g, a) <= QUEUE_MAX_JE_PAAR
  <2>1. Paar(queue', g, a) <= Paar(queue, g, a) /\ Paar(queue, g, a) <= QUEUE_MAX_JE_PAAR
    BY DEF DeckelHalten, NichtMehr
  <2> QED BY <1>1, <1>2, <1>3, <2>1
<1> QED BY <1>4, <1>5, <1>6 DEF DeckelHalten

LEMMA Grenzen ==
  /\ QUEUE_MAX_JE_PAAR \in Nat /\ QUEUE_MAX_JE_PAAR > 0
  /\ QUEUE_MAX_JE_ABSENDER \in Nat /\ QUEUE_MAX_JE_ABSENDER > 0
  /\ QUEUE_MAX_PER_USER \in Nat /\ QUEUE_MAX_PER_USER > 0
  /\ QUEUE_MAX_TOTAL \in Nat /\ QUEUE_MAX_TOTAL > 0
  /\ VERDRAENGT_MAX \in Nat /\ DOPPELT_MAX \in Nat
BY DeckelAssumption, SchrankenAssumption

----------------------------------------------------------------------------
LEMMA ZaehltFelder ==
  ASSUME NEW d, NEW u
  PROVE  Zaehlt(d, u) = [ph |-> "zaehlen", delta |-> d, gelesen |-> 0, fuer |-> u]
<1>1. PICK r : r = Ruht OBVIOUS
<1>2. r = [ph |-> "frei", delta |-> 0, gelesen |-> 0, fuer |-> Keiner] BY <1>1 DEF Ruht
<1>3. PICK s : s = [r EXCEPT !.ph = "zaehlen", !.delta = d, !.fuer = u] OBVIOUS
<1>4. s = [ph |-> "zaehlen", delta |-> d, gelesen |-> 0, fuer |-> u] BY <1>2, <1>3
<1> QED BY <1>1, <1>3, <1>4 DEF Zaehlt

(* The loop has taken w rows from the table and counts c off next. *)
LEMMA LoopZaehlt ==
  ASSUME IInv, Beginn, NEW w \in Nat, NEW c \in Nat, NEW u \in NeueZeile \cup {Keiner},
         loop' = Zaehlt(-c, u), w <= c, doppelt' = doppelt + (c - w), doppelt' <= DOPPELT_MAX,
         queue' \in Seq(Zeile), Len(queue') = Len(queue) - w, NichtMehr(queue', queue),
         schwerster' = Keiner \/ schwerster' \in [von : Absender, n : Nat],
         rueckstand' \in [Leitung -> Nat], Marken',
         UNCHANGED <<queueZeilen, thread, verdraengt, verlust>>, PlatzVersprochen'
  PROVE  IInv'
<1>1. /\ loop'.ph = "zaehlen" /\ loop'.delta = -c /\ loop'.gelesen = 0 /\ loop'.fuer = u
      /\ loop' \in [ph : {"frei", "zaehlen", "schreiben", "einfuegen"}, delta : Int,
                    gelesen : Nat, fuer : NeueZeile \cup {Keiner}]
  <2>1. PICK d \in Int : d = -c OBVIOUS
  <2>2. loop' = [ph |-> "zaehlen", delta |-> d, gelesen |-> 0, fuer |-> u]
    BY <2>1, ZaehltFelder
  <2> QED BY <2>1, <2>2
<1>2. /\ doppelt \in Nat /\ doppelt' \in Nat /\ verlust \in Nat /\ queueZeilen \in Nat
      /\ Len(queue) \in Nat /\ Len(queue') \in Nat
  BY DEF IInv, Faeden
<1>3. Faeden' BY <1>1, <1>2 DEF IInv, Faeden
<1>4. VerlustJeVerdraengung' BY DEF IInv, VerlustJeVerdraengung
<1>5. DeckelHalten' BY DeckelBleiben DEF IInv, Faeden
<1>6. DachHaelt' BY <1>2, Grenzen DEF IInv, DachHaelt
<1>7. thread.ph = "frei" /\ loop.ph = "frei" /\ thread.delta = 0
  BY DEF Beginn, SperreFrei, IInv, Faeden
<1>8. Len(queue) <= queueZeilen + verlust + doppelt
  BY <1>2, <1>7 DEF IInv, ZaehlerDeckt, Offen
<1>9. ZaehlerDeckt'
  <2>1. Offen' = -c BY <1>1 DEF Offen
  <2>2. thread'.ph # "schreiben" /\ thread'.delta = 0 BY <1>7
  <2>3. Len(queue') <= queueZeilen' + Offen' + thread'.delta + verlust' + doppelt'
    BY <1>2, <1>8, <2>1, <2>2
  <2> QED BY <2>2, <2>3 DEF ZaehlerDeckt
<1>10. NichtZuWenigGelesen' BY <1>1 DEF NichtZuWenigGelesen
<1> QED BY <1>3, <1>4, <1>5, <1>6, <1>9, <1>10 DEF IInv

(* A row the marks do not know leaves them as they are, or fewer. *)
LEMMA MarkenBleiben ==
  ASSUME IInv, queue' \in Seq(Zeile), UNCHANGED rueckstand,
         \A l \in Leitung : Zahl(queue', VonGelesen(l)) <= Zahl(queue, VonGelesen(l))
  PROVE  Marken'
<1>1. queue \in Seq(Zeile) /\ rueckstand \in [Leitung -> Nat] BY DEF IInv, Faeden
<1> SUFFICES ASSUME NEW l \in Leitung PROVE Zahl(queue', VonGelesen(l)) <= rueckstand[l]
  BY DEF Marken, VonGelesen
<1>2. Zahl(queue, VonGelesen(l)) \in Nat /\ Zahl(queue', VonGelesen(l)) \in Nat
  BY <1>1, TrefferZaehlbar
<1>3. Zahl(queue, VonGelesen(l)) <= rueckstand[l] BY DEF IInv, Marken
<1> QED BY <1>1, <1>2, <1>3

(* The same where the rows taken are the rows counted off. *)
LEMMA LoopBegann ==
  ASSUME IInv, Beginn, NEW w \in Nat, NEW u \in NeueZeile \cup {Keiner}, loop' = Zaehlt(-w, u),
         queue' \in Seq(Zeile), Len(queue') = Len(queue) - w, NichtMehr(queue', queue),
         schwerster' = Keiner \/ schwerster' \in [von : Absender, n : Nat],
         UNCHANGED <<queueZeilen, thread, rueckstand, verdraengt, verlust, doppelt>>,
         PlatzVersprochen', Marken'
  PROVE  IInv'
<1>1. /\ w <= w /\ doppelt' = doppelt + (w - w) /\ doppelt' <= DOPPELT_MAX
      /\ rueckstand' \in [Leitung -> Nat]
  BY DEF IInv, Faeden
<1> QED BY <1>1, LoopZaehlt

(* One row falls for one that is to come. *)
LEMMA TauschHaelt ==
  ASSUME IInv, Beginn, NEW z \in NeueZeile, NEW i \in DOMAIN queue,
         queue' = RemoveAt(queue, i), Angenommen(z, 1),
         Gesamt(queue, z.von) < QUEUE_MAX_JE_ABSENDER \/ queue[i].von = z.von,
         Bei(queue, z.ziel) < QUEUE_MAX_PER_USER \/ queue[i].ziel = z.ziel,
         Paar(queue, z.ziel, z.von) < QUEUE_MAX_JE_PAAR
            \/ (queue[i].ziel = z.ziel /\ queue[i].von = z.von),
         schwerster' = Keiner \/ schwerster' \in [von : Absender, n : Nat],
         UNCHANGED <<queueZeilen, thread, rueckstand, verdraengt, verlust, doppelt>>
  PROVE  IInv'
<1>1. queue \in Seq(Zeile) /\ DeckelHalten /\ DachHaelt /\ verlust \in Nat /\ doppelt \in Nat BY DEF IInv, Faeden
<1>2. queue' \in Seq(Zeile) /\ Len(queue') = Len(queue) - 1 BY <1>1, NachWegnahme
<1>3. EineFehlt(queue', queue, queue[i]) BY <1>1, NachWegnahme
<1>4. Len(queue) \in Nat
      /\ \A g, a : Gesamt(queue, a) \in Nat /\ Bei(queue, g) \in Nat /\ Paar(queue, g, a) \in Nat
  BY <1>1, Zaehlbar
<1>5. NichtMehr(queue', queue) BY <1>3, <1>4 DEF EineFehlt, NichtMehr
<1>6. loop' = Zaehlt(-1, z) /\ loop'.fuer = z BY ZaehltFelder DEF Angenommen
<1>7. z.von \in Absender /\ z.ziel \in Geraet BY DEF Zeile, NeueZeile
<1>8. /\ Gesamt(queue, z.von) <= QUEUE_MAX_JE_ABSENDER
      /\ Bei(queue, z.ziel) <= QUEUE_MAX_PER_USER
      /\ Paar(queue, z.ziel, z.von) <= QUEUE_MAX_JE_PAAR
      /\ Len(queue) <= QUEUE_MAX_TOTAL + verlust + doppelt
  BY <1>1, <1>7 DEF DeckelHalten, DachHaelt
<1>10. Gesamt(queue', z.von) < QUEUE_MAX_JE_ABSENDER BY <1>3, <1>4, <1>8, Grenzen DEF EineFehlt
<1>11. Bei(queue', z.ziel) < QUEUE_MAX_PER_USER BY <1>3, <1>4, <1>8, Grenzen DEF EineFehlt
<1>12. Paar(queue', z.ziel, z.von) < QUEUE_MAX_JE_PAAR BY <1>3, <1>4, <1>8, Grenzen DEF EineFehlt
<1>13. Len(queue') < QUEUE_MAX_TOTAL + verlust' + doppelt' BY <1>1, <1>2, <1>4, <1>8, Grenzen
<1>14. PlatzVersprochen' BY <1>6, <1>10, <1>11, <1>12, <1>13 DEF PlatzVersprochen
<1>15. Marken'
  <2>1. ASSUME NEW l \in Leitung
        PROVE  Zahl(queue', VonGelesen(l)) <= Zahl(queue, VonGelesen(l))
    BY <1>1, EineWeniger, TrefferZaehlbar
  <2> QED BY <1>2, <2>1, MarkenBleiben
<1> QED BY <1>2, <1>5, <1>6, <1>14, <1>15, LoopBegann

(* Nothing falls, and nothing is promised unless there is room. *)
LEMMA NichtsFaellt ==
  ASSUME IInv, Beginn, NEW u \in NeueZeile \cup {Keiner}, loop' = Zaehlt(0, u),
         schwerster' = Keiner \/ schwerster' \in [von : Absender, n : Nat],
         u # Keiner => /\ Gesamt(queue, u.von) < QUEUE_MAX_JE_ABSENDER
                       /\ Bei(queue, u.ziel) < QUEUE_MAX_PER_USER
                       /\ Paar(queue, u.ziel, u.von) < QUEUE_MAX_JE_PAAR
                       /\ Len(queue) < QUEUE_MAX_TOTAL + verlust + doppelt,
         UNCHANGED <<queue, queueZeilen, thread, rueckstand, verdraengt, verlust, doppelt>>
  PROVE  IInv'
<1>1. queue \in Seq(Zeile) BY DEF IInv, Faeden
<1>2. queue' \in Seq(Zeile) /\ Len(queue') = Len(queue) - 0 BY <1>1
<1>3. NichtMehr(queue', queue)
  <2>1. \A g, a : Gesamt(queue, a) \in Nat /\ Bei(queue, g) \in Nat /\ Paar(queue, g, a) \in Nat
    BY <1>1, Zaehlbar
  <2> QED BY <2>1 DEF NichtMehr
<1>4. loop'.fuer = u BY ZaehltFelder
<1>5. PlatzVersprochen' BY <1>4 DEF PlatzVersprochen
<1>6. loop' = Zaehlt(-0, u) BY Z3
<1>7. Marken' BY DEF IInv, Marken
<1> QED BY <1>2, <1>3, <1>5, <1>6, <1>7, LoopBegann

(* A full pair loses the oldest of its own. *)
LEMMA EigeneTrifft ==
  ASSUME IInv, NEW z \in NeueZeile, EigeneAelteste(z)
  PROVE  \E i \in DOMAIN queue :
            queue' = RemoveAt(queue, i) /\ queue[i].von = z.von /\ queue[i].ziel = z.ziel
<1>1. queue \in Seq(Zeile) BY DEF IInv, Faeden
<1>2. Paar(queue, z.ziel, z.von) > 0 BY <1>1, Zaehlbar, Grenzen DEF EigeneAelteste, PaarVoll
<1>3. Treffer(queue, VonNach(z.ziel, z.von)) # {} BY <1>1, <1>2, TrefferZaehlbar DEF Paar
<1>4. PICK i \in Treffer(queue, VonNach(z.ziel, z.von)) :
         AeltesteFort(queue, VonNach(z.ziel, z.von)) = RemoveAt(queue, i)
  BY <1>1, <1>3, AeltesteTrifft
<1>5. i \in DOMAIN queue /\ queue[i].von = z.von /\ queue[i].ziel = z.ziel
  BY DEF Treffer, VonNach, Von, Nach
<1>6. queue' = RemoveAt(queue, i) BY <1>4 DEF EigeneAelteste
<1> QED BY <1>5, <1>6

LEMMA EigeneAeltesteHaelt ==
  ASSUME IInv, NEW z \in NeueZeile, EigeneAelteste(z) PROVE IInv'
<1>1. PICK i \in DOMAIN queue :
         queue' = RemoveAt(queue, i) /\ queue[i].von = z.von /\ queue[i].ziel = z.ziel
  BY EigeneTrifft
<1>2. Beginn /\ Angenommen(z, 1) /\ UNCHANGED <<queueZeilen, schwerster, thread, rueckstand, verdraengt, verlust, doppelt>>
  BY DEF EigeneAelteste, geschichte
<1>3. schwerster' = Keiner \/ schwerster' \in [von : Absender, n : Nat]
  BY <1>2 DEF IInv, Faeden
<1> QED BY <1>1, <1>2, <1>3, TauschHaelt

LEMMA AbsenderAbgewiesenHaelt ==
  ASSUME IInv, NEW z \in NeueZeile, AbsenderAbgewiesen(z) PROVE IInv'
<1>1. /\ Beginn /\ loop' = Zaehlt(0, Keiner)
      /\ UNCHANGED <<queue, queueZeilen, schwerster, thread, rueckstand, verdraengt, verlust, doppelt>>
  BY DEF AbsenderAbgewiesen, Abgewiesen, geschichte
<1>2. schwerster' = Keiner \/ schwerster' \in [von : Absender, n : Nat]
  BY <1>1 DEF IInv, Faeden
<1> QED BY <1>1, <1>2, NichtsFaellt

LEMMA NochPlatzHaelt ==
  ASSUME IInv, NEW z \in NeueZeile, NochPlatz(z) PROVE IInv'
<1>1. /\ Beginn /\ loop' = Zaehlt(-0, z)
      /\ UNCHANGED <<queue, queueZeilen, schwerster, thread, rueckstand, verdraengt, verlust, doppelt>>
  BY DEF NochPlatz, Angenommen, geschichte
<1>2. loop' = Zaehlt(0, z) BY <1>1, Z3
<1>3. schwerster' = Keiner \/ schwerster' \in [von : Absender, n : Nat]
  BY <1>1 DEF IInv, Faeden
<1>4. queue \in Seq(Zeile) /\ verlust \in Nat /\ doppelt \in Nat /\ queueZeilen \in Nat /\ Len(queue) \in Nat
  BY DEF IInv, Faeden
<1>5. /\ Gesamt(queue, z.von) < QUEUE_MAX_JE_ABSENDER
      /\ Bei(queue, z.ziel) < QUEUE_MAX_PER_USER
      /\ Paar(queue, z.ziel, z.von) < QUEUE_MAX_JE_PAAR
      /\ queueZeilen < QUEUE_MAX_TOTAL
  BY <1>4, Zaehlbar, Grenzen DEF NochPlatz, PaarVoll, AbsenderVoll, GeraetVoll, TabelleVoll
<1>6. Len(queue) <= queueZeilen + verlust + doppelt
  BY <1>1 DEF Beginn, SperreFrei, IInv, ZaehlerDeckt, Offen, Faeden
<1>7. Len(queue) < QUEUE_MAX_TOTAL + verlust + doppelt BY <1>4, <1>5, <1>6, Grenzen
<1> QED BY <1>1, <1>2, <1>3, <1>5, <1>7, NichtsFaellt

(* The heaviest at a device that is not empty has a row there. *)
LEMMA SchwersterIst ==
  ASSUME queue \in Seq(Zeile), NEW g, Bei(queue, g) > 0
  PROVE  /\ SchwersterBei(g) \in Absender /\ Paar(queue, g, SchwersterBei(g)) > 0
         /\ \A b \in Absender : Paar(queue, g, b) <= Paar(queue, g, SchwersterBei(g))
<1>1. \A a : Paar(queue, g, a) \in Nat /\ Paar(queue, g, a) <= Len(queue)
  <2> SUFFICES ASSUME NEW a PROVE Paar(queue, g, a) \in Nat /\ Paar(queue, g, a) <= Len(queue)
    OBVIOUS
  <2>1. PICK T : T = Treffer(queue, VonNach(g, a)) OBVIOUS
  <2>2. T \in SUBSET DOMAIN queue BY <2>1 DEF Treffer
  <2>3. Cardinality(T) <= Len(queue) BY <2>2, TrefferZaehlbar, FS_Subset
  <2> QED BY <2>1, <2>3, TrefferZaehlbar DEF Paar, Zahl
<1>2. PICK i \in DOMAIN queue : queue[i].ziel = g
  <2>1. Treffer(queue, Nach(g)) # {} BY TrefferZaehlbar DEF Bei
  <2> QED BY <2>1 DEF Treffer, Nach
<1>3. queue[i] \in Zeile /\ queue[i].von \in Absender
  <2>1. queue[i] \in Zeile OBVIOUS
  <2> QED BY <2>1 DEF Zeile
<1>4. Paar(queue, g, queue[i].von) > 0
  <2>1. i \in Treffer(queue, VonNach(g, queue[i].von))
    BY <1>2, <1>3 DEF Treffer, VonNach, Von, Nach
  <2> QED BY <2>1, TrefferZaehlbar DEF Paar
<1>5. PICK schwere : schwere = {a \in Absender :
                                  \A b \in Absender : Paar(queue, g, b) <= Paar(queue, g, a)}
  OBVIOUS
<1>6. \E a \in Absender : a \in schwere
  <2>1. PICK I : I = {Len(queue) - Paar(queue, g, a) : a \in Absender} OBVIOUS
  <2>2. Len(queue) \in Nat OBVIOUS
  <2>3. I \in SUBSET Nat /\ I # {} BY <1>1, <1>3, <2>1, <2>2
  <2>4. PICK m \in I : \A n \in I : m <= n BY <2>3, ErsteStelle
  <2>5. PICK a \in Absender : m = Len(queue) - Paar(queue, g, a) BY <2>1, <2>4
  <2>6. ASSUME NEW b \in Absender PROVE Paar(queue, g, b) <= Paar(queue, g, a)
    <3>1. Len(queue) - Paar(queue, g, b) \in I BY <2>1
    <3>2. Len(queue) - Paar(queue, g, a) <= Len(queue) - Paar(queue, g, b) BY <2>4, <2>5, <3>1
    <3> QED BY <1>1, <2>2, <3>2
  <2> QED BY <1>5, <2>6
<1>7. \A a \in schwere : Paar(queue, g, a) > 0
  <2> SUFFICES ASSUME NEW a \in schwere PROVE Paar(queue, g, a) > 0 OBVIOUS
  <2>1. Paar(queue, g, queue[i].von) <= Paar(queue, g, a) BY <1>3, <1>5
  <2> QED BY <1>1, <1>4, <2>1
<1>8. PICK a \in schwere : a \in Absender BY <1>6
<1>9. PICK J : J = {j \in DOMAIN queue : queue[j].ziel = g /\ queue[j].von \in schwere} OBVIOUS
<1>10. J # {}
  <2>1. Treffer(queue, VonNach(g, a)) # {} BY <1>7, <1>8, TrefferZaehlbar DEF Paar
  <2> QED BY <1>8, <1>9, <2>1 DEF Treffer, VonNach, Von, Nach
<1>11. J \in SUBSET Nat BY <1>9
<1>12. PICK m \in J : \A n \in J : m <= n BY <1>10, <1>11, ErsteStelle
<1>13. PICK e : e = CHOOSE k \in DOMAIN queue :
                      /\ queue[k].ziel = g /\ queue[k].von \in schwere
                      /\ \A j \in 1 .. k - 1 : queue[j].ziel # g \/ queue[j].von \notin schwere
  OBVIOUS
<1>14. queue[e].von \in schwere
  <2>1. /\ m \in DOMAIN queue /\ queue[m].ziel = g /\ queue[m].von \in schwere
        /\ \A j \in 1 .. m - 1 : queue[j].ziel # g \/ queue[j].von \notin schwere
    <3>1. m \in DOMAIN queue /\ queue[m].ziel = g /\ queue[m].von \in schwere BY <1>9, <1>12
    <3>2. ASSUME NEW j \in 1 .. m - 1, queue[j].ziel = g, queue[j].von \in schwere PROVE FALSE
      <4>1. j \in DOMAIN queue /\ j < m BY <3>1
      <4>2. j \in J BY <1>9, <3>2, <4>1
      <4> QED BY <1>11, <1>12, <4>1, <4>2
    <3> QED BY <3>1, <3>2
  <2> QED BY <1>13, <2>1
<1>15. SchwersterBei(g) = queue[e].von BY <1>5, <1>13 DEF SchwersterBei
<1>16. queue[e].von \in Absender
       /\ \A b \in Absender : Paar(queue, g, b) <= Paar(queue, g, queue[e].von)
  BY <1>5, <1>14
<1> QED BY <1>7, <1>14, <1>15, <1>16

(* Whom it hits at a full device: the sender, or one who has more there. *)
LEMMA WenEsTrifft ==
  ASSUME IInv, NEW z \in NeueZeile, AmGeraetWeichen(z)
  PROVE  \E i \in DOMAIN queue :
            /\ queue' = RemoveAt(queue, i) /\ queue[i].ziel = z.ziel
            /\ \/ queue[i].von = z.von
               \/ Paar(queue, z.ziel, z.von) < Paar(queue, z.ziel, queue[i].von)
<1>1. queue \in Seq(Zeile) BY DEF IInv, Faeden
<1>2. Bei(queue, z.ziel) > 0
  BY <1>1, Zaehlbar, Grenzen DEF AmGeraetWeichen, GeraetVoll
<1>3. PICK s : s = SchwersterBei(z.ziel) OBVIOUS
<1>4. PICK o : o = IF Paar(queue, z.ziel, z.von) >= Paar(queue, z.ziel, s) THEN z.von ELSE s
  OBVIOUS
<1>5. s \in Absender /\ Paar(queue, z.ziel, s) > 0 BY <1>1, <1>2, <1>3, SchwersterIst
<1>6. /\ Paar(queue, z.ziel, s) \in Nat /\ Paar(queue, z.ziel, z.von) \in Nat
      /\ Paar(queue, z.ziel, o) \in Nat
  BY <1>1, Zaehlbar
<1>7. /\ Paar(queue, z.ziel, o) > 0
      /\ o = z.von \/ Paar(queue, z.ziel, z.von) < Paar(queue, z.ziel, o)
  BY <1>4, <1>5, <1>6
<1>8. queue' = AeltesteFort(queue, VonNach(z.ziel, o)) BY <1>3, <1>4 DEF AmGeraetWeichen
<1>9. Treffer(queue, VonNach(z.ziel, o)) # {} BY <1>1, <1>7, TrefferZaehlbar DEF Paar
<1>10. PICK i \in Treffer(queue, VonNach(z.ziel, o)) :
          AeltesteFort(queue, VonNach(z.ziel, o)) = RemoveAt(queue, i)
  BY <1>1, <1>9, AeltesteTrifft
<1>11. i \in DOMAIN queue /\ queue[i].von = o /\ queue[i].ziel = z.ziel
  BY DEF Treffer, VonNach, Von, Nach
<1> QED BY <1>7, <1>8, <1>10, <1>11

LEMMA AmGeraetWeichenHaelt ==
  ASSUME IInv, NEW z \in NeueZeile, AmGeraetWeichen(z) PROVE IInv'
<1>1. PICK i \in DOMAIN queue :
         /\ queue' = RemoveAt(queue, i) /\ queue[i].ziel = z.ziel
         /\ queue[i].von = z.von \/ Paar(queue, z.ziel, z.von) < Paar(queue, z.ziel, queue[i].von)
  BY WenEsTrifft
<1>2. queue \in Seq(Zeile) BY DEF IInv, Faeden
<1>3. /\ Gesamt(queue, z.von) < QUEUE_MAX_JE_ABSENDER
      /\ Paar(queue, z.ziel, z.von) < QUEUE_MAX_JE_PAAR
  BY <1>2, Zaehlbar, Grenzen DEF AmGeraetWeichen, PaarVoll, AbsenderVoll
<1>4. /\ Beginn /\ Angenommen(z, 1)
      /\ UNCHANGED <<queueZeilen, schwerster, thread, rueckstand, verdraengt, verlust, doppelt>>
  BY DEF AmGeraetWeichen, geschichte
<1>5. schwerster' = Keiner \/ schwerster' \in [von : Absender, n : Nat]
  BY <1>4 DEF IInv, Faeden
<1> QED BY <1>1, <1>3, <1>4, <1>5, TauschHaelt

LEMMA AmDachHaelt ==
  ASSUME IInv, NEW z \in NeueZeile, AmDach(z) PROVE IInv'
<1>1. queue \in Seq(Zeile) /\ (schwerster = Keiner \/ schwerster \in [von : Absender, n : Nat])
  BY DEF IInv, Faeden
<1>2. \A a : Gesamt(queue, a) \in Nat BY <1>1, Zaehlbar
<1>3. Beginn /\ UNCHANGED <<queueZeilen, thread, rueckstand, verdraengt, verlust, doppelt>>
  BY DEF AmDach, geschichte
<1>4. /\ Gesamt(queue, z.von) < QUEUE_MAX_JE_ABSENDER
      /\ Bei(queue, z.ziel) < QUEUE_MAX_PER_USER
      /\ Paar(queue, z.ziel, z.von) < QUEUE_MAX_JE_PAAR
  BY <1>1, Zaehlbar, Grenzen DEF AmDach, PaarVoll, AbsenderVoll, GeraetVoll
<1>5. \A s \in Schwerste : s \in [von : Absender, n : Nat]
  <2>1. CASE schwerster # Keiner BY <1>1, <2>1 DEF Schwerste
  <2>2. CASE schwerster = Keiner BY <1>2, <2>2 DEF Schwerste
  <2> QED BY <2>1, <2>2
<1>6. CASE loop' = Zaehlt(0, Keiner) /\ UNCHANGED queue
           /\ (schwerster' = Keiner \/ schwerster' \in [von : Absender, n : Nat])
  BY <1>3, <1>6, NichtsFaellt
<1>7. ASSUME NEW s \in Schwerste, s.n > Gesamt(queue, z.von), Gesamt(queue, s.von) # 0,
             queue' = AeltesteFort(queue, Von(s.von)), schwerster' = [s EXCEPT !.n = @ - 1],
             Angenommen(z, 1)
      PROVE  IInv'
  <2>1. Treffer(queue, Von(s.von)) # {} BY <1>1, <1>2, <1>7, TrefferZaehlbar DEF Gesamt
  <2>2. PICK i \in Treffer(queue, Von(s.von)) :
           AeltesteFort(queue, Von(s.von)) = RemoveAt(queue, i)
    BY <1>1, <2>1, AeltesteTrifft
  <2>3. i \in DOMAIN queue BY DEF Treffer
  <2>4. s \in [von : Absender, n : Nat] /\ s.n - 1 \in Nat BY <1>2, <1>5, <1>7
  <2>5. schwerster' \in [von : Absender, n : Nat] BY <1>7, <2>4
  <2> QED BY <1>3, <1>4, <1>7, <2>2, <2>3, <2>5, TauschHaelt
<1>8. \/ /\ loop' = Zaehlt(0, Keiner) /\ UNCHANGED queue
         /\ \/ UNCHANGED schwerster
            \/ schwerster' = Keiner
            \/ schwerster' \in Schwerste
      \/ \E s \in Schwerste :
           /\ ~(s.n <= Gesamt(queue, z.von)) /\ Gesamt(queue, s.von) # 0
           /\ queue' = AeltesteFort(queue, Von(s.von)) /\ schwerster' = [s EXCEPT !.n = @ - 1]
           /\ Angenommen(z, 1)
  BY DEF AmDach, Abgewiesen
<1>9. \A s \in Schwerste : ~(s.n <= Gesamt(queue, z.von)) => s.n > Gesamt(queue, z.von)
  BY <1>2, <1>5
<1> QED BY <1>1, <1>5, <1>6, <1>7, <1>8, <1>9

LEMMA UmEins ==
  /\ \A n, m, c \in Nat : n = m - 1 /\ n < c => m <= c
  /\ \A n, m, c \in Nat : n = m - 0 /\ n <= c => m <= c
OBVIOUS

LEMMA EinfuegenHaelt == ASSUME IInv, Einfuegen PROVE IInv'
<1>1. loop.ph = "einfuegen" /\ thread.ph = "frei" /\ loop.fuer # Keiner
  BY DEF Einfuegen, SperreFrei, IInv, Faeden
<1>2. PICK z \in NeueZeile : z = loop.fuer BY <1>1 DEF IInv, Faeden
<1>3. queue' = Append(queue, z) /\ loop' = Zaehlt(1, Keiner) BY <1>2 DEF Einfuegen
<1>4. loop' = [ph |-> "zaehlen", delta |-> 1, gelesen |-> 0, fuer |-> Keiner]
  BY <1>3, ZaehltFelder
<1>5. queue \in Seq(Zeile) BY DEF IInv, Faeden
<1>6. queue' \in Seq(Zeile) /\ Len(queue') = Len(queue) + 1 /\ EineFehlt(queue, queue', z)
  BY <1>3, <1>5, NachAnhang DEF NeueZeile
<1>7. UNCHANGED <<queueZeilen, schwerster, thread, rueckstand, verdraengt, verlust, doppelt>>
  BY DEF Einfuegen, geschichte
<1>8. Faeden' BY <1>4, <1>6, <1>7 DEF IInv, Faeden
<1>9. VerlustJeVerdraengung' BY <1>7 DEF IInv, VerlustJeVerdraengung
<1>10. /\ \A g, a : /\ Gesamt(queue, a) \in Nat /\ Bei(queue, g) \in Nat
                    /\ Paar(queue, g, a) \in Nat
       /\ \A g, a : /\ Gesamt(queue', a) \in Nat /\ Bei(queue', g) \in Nat
                    /\ Paar(queue', g, a) \in Nat
  BY <1>5, <1>6, Zaehlbar
<1>11. /\ Gesamt(queue, z.von) < QUEUE_MAX_JE_ABSENDER
       /\ Bei(queue, z.ziel) < QUEUE_MAX_PER_USER
       /\ Paar(queue, z.ziel, z.von) < QUEUE_MAX_JE_PAAR
       /\ Len(queue) < QUEUE_MAX_TOTAL + verlust + doppelt
  BY <1>1, <1>2 DEF IInv, PlatzVersprochen
<1>13. DeckelHalten'
  <2>1. ASSUME NEW a \in Absender PROVE Gesamt(queue', a) <= QUEUE_MAX_JE_ABSENDER
    <3>1. Gesamt(queue, a) = Gesamt(queue', a) - (IF z.von = a THEN 1 ELSE 0)
      BY <1>6 DEF EineFehlt
    <3>2. Gesamt(queue, a) <= QUEUE_MAX_JE_ABSENDER BY DEF IInv, DeckelHalten
    <3>3. CASE z.von = a BY <1>10, <1>11, <3>1, <3>3, UmEins, Grenzen
    <3>4. CASE ~(z.von = a) BY <1>10, <3>1, <3>2, <3>4, UmEins, Grenzen
    <3> QED BY <3>3, <3>4
  <2>2. ASSUME NEW g \in Geraet PROVE Bei(queue', g) <= QUEUE_MAX_PER_USER
    <3>1. Bei(queue, g) = Bei(queue', g) - (IF z.ziel = g THEN 1 ELSE 0)
      BY <1>6 DEF EineFehlt
    <3>2. Bei(queue, g) <= QUEUE_MAX_PER_USER BY DEF IInv, DeckelHalten
    <3>3. CASE z.ziel = g BY <1>10, <1>11, <3>1, <3>3, UmEins, Grenzen
    <3>4. CASE ~(z.ziel = g) BY <1>10, <3>1, <3>2, <3>4, UmEins, Grenzen
    <3> QED BY <3>3, <3>4
  <2>3. ASSUME NEW g \in Geraet, NEW a \in Absender
        PROVE  Paar(queue', g, a) <= QUEUE_MAX_JE_PAAR
    <3>1. Paar(queue, g, a)
            = Paar(queue', g, a) - (IF z.ziel = g /\ z.von = a THEN 1 ELSE 0)
      BY <1>6 DEF EineFehlt
    <3>2. Paar(queue, g, a) <= QUEUE_MAX_JE_PAAR BY DEF IInv, DeckelHalten
    <3>3. CASE z.ziel = g /\ z.von = a BY <1>10, <1>11, <3>1, <3>3, UmEins, Grenzen
    <3>4. CASE ~(z.ziel = g /\ z.von = a) BY <1>10, <3>1, <3>2, <3>4, UmEins, Grenzen
    <3> QED BY <3>3, <3>4
  <2> QED BY <2>1, <2>2, <2>3 DEF DeckelHalten
<1>14. /\ Len(queue) \in Nat /\ Len(queue') \in Nat /\ verlust \in Nat /\ doppelt \in Nat /\ queueZeilen \in Nat
       /\ thread.delta \in Int
  BY <1>5, <1>6 DEF IInv, Faeden
<1>15. DachHaelt' BY <1>6, <1>7, <1>11, <1>14, Grenzen DEF DachHaelt
<1>16. PlatzVersprochen' BY <1>4 DEF PlatzVersprochen
<1>17. ZaehlerDeckt'
  <2>1. Offen' = 1 /\ Offen = 0 BY <1>1, <1>4 DEF Offen
  <2>2. Len(queue) <= queueZeilen + Offen + thread.delta + verlust + doppelt
    BY <1>1 DEF IInv, ZaehlerDeckt
  <2>3. Len(queue') <= queueZeilen' + Offen' + thread'.delta + verlust' + doppelt'
    BY <1>6, <1>7, <1>14, <2>1, <2>2
  <2> QED BY <1>1, <1>7, <2>3 DEF ZaehlerDeckt
<1>18. NichtZuWenigGelesen' BY <1>4 DEF NichtZuWenigGelesen
<1>19. Marken'
  <2>1. ASSUME NEW l \in Leitung
        PROVE  Zahl(queue', VonGelesen(l)) <= Zahl(queue, VonGelesen(l))
    <3>1. z \in Zeile /\ z \notin VonGelesen(l) BY DEF NeueZeile, VonGelesen
    <3>2. Zahl(queue', VonGelesen(l)) = Zahl(queue, VonGelesen(l)) + 0
      BY <1>3, <1>5, <3>1, Angehaengt
    <3> QED BY <1>5, <3>2, TrefferZaehlbar
  <2> QED BY <1>6, <1>7, <2>1, MarkenBleiben
<1> QED BY <1>8, <1>9, <1>13, <1>15, <1>16, <1>17, <1>18, <1>19 DEF IInv

----------------------------------------------------------------------------
(* The counter: the table stands still while it is brought after it. *)

LEMMA NeuIst ==
  ASSUME NEW n \in Nat, NEW d \in Int
  PROVE  /\ Neu(n, d) \in Nat /\ Neu(n, d) >= n + d /\ (d <= 0 => Neu(n, d) <= n)
BY DEF Neu

(* The parts that only the table and the promise decide. *)
LEMMA TabelleSteht ==
  ASSUME IInv, UNCHANGED queue, loop'.fuer \in {loop.fuer, Keiner},
         UNCHANGED <<rueckstand, doppelt>>, verlust' \in Nat, verlust' >= verlust
  PROVE  DeckelHalten' /\ DachHaelt' /\ PlatzVersprochen' /\ Marken'
<1>1. DeckelHalten' BY DEF IInv, DeckelHalten
<1>2. Len(queue) \in Nat /\ verlust \in Nat /\ doppelt \in Nat BY DEF IInv, Faeden
<1>3. DachHaelt' BY <1>2, Grenzen DEF IInv, DachHaelt
<1>4. PlatzVersprochen'
  <2> SUFFICES ASSUME loop'.fuer # Keiner
               PROVE  /\ Gesamt(queue, loop'.fuer.von) < QUEUE_MAX_JE_ABSENDER
                      /\ Bei(queue, loop'.fuer.ziel) < QUEUE_MAX_PER_USER
                      /\ Paar(queue, loop'.fuer.ziel, loop'.fuer.von) < QUEUE_MAX_JE_PAAR
                      /\ Len(queue) < QUEUE_MAX_TOTAL + verlust' + doppelt'
    BY DEF PlatzVersprochen
  <2>1. loop'.fuer = loop.fuer /\ loop.fuer # Keiner OBVIOUS
  <2>2. /\ Gesamt(queue, loop.fuer.von) < QUEUE_MAX_JE_ABSENDER
        /\ Bei(queue, loop.fuer.ziel) < QUEUE_MAX_PER_USER
        /\ Paar(queue, loop.fuer.ziel, loop.fuer.von) < QUEUE_MAX_JE_PAAR
        /\ Len(queue) < QUEUE_MAX_TOTAL + verlust + doppelt
    BY <2>1 DEF IInv, PlatzVersprochen
  <2> QED BY <1>2, <2>1, <2>2, Grenzen
<1>5. Marken' BY DEF IInv, Marken
<1> QED BY <1>1, <1>3, <1>4, <1>5

LEMMA LoopLiestHaelt == ASSUME IInv, LoopLiest PROVE IInv'
<1>1. /\ loop \in [ph : {"frei", "zaehlen", "schreiben", "einfuegen"}, delta : Int,
                   gelesen : Nat, fuer : NeueZeile \cup {Keiner}]
      /\ queueZeilen \in Nat /\ loop.ph = "zaehlen"
      /\ loop' = [loop EXCEPT !.ph = "schreiben", !.gelesen = queueZeilen]
      /\ UNCHANGED <<queue, queueZeilen, schwerster, thread, rueckstand, verdraengt, verlust, doppelt>>
  BY DEF LoopLiest, IInv, Faeden, geschichte
<1>2. /\ loop' \in [ph : {"frei", "zaehlen", "schreiben", "einfuegen"}, delta : Int,
                    gelesen : Nat, fuer : NeueZeile \cup {Keiner}]
      /\ loop'.ph = "schreiben" /\ loop'.gelesen = queueZeilen
      /\ loop'.delta = loop.delta /\ loop'.fuer = loop.fuer
  BY <1>1
<1>3. Faeden' BY <1>1, <1>2 DEF IInv, Faeden
<1>4. VerlustJeVerdraengung' BY <1>1 DEF IInv, VerlustJeVerdraengung
<1>5. verlust' \in Nat /\ verlust' >= verlust BY <1>1 DEF IInv, Faeden
<1>6. DeckelHalten' /\ DachHaelt' /\ PlatzVersprochen' /\ Marken' BY <1>1, <1>2, <1>5, TabelleSteht
<1>7. Offen' = Offen BY <1>1, <1>2 DEF Offen
<1>8. ZaehlerDeckt' BY <1>1, <1>2, <1>7 DEF IInv, ZaehlerDeckt
<1>9. NichtZuWenigGelesen' BY <1>1, <1>2 DEF NichtZuWenigGelesen
<1> QED BY <1>3, <1>4, <1>6, <1>8, <1>9 DEF IInv

LEMMA LoopSchreibtHaelt == ASSUME IInv, LoopSchreibt PROVE IInv'
<1>1. /\ loop \in [ph : {"frei", "zaehlen", "schreiben", "einfuegen"}, delta : Int,
                   gelesen : Nat, fuer : NeueZeile \cup {Keiner}]
      /\ queueZeilen \in Nat /\ loop.ph = "schreiben" /\ loop.delta <= 1
      /\ thread \in [ph : {"frei", "zaehlen", "schreiben"}, delta : Int,
                     gelesen : Nat, fuer : {Keiner}]
      /\ loop.gelesen >= queueZeilen /\ verlust \in Nat /\ doppelt \in Nat /\ queue \in Seq(Zeile)
  BY DEF LoopSchreibt, IInv, Faeden, NichtZuWenigGelesen
<1>2. /\ queueZeilen' = Neu(loop.gelesen, loop.delta)
      /\ UNCHANGED <<queue, schwerster, thread, rueckstand, verdraengt, verlust, doppelt>>
  BY DEF LoopSchreibt, geschichte
<1>3. PICK m \in Nat : m = queueZeilen'
  BY <1>1, <1>2, NeuIst
<1>4. m >= loop.gelesen + loop.delta BY <1>1, <1>2, <1>3, NeuIst
<1>5. /\ loop' \in [ph : {"frei", "zaehlen", "schreiben", "einfuegen"}, delta : Int,
                    gelesen : Nat, fuer : NeueZeile \cup {Keiner}]
      /\ loop'.ph \in {"frei", "einfuegen"} /\ loop'.delta = 0
      /\ loop'.fuer \in {loop.fuer, Keiner}
      /\ loop'.ph = "frei" => loop'.fuer = Keiner
      /\ loop'.ph = "einfuegen" => loop'.fuer # Keiner
  <2>1. PICK r : r = Ruht OBVIOUS
  <2>2. r = [ph |-> "frei", delta |-> 0, gelesen |-> 0, fuer |-> Keiner] BY <2>1 DEF Ruht
  <2>3. CASE loop.fuer = Keiner
    <3>1. loop' = r BY <2>1, <2>3 DEF LoopSchreibt
    <3> QED BY <2>2, <3>1
  <2>4. CASE loop.fuer # Keiner
    <3>1. loop' = [r EXCEPT !.ph = "einfuegen", !.fuer = loop.fuer]
      BY <2>1, <2>4 DEF LoopSchreibt
    <3>2. loop' = [ph |-> "einfuegen", delta |-> 0, gelesen |-> 0, fuer |-> loop.fuer]
      BY <2>2, <3>1
    <3> QED BY <1>1, <2>4, <3>2
  <2> QED BY <2>3, <2>4
<1>6. Faeden' BY <1>2, <1>3, <1>5 DEF IInv, Faeden
<1>7. VerlustJeVerdraengung' BY <1>2 DEF IInv, VerlustJeVerdraengung
<1>8. verlust' \in Nat /\ verlust' >= verlust BY <1>1, <1>2
<1>9. DeckelHalten' /\ DachHaelt' /\ PlatzVersprochen' /\ Marken' BY <1>2, <1>5, <1>8, TabelleSteht
<1>10. Offen' = 0 /\ Offen = loop.delta BY <1>1, <1>5 DEF Offen
<1>11. PICK k \in Nat : k = Len(queue) BY <1>1
<1>12. ZaehlerDeckt'
  <2>1. CASE thread.ph = "schreiben"
    <3>1. queueZeilen = thread.gelesen BY <1>1, <2>1 DEF IInv, ZaehlerDeckt
    <3>2. k <= thread.gelesen + loop.delta + thread.delta + verlust + doppelt
      BY <1>1, <1>10, <1>11, <2>1, <3>1 DEF IInv, ZaehlerDeckt
    <3>3. k <= thread.gelesen + 0 + thread.delta + verlust + doppelt
                 + (IF m > thread.gelesen THEN 1 ELSE 0)
      <4>1. CASE loop.delta <= 0 BY <1>1, <3>2, <4>1
      <4>2. CASE loop.delta = 1
        <5>1. m > thread.gelesen BY <1>1, <1>4, <3>1, <4>2
        <5> QED BY <1>1, <3>2, <4>2, <5>1
      <4> QED BY <1>1, <4>1, <4>2
    <3> QED BY <1>2, <1>3, <1>5, <1>10, <1>11, <2>1, <3>3 DEF ZaehlerDeckt
  <2>2. CASE thread.ph # "schreiben"
    <3>1. k <= queueZeilen + loop.delta + thread.delta + verlust + doppelt
      BY <1>10, <1>11, <2>2 DEF IInv, ZaehlerDeckt
    <3>2. k <= m + 0 + thread.delta + verlust + doppelt BY <1>1, <1>4, <3>1
    <3> QED BY <1>2, <1>3, <1>10, <1>11, <2>2, <3>2 DEF ZaehlerDeckt
  <2> QED BY <2>1, <2>2
<1>13. NichtZuWenigGelesen' BY <1>5 DEF NichtZuWenigGelesen
<1> QED BY <1>6, <1>7, <1>9, <1>12, <1>13 DEF IInv

LEMMA ThreadLiestHaelt == ASSUME IInv, ThreadLiest PROVE IInv'
<1>1. /\ thread \in [ph : {"frei", "zaehlen", "schreiben"}, delta : Int,
                     gelesen : Nat, fuer : {Keiner}]
      /\ queueZeilen \in Nat /\ thread.ph = "zaehlen"
      /\ thread' = [thread EXCEPT !.ph = "schreiben", !.gelesen = queueZeilen]
      /\ UNCHANGED <<queue, queueZeilen, schwerster, loop, rueckstand, verdraengt, verlust, doppelt>>
  BY DEF ThreadLiest, IInv, Faeden, geschichte
<1>2. /\ thread' \in [ph : {"frei", "zaehlen", "schreiben"}, delta : Int,
                      gelesen : Nat, fuer : {Keiner}]
      /\ thread'.ph = "schreiben" /\ thread'.gelesen = queueZeilen
      /\ thread'.delta = thread.delta
  BY <1>1
<1>3. Faeden' BY <1>1, <1>2 DEF IInv, Faeden
<1>4. VerlustJeVerdraengung' BY <1>1, <1>2 DEF IInv, VerlustJeVerdraengung
<1>5. verlust' \in Nat /\ verlust' >= verlust BY <1>1 DEF IInv, Faeden
<1>6. DeckelHalten' /\ DachHaelt' /\ PlatzVersprochen' /\ Marken' BY <1>1, <1>5, TabelleSteht
<1>7. ZaehlerDeckt'
  <2>1. Offen' = Offen BY <1>1 DEF Offen
  <2>2. Len(queue) <= queueZeilen + Offen + thread.delta + verlust + doppelt
    BY <1>1 DEF IInv, ZaehlerDeckt
  <2>3. /\ Offen \in Int /\ thread.delta \in Int /\ verlust \in Nat /\ doppelt \in Nat /\ Len(queue) \in Nat
    BY DEF Offen, IInv, Faeden
  <2>4. Len(queue) <= queueZeilen + Offen + thread.delta + verlust + doppelt + 0 BY <1>1, <2>2, <2>3
  <2> QED BY <1>1, <1>2, <2>1, <2>4 DEF ZaehlerDeckt
<1>8. NichtZuWenigGelesen' BY <1>1 DEF IInv, NichtZuWenigGelesen
<1> QED BY <1>3, <1>4, <1>6, <1>7, <1>8 DEF IInv

LEMMA ThreadSchreibtHaelt == ASSUME IInv, ThreadSchreibt PROVE IInv'
<1>1. /\ loop \in [ph : {"frei", "zaehlen", "schreiben", "einfuegen"}, delta : Int,
                   gelesen : Nat, fuer : NeueZeile \cup {Keiner}]
      /\ thread \in [ph : {"frei", "zaehlen", "schreiben"}, delta : Int,
                     gelesen : Nat, fuer : {Keiner}]
      /\ thread.ph = "schreiben" /\ thread.delta <= 0
      /\ queueZeilen \in Nat /\ verlust \in Nat /\ doppelt \in Nat /\ verdraengt \in Nat /\ queue \in Seq(Zeile)
  BY DEF ThreadSchreibt, IInv, Faeden
<1>2. /\ queueZeilen' = Neu(thread.gelesen, thread.delta) /\ thread' = Ruht
      /\ verlust' = IF queueZeilen > thread.gelesen THEN verlust + 1 ELSE verlust
      /\ UNCHANGED <<queue, schwerster, loop, rueckstand, verdraengt, doppelt>>
  BY DEF ThreadSchreibt
<1>3. PICK m \in Nat : m = queueZeilen' BY <1>1, <1>2, NeuIst
<1>4. m >= thread.gelesen + thread.delta /\ m <= thread.gelesen BY <1>1, <1>2, <1>3, NeuIst
<1>5. PICK v \in Nat : v = verlust' BY <1>1, <1>2
<1>6. v = verlust + (IF queueZeilen > thread.gelesen THEN 1 ELSE 0) BY <1>1, <1>2, <1>5
<1>7. thread' = [ph |-> "frei", delta |-> 0, gelesen |-> 0, fuer |-> Keiner]
  BY <1>2 DEF Ruht
<1>8. Faeden' BY <1>1, <1>2, <1>3, <1>5, <1>7 DEF IInv, Faeden
<1>9. VerlustJeVerdraengung'
  <2>1. verlust + 1 <= verdraengt BY <1>1 DEF IInv, VerlustJeVerdraengung
  <2>2. v + 0 <= verdraengt BY <1>1, <1>6, <2>1
  <2> QED BY <1>2, <1>5, <1>7, <2>2 DEF VerlustJeVerdraengung
<1>10. verlust' \in Nat /\ verlust' >= verlust BY <1>1, <1>5, <1>6
<1>11. DeckelHalten' /\ DachHaelt' /\ PlatzVersprochen' /\ Marken' BY <1>2, <1>10, TabelleSteht
<1>12. PICK k \in Nat : k = Len(queue) BY <1>1
<1>13. PICK o \in Int : o = Offen BY <1>1 DEF Offen
<1>14. ZaehlerDeckt'
  <2>1. k <= thread.gelesen + o + thread.delta + verlust + doppelt
               + (IF queueZeilen > thread.gelesen THEN 1 ELSE 0)
    BY <1>1, <1>12, <1>13 DEF IInv, ZaehlerDeckt
  <2>2. k <= m + o + 0 + v + doppelt BY <1>1, <1>4, <1>6, <2>1
  <2>3. Offen' = o BY <1>2, <1>13 DEF Offen
  <2> QED BY <1>2, <1>3, <1>5, <1>7, <1>12, <2>2, <2>3 DEF ZaehlerDeckt
<1>15. NichtZuWenigGelesen'
  <2>1. ASSUME loop.ph = "schreiben" PROVE loop.gelesen >= m
    <3>1. queueZeilen = thread.gelesen BY <1>1, <2>1 DEF IInv, ZaehlerDeckt
    <3>2. loop.gelesen >= queueZeilen BY <2>1 DEF IInv, NichtZuWenigGelesen
    <3> QED BY <1>1, <1>4, <3>1, <3>2
  <2> QED BY <1>2, <1>3, <2>1 DEF NichtZuWenigGelesen
<1> QED BY <1>8, <1>9, <1>11, <1>14, <1>15 DEF IInv

----------------------------------------------------------------------------
(* Rows that leave for good. *)

LEMMA TabelleSchrumpft ==
  ASSUME IInv, queue' \in Seq(Zeile), Len(queue') <= Len(queue), NichtMehr(queue', queue),
         \A G : Zahl(queue', G) <= Zahl(queue, G),
         UNCHANGED <<loop, rueckstand, verlust, doppelt>>
  PROVE  DeckelHalten' /\ DachHaelt' /\ PlatzVersprochen' /\ Marken'
<1>1. queue \in Seq(Zeile) /\ verlust \in Nat /\ doppelt \in Nat /\ Len(queue) \in Nat /\ Len(queue') \in Nat
  BY DEF IInv, Faeden
<1>2. DeckelHalten' BY <1>1, DeckelBleiben DEF IInv
<1>3. DachHaelt' BY <1>1, Grenzen DEF IInv, DachHaelt
<1>4. \A k, n, c \in Nat : k <= n /\ n < c => k < c OBVIOUS
<1>5. /\ \A g, a : Gesamt(queue, a) \in Nat /\ Bei(queue, g) \in Nat /\ Paar(queue, g, a) \in Nat
      /\ \A g, a : Gesamt(queue', a) \in Nat /\ Bei(queue', g) \in Nat
                   /\ Paar(queue', g, a) \in Nat
  BY <1>1, Zaehlbar
<1>6. PICK z : z = loop.fuer OBVIOUS
<1>7. ASSUME z # Keiner
      PROVE  /\ Gesamt(queue', z.von) < QUEUE_MAX_JE_ABSENDER
             /\ Bei(queue', z.ziel) < QUEUE_MAX_PER_USER
             /\ Paar(queue', z.ziel, z.von) < QUEUE_MAX_JE_PAAR
             /\ Len(queue') < QUEUE_MAX_TOTAL + verlust + doppelt
  <2>1. /\ Gesamt(queue, z.von) < QUEUE_MAX_JE_ABSENDER
        /\ Bei(queue, z.ziel) < QUEUE_MAX_PER_USER
        /\ Paar(queue, z.ziel, z.von) < QUEUE_MAX_JE_PAAR
        /\ Len(queue) < QUEUE_MAX_TOTAL + verlust + doppelt
    BY <1>6, <1>7 DEF IInv, PlatzVersprochen
  <2>2. /\ Gesamt(queue', z.von) <= Gesamt(queue, z.von)
        /\ Bei(queue', z.ziel) <= Bei(queue, z.ziel)
        /\ Paar(queue', z.ziel, z.von) <= Paar(queue, z.ziel, z.von)
    BY DEF NichtMehr
  <2>3. Gesamt(queue', z.von) < QUEUE_MAX_JE_ABSENDER BY <1>4, <1>5, <2>1, <2>2, Grenzen
  <2>4. Bei(queue', z.ziel) < QUEUE_MAX_PER_USER BY <1>4, <1>5, <2>1, <2>2, Grenzen
  <2>5. Paar(queue', z.ziel, z.von) < QUEUE_MAX_JE_PAAR BY <1>4, <1>5, <2>1, <2>2, Grenzen
  <2>6. Len(queue') < QUEUE_MAX_TOTAL + verlust + doppelt BY <1>1, <2>1, Grenzen
  <2> QED BY <2>3, <2>4, <2>5, <2>6
<1>8. PlatzVersprochen' BY <1>6, <1>7 DEF PlatzVersprochen
<1>9. Marken' BY MarkenBleiben
<1> QED BY <1>2, <1>3, <1>8, <1>9

LEMMA OhneBleibt ==
  ASSUME IInv, NEW S \in SUBSET DOMAIN queue, queue' = Ohne(S)
  PROVE  /\ queue' \in Seq(Zeile) /\ NichtMehr(queue', queue)
         /\ Cardinality(S) \in Nat /\ Len(queue') = Len(queue) - Cardinality(S)
         /\ Len(queue) \in Nat /\ Len(queue') \in Nat
         /\ \A G : Zahl(queue', G) <= Zahl(queue, G)
<1>1. queue \in Seq(Zeile) BY DEF IInv, Faeden
<1>2. PICK p : p = Ohne(S) OBVIOUS
<1>3. /\ p \in Seq(Zeile) /\ Len(p) = Len(queue) - Cardinality(S)
      /\ Cardinality(S) \in Nat /\ Len(p) \in Nat
      /\ \A g, a : /\ Gesamt(p, a) <= Gesamt(queue, a) /\ Bei(p, g) <= Bei(queue, g)
                   /\ Paar(p, g, a) <= Paar(queue, g, a)
      /\ \A G : Zahl(p, G) <= Zahl(queue, G)
  BY <1>1, <1>2, OhneZaehlt
<1>4. NichtMehr(p, queue) BY <1>3 DEF NichtMehr
<1> QED BY <1>1, <1>2, <1>3, <1>4

LEMMA LoescheHaelt == ASSUME IInv, NEW g \in Geraet, Loesche(g) PROVE IInv'
<1>1. PICK S \in SUBSET An(g) :
         queue' = Ohne(S) /\ loop' = Zaehlt(-Cardinality(S), Keiner)
  BY DEF Loesche
<1>2. S \in SUBSET DOMAIN queue BY DEF An, Treffer
<1>3. /\ Beginn /\ UNCHANGED <<queueZeilen, schwerster, thread, rueckstand, verdraengt, verlust, doppelt>>
  BY DEF Loesche, Beginn, geschichte
<1>4. PICK w \in Nat : w = Cardinality(S) BY <1>1, <1>2, OhneBleibt
<1>5. queue' \in Seq(Zeile) /\ NichtMehr(queue', queue) /\ Len(queue') = Len(queue) - w
  BY <1>1, <1>2, <1>4, OhneBleibt
<1>6. loop'.fuer = Keiner BY <1>1, ZaehltFelder
<1>7. PlatzVersprochen' BY <1>6 DEF PlatzVersprochen
<1>8. schwerster' = Keiner \/ schwerster' \in [von : Absender, n : Nat]
  BY <1>3 DEF IInv, Faeden
<1>9. Marken'
  <2>1. \A l \in Leitung : Zahl(queue', VonGelesen(l)) <= Zahl(queue, VonGelesen(l))
    BY <1>1, <1>2, OhneBleibt
  <2> QED BY <1>3, <1>5, <2>1, MarkenBleiben
<1> QED BY <1>1, <1>3, <1>4, <1>5, <1>7, <1>8, <1>9, LoopBegann

LEMMA AufraeumenHaelt == ASSUME IInv, Aufraeumen PROVE IInv'
<1>1. PICK n \in 0 .. Len(queue), G \in SUBSET Geraet :
         queue' = Ohne(1 .. n \cup UNION {An(g) : g \in G})
  BY DEF Aufraeumen
<1>2. PICK S : S = 1 .. n \cup UNION {An(g) : g \in G} OBVIOUS
<1>3. queue \in Seq(Zeile) /\ verlust \in Nat /\ doppelt \in Nat BY DEF IInv, Faeden
<1>4. S \in SUBSET DOMAIN queue
  <2>1. DOMAIN queue = 1 .. Len(queue) /\ Len(queue) \in Nat BY <1>3
  <2>2. \A g \in G : An(g) \subseteq DOMAIN queue BY DEF An, Treffer
  <2>3. 1 .. n \subseteq DOMAIN queue BY <2>1
  <2> QED BY <1>2, <2>2, <2>3
<1>5. queue' = Ohne(S) BY <1>1, <1>2
<1>6. /\ queue' \in Seq(Zeile) /\ NichtMehr(queue', queue) /\ Len(queue') \in Nat
      /\ Len(queue') <= Len(queue) /\ \A Z : Zahl(queue', Z) <= Zahl(queue, Z)
  BY <1>4, <1>5, OhneBleibt
<1>7. /\ queueZeilen' = Len(queue') /\ loop.ph = "frei" /\ thread.ph = "frei"
      /\ UNCHANGED <<schwerster, loop, thread, rueckstand, verdraengt, verlust, doppelt>>
  BY DEF Aufraeumen, SperreFrei, geschichte
<1>8. Faeden' BY <1>6, <1>7 DEF IInv, Faeden
<1>9. VerlustJeVerdraengung' BY <1>7 DEF IInv, VerlustJeVerdraengung
<1>10. DeckelHalten' /\ DachHaelt' /\ PlatzVersprochen' /\ Marken' BY <1>6, <1>7, TabelleSchrumpft
<1>11. ZaehlerDeckt'
  <2>1. Offen' = 0 /\ thread'.delta = 0 BY <1>7 DEF Offen, IInv, Faeden
  <2>2. Len(queue') <= queueZeilen' + Offen' + thread'.delta + verlust' + doppelt'
    BY <1>3, <1>6, <1>7, <2>1
  <2> QED BY <1>7, <2>2 DEF ZaehlerDeckt
<1>12. NichtZuWenigGelesen' BY <1>7 DEF NichtZuWenigGelesen
<1> QED BY <1>8, <1>9, <1>10, <1>11, <1>12 DEF IInv

LEMMA ThreadVerdraengtHaelt == ASSUME IInv, NEW g \in Geraet, ThreadVerdraengt(g) PROVE IInv'
<1>1. An(g) \in SUBSET DOMAIN queue BY DEF An, Treffer
<1>2. PICK w \in Nat : w = Cardinality(An(g)) BY <1>1, OhneBleibt DEF ThreadVerdraengt
<1>3. /\ queue' \in Seq(Zeile) /\ NichtMehr(queue', queue) /\ Len(queue') \in Nat
      /\ \A Z : Zahl(queue', Z) <= Zahl(queue, Z)
      /\ Len(queue) \in Nat /\ Len(queue') = Len(queue) - w
  BY <1>1, <1>2, OhneBleibt DEF ThreadVerdraengt
<1>4. /\ thread.ph = "frei" /\ verdraengt < VERDRAENGT_MAX /\ verdraengt' = verdraengt + 1
      /\ thread' = Zaehlt(-w, Keiner) 
      /\ UNCHANGED <<queueZeilen, schwerster, loop, rueckstand, verlust, doppelt>>
  BY <1>2 DEF ThreadVerdraengt, SperreFrei
<1>5. /\ queueZeilen \in Nat /\ verlust \in Nat /\ doppelt \in Nat /\ verdraengt \in 0 .. VERDRAENGT_MAX
      /\ thread.delta = 0
  BY <1>4 DEF IInv, Faeden
<1>6. PICK d \in Int : d = -w /\ d <= 0 BY <1>2
<1>7. thread' = [ph |-> "zaehlen", delta |-> d, gelesen |-> 0, fuer |-> Keiner]
  BY <1>4, <1>6, ZaehltFelder
<1>8. verdraengt' \in 0 .. VERDRAENGT_MAX BY <1>4, <1>5, Grenzen
<1>9. Faeden' BY <1>3, <1>4, <1>6, <1>7, <1>8 DEF IInv, Faeden
<1>10. VerlustJeVerdraengung'
  <2>1. verlust + 0 <= verdraengt BY <1>4 DEF IInv, VerlustJeVerdraengung
  <2>2. verlust + 1 <= verdraengt + 1 BY <1>5, <2>1
  <2> QED BY <1>4, <1>7, <2>2 DEF VerlustJeVerdraengung
<1>11. Len(queue') <= Len(queue) BY <1>3
<1>12. DeckelHalten' /\ DachHaelt' /\ PlatzVersprochen' /\ Marken'
  BY <1>3, <1>4, <1>11, TabelleSchrumpft
<1>13. ZaehlerDeckt'
  <2>1. PICK o \in Int : o = Offen BY DEF Offen, IInv, Faeden
  <2>2. Len(queue) <= queueZeilen + o + 0 + verlust + doppelt
    BY <1>4, <1>5, <2>1 DEF IInv, ZaehlerDeckt
  <2>3. Len(queue') <= queueZeilen + o + d + verlust + doppelt BY <1>3, <1>5, <1>6, <2>2
  <2>4. Offen' = o BY <1>4, <2>1 DEF Offen
  <2> QED BY <1>4, <1>7, <2>3, <2>4 DEF ZaehlerDeckt
<1>14. NichtZuWenigGelesen' BY <1>4 DEF IInv, NichtZuWenigGelesen
<1> QED BY <1>9, <1>10, <1>12, <1>13, <1>14 DEF IInv

----------------------------------------------------------------------------
(* The backlog of a client without receipts. *)

(* Marks alone change no count of senders and devices. *)
LEMMA NurMarken ==
  ASSUME NEW q \in Seq(Zeile), NEW p \in Seq(Zeile), Len(p) = Len(q),
         \A i \in DOMAIN q : p[i].ziel = q[i].ziel /\ p[i].von = q[i].von
  PROVE  NichtMehr(p, q)
<1>1. DOMAIN p = DOMAIN q OBVIOUS
<1>2. \A i \in DOMAIN q : p[i] \in Zeile /\ q[i] \in Zeile BY <1>1
<1>3. ASSUME NEW g, NEW a
      PROVE  /\ Treffer(p, Von(a)) = Treffer(q, Von(a))
             /\ Treffer(p, Nach(g)) = Treffer(q, Nach(g))
             /\ Treffer(p, VonNach(g, a)) = Treffer(q, VonNach(g, a))
  BY <1>1, <1>2 DEF Treffer, Von, Nach, VonNach
<1>4. ASSUME NEW g, NEW a
      PROVE  Gesamt(p, a) = Gesamt(q, a) /\ Bei(p, g) = Bei(q, g) /\ Paar(p, g, a) = Paar(q, g, a)
  BY <1>3 DEF Gesamt, Bei, Paar, Zahl
<1>5. \A g, a : Gesamt(q, a) \in Nat /\ Bei(q, g) \in Nat /\ Paar(q, g, a) \in Nat BY Zaehlbar
<1> QED BY <1>4, <1>5 DEF NichtMehr

(* Nothing but marks has changed: the loop rests, and the table counts the *)
(* same.                                                                   *)
LEMMA GemerktHaelt ==
  ASSUME IInv, loop.ph = "frei", queue' \in Seq(Zeile), Len(queue') = Len(queue),
         \A i \in DOMAIN queue : queue'[i].ziel = queue[i].ziel /\ queue'[i].von = queue[i].von,
         rueckstand' \in [Leitung -> Nat], Marken',
         UNCHANGED <<queueZeilen, schwerster, loop, thread, verdraengt, verlust, doppelt>>
  PROVE  IInv'
<1>1. queue \in Seq(Zeile) /\ Len(queue) \in Nat /\ loop.fuer = Keiner BY DEF IInv, Faeden
<1>2. Faeden' BY DEF IInv, Faeden
<1>3. VerlustJeVerdraengung' BY DEF IInv, VerlustJeVerdraengung
<1>4. DeckelHalten' BY <1>1, NurMarken, DeckelBleiben DEF IInv
<1>5. DachHaelt' BY DEF IInv, DachHaelt
<1>6. PlatzVersprochen' BY <1>1 DEF PlatzVersprochen
<1>7. Offen' = Offen BY DEF Offen
<1>8. ZaehlerDeckt' BY <1>7 DEF IInv, ZaehlerDeckt
<1>9. NichtZuWenigGelesen' BY DEF IInv, NichtZuWenigGelesen
<1> QED BY <1>2, <1>3, <1>4, <1>5, <1>6, <1>8, <1>9 DEF IInv

(* A table in which every row has been given marks of its own. *)
MitMarken(q, m) == [i \in DOMAIN q |-> [q[i] EXCEPT !.bei = m[i]]]

LEMMA Bemalt ==
  ASSUME NEW q \in Seq(Zeile), NEW m \in [DOMAIN q -> SUBSET Leitung],
         NEW p, p = MitMarken(q, m)
  PROVE  /\ p \in Seq(Zeile) /\ Len(p) = Len(q) /\ DOMAIN p = DOMAIN q
         /\ \A i \in DOMAIN q : /\ p[i].ziel = q[i].ziel /\ p[i].von = q[i].von
                                /\ p[i].bei = m[i]
         /\ \A l \in Leitung : Treffer(p, VonGelesen(l)) = {i \in DOMAIN q : l \in m[i]}
<1>1. DOMAIN q = 1 .. Len(q) /\ Len(q) \in Nat OBVIOUS
<1>2. ASSUME NEW i \in DOMAIN q
      PROVE  /\ p[i] \in Zeile /\ p[i].ziel = q[i].ziel /\ p[i].von = q[i].von
             /\ p[i].bei = m[i]
  <2>1. PICK z : z = q[i] OBVIOUS
  <2>2. z \in [ziel : Geraet, von : Absender, bei : SUBSET Leitung]
    <3>1. q[i] \in Zeile OBVIOUS
    <3> QED BY <2>1, <3>1 DEF Zeile
  <2>3. p[i] = [z EXCEPT !.bei = m[i]] BY <2>1 DEF MitMarken
  <2>4. [z EXCEPT !.bei = m[i]] \in [ziel : Geraet, von : Absender, bei : SUBSET Leitung]
    BY <2>2
  <2> QED BY <2>1, <2>2, <2>3, <2>4 DEF Zeile
<1>3. p \in [1 .. Len(q) -> Zeile] BY <1>1, <1>2 DEF MitMarken
<1>4. p \in Seq(Zeile) /\ Len(p) = Len(q) /\ DOMAIN p = DOMAIN q BY <1>1, <1>3
<1>5. \A l \in Leitung : Treffer(p, VonGelesen(l)) = {i \in DOMAIN q : l \in m[i]}
  BY <1>2, <1>4 DEF Treffer, VonGelesen
<1> QED BY <1>2, <1>4, <1>5

(* The marks a row has now. *)
LEMMA BemaltJetzt ==
  ASSUME NEW q \in Seq(Zeile)
  PROVE  /\ \A i \in DOMAIN q : q[i].bei \in SUBSET Leitung
         /\ \A l \in Leitung : Treffer(q, VonGelesen(l)) = {i \in DOMAIN q : l \in q[i].bei}
<1>1. \A i \in DOMAIN q : q[i] \in Zeile OBVIOUS
<1> QED BY <1>1 DEF Zeile, Treffer, VonGelesen

LEMMA RueckstandLesenHaelt ==
  ASSUME IInv, NEW l \in Leitung, NEW g \in Geraet, RueckstandLesen(l, g) PROVE IInv'
<1>1. /\ queue \in Seq(Zeile) /\ rueckstand \in [Leitung -> Nat] /\ loop.ph = "frei"
      /\ rueckstand[l] = 0 /\ rueckstand' = [rueckstand EXCEPT ![l] = Bei(queue, g)]
      /\ UNCHANGED <<queueZeilen, schwerster, loop, thread, verdraengt, verlust, doppelt>>
  BY DEF RueckstandLesen, geschichte, IInv, Faeden
<1>2. Bei(queue, g) \in Nat BY <1>1, Zaehlbar
<1> DEFINE m == [i \in DOMAIN queue |->
                   IF i \in An(g) THEN queue[i].bei \cup {l} ELSE queue[i].bei]
<1>3. m \in [DOMAIN queue -> SUBSET Leitung] BY <1>1, BemaltJetzt
<1>4. queue' = MitMarken(queue, m)
  <2>1. ASSUME NEW i \in DOMAIN queue
        PROVE  (IF i \in An(g) THEN [queue[i] EXCEPT !.bei = @ \cup {l}] ELSE queue[i])
                 = [queue[i] EXCEPT !.bei = m[i]]
    <3>1. PICK z : z = queue[i] OBVIOUS
    <3>2. z \in [ziel : Geraet, von : Absender, bei : SUBSET Leitung]
      <4>1. queue[i] \in Zeile BY <1>1
      <4> QED BY <3>1, <4>1 DEF Zeile
    <3>3. CASE i \in An(g) BY <3>1, <3>3
    <3>4. CASE i \notin An(g)
      <4>1. [z EXCEPT !.bei = z.bei] = z BY <3>2
      <4> QED BY <3>1, <3>4, <4>1
    <3> QED BY <3>3, <3>4
  <2> QED BY <2>1 DEF RueckstandLesen, MitMarken
<1> HIDE DEF m
<1>5. /\ queue' \in Seq(Zeile) /\ Len(queue') = Len(queue)
      /\ \A i \in DOMAIN queue : queue'[i].ziel = queue[i].ziel /\ queue'[i].von = queue[i].von
      /\ \A k \in Leitung : Treffer(queue', VonGelesen(k)) = {i \in DOMAIN queue : k \in m[i]}
  BY <1>1, <1>3, <1>4, Bemalt
<1>6. rueckstand' \in [Leitung -> Nat] BY <1>1, <1>2
<1>7. Marken'
  <2> SUFFICES ASSUME NEW k \in Leitung PROVE Zahl(queue', VonGelesen(k)) <= rueckstand'[k]
    BY DEF Marken, VonGelesen
  <2>1. Zahl(queue, VonGelesen(k)) <= rueckstand[k] BY DEF IInv, Marken
  <2>2. Zahl(queue, VonGelesen(k)) \in Nat /\ rueckstand[k] \in Nat BY <1>1, TrefferZaehlbar
  <2>3. Treffer(queue, VonGelesen(k)) = {i \in DOMAIN queue : k \in queue[i].bei}
    BY <1>1, BemaltJetzt
  <2>4. CASE k = l
    <3>1. Treffer(queue, VonGelesen(l)) = {} BY <1>1, <2>1, <2>2, <2>4, TrefferZaehlbar
    <3>2. \A i \in DOMAIN queue : l \in m[i] <=> i \in An(g)
      BY <2>3, <2>4, <3>1 DEF m
    <3>3. An(g) \subseteq DOMAIN queue BY DEF An, Treffer
    <3>4. Treffer(queue', VonGelesen(l)) = An(g) BY <1>5, <3>2, <3>3
    <3>5. Zahl(queue', VonGelesen(l)) = Bei(queue, g) BY <3>4 DEF Zahl, Bei, An
    <3> QED BY <1>1, <1>2, <2>4, <3>5
  <2>5. CASE k # l
    <3>1. \A i \in DOMAIN queue : k \in m[i] <=> k \in queue[i].bei BY <2>5 DEF m
    <3>2. Treffer(queue', VonGelesen(k)) = Treffer(queue, VonGelesen(k)) BY <1>5, <2>3, <3>1
    <3>3. rueckstand'[k] = rueckstand[k] BY <1>1, <2>5
    <3> QED BY <2>1, <3>2, <3>3 DEF Zahl
  <2> QED BY <2>4, <2>5
<1> QED BY <1>1, <1>5, <1>6, <1>7, GemerktHaelt

(* Marks of L are dropped, and the backlogs of L with them. *)
LEMMA Vergisst ==
  ASSUME IInv, NEW L \in SUBSET Leitung, Vergessen(L), rueckstand' \in [Leitung -> Nat],
         \A l \in Leitung : l \in L \/ rueckstand'[l] = rueckstand[l]
  PROVE  /\ queue' \in Seq(Zeile) /\ Len(queue') = Len(queue) /\ Marken'
         /\ \A i \in DOMAIN queue : queue'[i].ziel = queue[i].ziel
                                    /\ queue'[i].von = queue[i].von
<1>1. queue \in Seq(Zeile) /\ rueckstand \in [Leitung -> Nat] BY DEF IInv, Faeden
<1> DEFINE m == [i \in DOMAIN queue |-> queue[i].bei \ L]
<1>2. m \in [DOMAIN queue -> SUBSET Leitung] BY <1>1, BemaltJetzt
<1>3. queue' = MitMarken(queue, m) BY DEF Vergessen, MitMarken
<1> HIDE DEF m
<1>4. /\ queue' \in Seq(Zeile) /\ Len(queue') = Len(queue)
      /\ \A i \in DOMAIN queue : queue'[i].ziel = queue[i].ziel /\ queue'[i].von = queue[i].von
      /\ \A k \in Leitung : Treffer(queue', VonGelesen(k)) = {i \in DOMAIN queue : k \in m[i]}
  BY <1>1, <1>2, <1>3, Bemalt
<1>5. Marken'
  <2> SUFFICES ASSUME NEW k \in Leitung PROVE Zahl(queue', VonGelesen(k)) <= rueckstand'[k]
    BY DEF Marken, VonGelesen
  <2>1. CASE k \in L
    <3>1. Treffer(queue', VonGelesen(k)) = {} BY <1>4, <2>1 DEF m
    <3>2. Zahl(queue', VonGelesen(k)) = 0 BY <3>1, FS_EmptySet DEF Zahl
    <3> QED BY <3>2
  <2>2. CASE k \notin L
    <3>1. Treffer(queue, VonGelesen(k)) = {i \in DOMAIN queue : k \in queue[i].bei}
      BY <1>1, BemaltJetzt
    <3>2. Treffer(queue', VonGelesen(k)) = Treffer(queue, VonGelesen(k))
      BY <1>4, <2>2, <3>1 DEF m
    <3>3. Zahl(queue, VonGelesen(k)) <= rueckstand[k] BY DEF IInv, Marken
    <3> QED BY <2>2, <3>2, <3>3 DEF Zahl
  <2> QED BY <2>1, <2>2
<1> QED BY <1>4, <1>5

LEMMA RueckstandAbrissHaelt ==
  ASSUME IInv, NEW l \in Leitung, RueckstandAbriss(l) PROVE IInv'
<1>1. /\ loop.ph = "frei" /\ Vergessen({l}) /\ rueckstand' = [rueckstand EXCEPT ![l] = 0]
      /\ UNCHANGED <<queueZeilen, schwerster, loop, thread, verdraengt, verlust, doppelt>>
      /\ rueckstand \in [Leitung -> Nat]
  BY DEF RueckstandAbriss, geschichte, IInv, Faeden
<1>2. /\ {l} \in SUBSET Leitung /\ rueckstand' \in [Leitung -> Nat]
      /\ \A k \in Leitung : k \in {l} \/ rueckstand'[k] = rueckstand[k]
  BY <1>1
<1> QED BY <1>1, <1>2, Vergisst, GemerktHaelt

LEMMA RueckstandGeloeschtHaelt ==
  ASSUME IInv, NEW l \in Leitung, RueckstandGeloescht(l) PROVE IInv'
<1>1. /\ Beginn /\ queue' = Ohne(NochDa(l)) /\ loop' = Zaehlt(-rueckstand[l], Keiner)
      /\ doppelt' = doppelt + (rueckstand[l] - Cardinality(NochDa(l)))
      /\ doppelt' <= DOPPELT_MAX /\ rueckstand' = [rueckstand EXCEPT ![l] = 0]
      /\ UNCHANGED <<queueZeilen, schwerster, thread, verdraengt, verlust>>
  BY DEF RueckstandGeloescht, Beginn
<1>2. NochDa(l) \in SUBSET DOMAIN queue BY DEF NochDa, Treffer
<1>3. /\ queue \in Seq(Zeile) /\ rueckstand \in [Leitung -> Nat]
      /\ schwerster' = Keiner \/ schwerster' \in [von : Absender, n : Nat]
  BY <1>1 DEF IInv, Faeden
<1>4. PICK w \in Nat : w = Cardinality(NochDa(l)) BY <1>1, <1>2, OhneBleibt
<1>5. /\ queue' \in Seq(Zeile) /\ NichtMehr(queue', queue) /\ Len(queue') = Len(queue) - w
      /\ \A G : Zahl(queue', G) <= Zahl(queue, G)
  BY <1>1, <1>2, <1>4, OhneBleibt
<1>6. PICK c \in Nat : c = rueckstand[l] BY <1>3
<1>7. w <= c BY <1>4, <1>6 DEF IInv, Marken, Zahl, NochDa
<1>8. loop' = Zaehlt(-c, Keiner) /\ doppelt' = doppelt + (c - w) BY <1>1, <1>4, <1>6
<1>9. loop'.fuer = Keiner BY <1>8, ZaehltFelder
<1>10. PlatzVersprochen' BY <1>9 DEF PlatzVersprochen
<1>11. rueckstand' \in [Leitung -> Nat] BY <1>1, <1>3
<1>12. Marken'
  <2> SUFFICES ASSUME NEW k \in Leitung PROVE Zahl(queue', VonGelesen(k)) <= rueckstand'[k]
    BY DEF Marken, VonGelesen
  <2>1. CASE k # l
    <3>1. Zahl(queue, VonGelesen(k)) <= rueckstand[k] /\ rueckstand'[k] = rueckstand[k]
      BY <1>1, <1>3, <2>1 DEF IInv, Marken
    <3>2. Zahl(queue', VonGelesen(k)) <= Zahl(queue, VonGelesen(k)) BY <1>5
    <3>3. /\ Zahl(queue', VonGelesen(k)) \in Nat /\ Zahl(queue, VonGelesen(k)) \in Nat
          /\ rueckstand[k] \in Nat
      BY <1>3, <1>5, TrefferZaehlbar
    <3> QED BY <3>1, <3>2, <3>3
  <2>2. CASE k = l
    <3>1. Zahl(queue', VonGelesen(l)) = 0
      BY <1>1, <1>3, OhneAlle DEF NochDa
    <3> QED BY <1>1, <1>3, <2>2, <3>1
  <2> QED BY <2>1, <2>2
<1> QED BY <1>1, <1>3, <1>5, <1>7, <1>8, <1>10, <1>11, <1>12, LoopZaehlt

----------------------------------------------------------------------------
LEMMA VerjaehrtHaelt == ASSUME IInv, Verjaehrt PROVE IInv'
BY DEF Verjaehrt, geschichte, IInv, Faeden, VerlustJeVerdraengung, Marken, DeckelHalten,
       DachHaelt, PlatzVersprochen, ZaehlerDeckt, Offen, NichtZuWenigGelesen

LEMMA NeustartHaelt == ASSUME IInv, Neustart PROVE IInv'
<1>1. /\ queueZeilen' = Len(queue) /\ schwerster' = Keiner /\ loop' = Ruht /\ thread' = Ruht
      /\ Vergessen(Leitung) /\ rueckstand' = [l \in Leitung |-> 0]
      /\ UNCHANGED <<verdraengt, verlust, doppelt>>
  BY DEF Neustart, geschichte
<1>2. Ruht = [ph |-> "frei", delta |-> 0, gelesen |-> 0, fuer |-> Keiner] BY DEF Ruht
<1>3. queue \in Seq(Zeile) /\ verlust \in Nat /\ doppelt \in Nat /\ verdraengt \in Nat /\ Len(queue) \in Nat
  BY DEF IInv, Faeden
<1>10. rueckstand' \in [Leitung -> Nat] BY <1>1
<1>11. /\ queue' \in Seq(Zeile) /\ Len(queue') = Len(queue) /\ Marken'
       /\ NichtMehr(queue', queue)
  BY <1>1, <1>3, <1>10, Vergisst, NurMarken
<1>4. Faeden' BY <1>1, <1>2, <1>3, <1>10, <1>11 DEF IInv, Faeden
<1>5. VerlustJeVerdraengung'
  <2>1. verlust + (IF thread.ph = "frei" THEN 0 ELSE 1) <= verdraengt
    BY DEF IInv, VerlustJeVerdraengung
  <2>2. verlust + 0 <= verdraengt BY <1>3, <2>1
  <2> QED BY <1>1, <1>2, <2>2 DEF VerlustJeVerdraengung
<1>6. DeckelHalten' BY <1>3, <1>11, DeckelBleiben DEF IInv
<1>7. DachHaelt' /\ PlatzVersprochen'
  BY <1>1, <1>2, <1>11 DEF IInv, DachHaelt, PlatzVersprochen
<1>8. ZaehlerDeckt'
  <2>1. Offen' = 0 /\ thread'.delta = 0 /\ thread'.ph = "frei" BY <1>1, <1>2 DEF Offen
  <2>2. Len(queue') <= queueZeilen' + Offen' + thread'.delta + verlust' + doppelt'
    BY <1>1, <1>3, <1>11, <2>1
  <2> QED BY <2>1, <2>2 DEF ZaehlerDeckt
<1>9. NichtZuWenigGelesen' BY <1>1, <1>2 DEF NichtZuWenigGelesen
<1> QED BY <1>4, <1>5, <1>6, <1>7, <1>8, <1>9, <1>11 DEF IInv

----------------------------------------------------------------------------
(* Theorems. *)

LEMMA Anfang == ASSUME Init PROVE IInv
<1>1. /\ queue = <<>> /\ queueZeilen = 0 /\ schwerster = Keiner
      /\ loop = Ruht /\ thread = Ruht /\ rueckstand = [l \in Leitung |-> 0]
      /\ verdraengt = 0 /\ verlust = 0 /\ doppelt = 0
  BY DEF Init
<1>2. Ruht = [ph |-> "frei", delta |-> 0, gelesen |-> 0, fuer |-> Keiner] BY DEF Ruht
<1>3. queue \in Seq(Zeile) /\ Len(queue) = 0 BY <1>1
<1>4. Faeden BY <1>1, <1>2, <1>3, Grenzen DEF Faeden
<1>5. VerlustJeVerdraengung BY <1>1, <1>2 DEF VerlustJeVerdraengung
<1>6. \A Z : Zahl(queue, Z) = 0
  <2>1. \A Z : Treffer(queue, Z) = {} BY <1>1 DEF Treffer
  <2> QED BY <2>1, FS_EmptySet DEF Zahl
<1>7. DeckelHalten BY <1>6, Grenzen DEF DeckelHalten, Gesamt, Bei, Paar
<1>8. DachHaelt BY <1>1, <1>3, Grenzen DEF DachHaelt
<1>9. PlatzVersprochen BY <1>1, <1>2 DEF PlatzVersprochen
<1>10. ZaehlerDeckt BY <1>1, <1>2, <1>3 DEF ZaehlerDeckt, Offen
<1>11. NichtZuWenigGelesen BY <1>1, <1>2 DEF NichtZuWenigGelesen
<1>12. Marken BY <1>1, <1>6 DEF Marken
<1> QED BY <1>4, <1>5, <1>7, <1>8, <1>9, <1>10, <1>11, <1>12 DEF IInv

LEMMA Schritt == ASSUME IInv, [Next]_vars PROVE IInv'
<1>1. ASSUME NEW z \in NeueZeile, SchaffePlatz(z) PROVE IInv'
  BY <1>1, EigeneAeltesteHaelt, AbsenderAbgewiesenHaelt, AmGeraetWeichenHaelt, AmDachHaelt,
     NochPlatzHaelt DEF SchaffePlatz
<1>2. ASSUME NEW g \in Geraet, Loesche(g) \/ ThreadVerdraengt(g) PROVE IInv'
  BY <1>2, LoescheHaelt, ThreadVerdraengtHaelt
<1>3. ASSUME UNCHANGED vars PROVE IInv'
  BY <1>3 DEF vars, geschichte, IInv, Faeden, VerlustJeVerdraengung, Marken, DeckelHalten,
              DachHaelt, PlatzVersprochen, ZaehlerDeckt, Offen, NichtZuWenigGelesen
<1>4. ASSUME NEW l \in Leitung,
             \/ \E g \in Geraet : RueckstandLesen(l, g)
             \/ RueckstandGeloescht(l) \/ RueckstandAbriss(l)
      PROVE  IInv'
  BY <1>4, RueckstandLesenHaelt, RueckstandGeloeschtHaelt, RueckstandAbrissHaelt
<1> QED BY <1>1, <1>2, <1>3, <1>4, EinfuegenHaelt, LoopLiestHaelt, LoopSchreibtHaelt,
           ThreadLiestHaelt, ThreadSchreibtHaelt, AufraeumenHaelt, VerjaehrtHaelt, NeustartHaelt
        DEF Next

(* The inductive invariant holds in every reachable state. *)
THEOREM Invariante == Spec => []IInv
BY Anfang, Schritt, PTL DEF Spec

(* The table, the counter and both threads keep their types, no thread     *)
(* tears more updates than it evicts devices, and no backlog deletes more  *)
(* rows than it counts off.                                                *)
THEOREM TypKorrekt == Spec => []TypeOK
<1>1. IInv => TypeOK
  <2> SUFFICES ASSUME IInv PROVE TypeOK OBVIOUS
  <2>1. /\ verlust \in Nat /\ doppelt \in Nat /\ verdraengt \in 0 .. VERDRAENGT_MAX /\ VERDRAENGT_MAX \in Nat
        /\ verlust + (IF thread.ph = "frei" THEN 0 ELSE 1) <= verdraengt
    BY Grenzen DEF IInv, Faeden, VerlustJeVerdraengung
  <2>2. verlust \in 0 .. verdraengt BY <2>1
  <2>3. doppelt \in 0 .. DOPPELT_MAX BY Grenzen DEF IInv, Faeden
  <2> QED BY <2>1, <2>2, <2>3 DEF IInv, Faeden, TypeOK
<1> QED BY <1>1, Invariante, PTL

(* None of the four caps is passed: the three that are counted hold in the *)
(* table, and the roof, which is only kept by a counter, gives way by no   *)
(* more than one row for each update of the loop that a thread tore and    *)
(* each row a backlog counted off that had already gone.                   *)
THEOREM KeinDeckelReisst == Spec => []AlleDeckelHalten
<1>1. IInv => AlleDeckelHalten BY DEF IInv, AlleDeckelHalten
<1> QED BY <1>1, Invariante, PTL

(* At a full device nobody loses a row to a sender who has as many there.  *)
THEOREM Grundsatz == Spec => GrundsatzAmGeraet
<1>1. ASSUME IInv, [Next]_vars
      PROVE  [\A a \in Absender :
                Weicht(a) /\ GeraetVoll(loop'.fuer)
                  => LET g == loop'.fuer.ziel
                     IN Paar(queue, g, loop'.fuer.von) < Paar(queue, g, a)]_vars
  <2> SUFFICES ASSUME NEW a \in Absender, Weicht(a), GeraetVoll(loop'.fuer)
               PROVE  Paar(queue, loop'.fuer.ziel, loop'.fuer.von)
                        < Paar(queue, loop'.fuer.ziel, a)
    OBVIOUS
  <2>1. /\ loop.ph = "frei" /\ loop.fuer = Keiner /\ loop'.fuer # Keiner /\ a # loop'.fuer.von
        /\ Gesamt(queue', a) < Gesamt(queue, a) /\ queue \in Seq(Zeile)
    BY <1>1 DEF Weicht, IInv, Faeden
  <2>2. ASSUME NEW i \in DOMAIN queue, queue' = RemoveAt(queue, i) PROVE queue[i].von = a
    <3>1. EineFehlt(queue', queue, queue[i]) BY <2>1, <2>2, NachWegnahme
    <3>2. Gesamt(queue', a) = Gesamt(queue, a) - (IF queue[i].von = a THEN 1 ELSE 0)
      BY <3>1 DEF EineFehlt
    <3>3. Gesamt(queue, a) \in Nat BY <2>1, Zaehlbar
    <3> QED BY <2>1, <3>2, <3>3
  <2>3. Gesamt(queue, a) \in Nat BY <2>1, Zaehlbar
  <2>4. queue' # queue BY <2>1, <2>3
  <2>5. PICK z \in NeueZeile : SchaffePlatz(z)
    <3>1. ~ UNCHANGED vars BY <2>4 DEF vars
    <3>2. ~ (Einfuegen \/ LoopLiest \/ LoopSchreibt)
      BY <2>1 DEF Einfuegen, LoopLiest, LoopSchreibt
    <3>3. ~ (ThreadLiest \/ ThreadSchreibt \/ Aufraeumen \/ Verjaehrt \/ Neustart)
      BY <2>1, <2>4 DEF ThreadLiest, ThreadSchreibt, Aufraeumen, Verjaehrt, Neustart, Ruht
    <3>4. ASSUME NEW g \in Geraet PROVE ~ (Loesche(g) \/ ThreadVerdraengt(g))
      <4>1. Loesche(g) => loop'.fuer = Keiner BY ZaehltFelder DEF Loesche
      <4>2. ThreadVerdraengt(g) => loop'.fuer = Keiner BY <2>1 DEF ThreadVerdraengt
      <4> QED BY <2>1, <4>1, <4>2
    <3>5. ASSUME NEW l \in Leitung
          PROVE  ~ (\/ \E g \in Geraet : RueckstandLesen(l, g)
                    \/ RueckstandGeloescht(l) \/ RueckstandAbriss(l))
      <4>1. (\E g \in Geraet : RueckstandLesen(l, g)) \/ RueckstandAbriss(l)
              => loop'.fuer = Keiner
        BY <2>1 DEF RueckstandLesen, RueckstandAbriss
      <4>2. RueckstandGeloescht(l) => loop'.fuer = Keiner BY ZaehltFelder DEF RueckstandGeloescht
      <4> QED BY <2>1, <4>1, <4>2
    <3> QED BY <1>1, <3>1, <3>2, <3>3, <3>4, <3>5 DEF Next
  <2>6. CASE EigeneAelteste(z)
    <3>1. loop'.fuer = z BY <2>6, ZaehltFelder DEF EigeneAelteste, Angenommen
    <3> QED BY <1>1, <2>1, <2>2, <2>6, <3>1, EigeneTrifft
  <2>7. CASE AmGeraetWeichen(z)
    <3>1. loop'.fuer = z BY <2>7, ZaehltFelder DEF AmGeraetWeichen, Angenommen
    <3> QED BY <1>1, <2>1, <2>2, <2>7, <3>1, WenEsTrifft
  <2>8. CASE AmDach(z)
    <3>1. loop' = Zaehlt(0, Keiner) \/ loop' = Zaehlt(-1, z)
      BY <2>8 DEF AmDach, Angenommen, Abgewiesen
    <3>2. loop'.fuer = z BY <2>1, <3>1, ZaehltFelder
    <3> QED BY <2>8, <3>2 DEF AmDach
  <2>9. ~ (AbsenderAbgewiesen(z) \/ NochPlatz(z)) BY <2>4 DEF AbsenderAbgewiesen, NochPlatz
  <2> QED BY <2>5, <2>6, <2>7, <2>8, <2>9 DEF SchaffePlatz
<1> QED BY <1>1, Invariante, PTL DEF Spec, GrundsatzAmGeraet
=============================================================================
