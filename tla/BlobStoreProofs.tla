-------------------------- MODULE BlobStoreProofs --------------------------
(***************************************************************************)
(* Proofs about BlobStore, for any number of names, PUTs, pieces and       *)
(* hours: whole files only, none replaced; the disk always has room for    *)
(* what is promised; the day's amount is kept; no reservation leaks.       *)
(***************************************************************************)
EXTENDS BlobStore, FiniteSetTheorems, TLAPS

(* Sums over finite sets. *)

(* g gives the sum of f over every subset of S, one summand at a time. *)
Summiert(g, f, S) ==
    /\ g \in [SUBSET S -> Nat]
    /\ g[{}] = 0
    /\ \A T \in SUBSET S : \A x \in T : g[T] = f[x] + g[T \ {x}]

(* What the fold of the library defines. *)
SummeRegel(iter, f, S) ==
    iter = [s \in SUBSET S |-> IF s = {} THEN 0
                               ELSE LET x == CHOOSE x \in s : TRUE IN f[x] + iter[s \ {x}]]

(* Any property of sets that fails somewhere fails at a smallest set. *)
LEMMA KleinsteMenge ==
  ASSUME NEW S, IsFiniteSet(S), NEW B, B \subseteq SUBSET S, B # {}
  PROVE  \E T \in B : \A x \in T : T \ {x} \notin B
<1>1. B \subseteq FiniteSubsetsOf(S) BY FS_Subset DEF FiniteSubsetsOf
<1>2. PICK T \in B : \A y \in B : <<y, T>> \notin StrictSubsetOrdering(S)
  BY <1>1, FS_StrictSubsetOrderingWellFounded, WFMin
<1>3. ASSUME NEW x \in T, T \ {x} \in B PROVE FALSE
  <2>1. <<T \ {x}, T>> \in StrictSubsetOrdering(S) BY DEF StrictSubsetOrdering
  <2> QED BY <1>2, <1>3, <2>1
<1> QED BY <1>3

LEMMA SummeEntfaltet ==
  ASSUME NEW f, NEW S
  PROVE  SumFunctionOnSet(f, S) = (CHOOSE iter : SummeRegel(iter, f, S))[S]
BY DEF SumFunctionOnSet, FoldFunctionOnSet, MapThenFoldSet, SummeRegel

LEMMA SummeIst ==
  ASSUME NEW S, IsFiniteSet(S), NEW f, NEW g, Summiert(g, f, S)
  PROVE  SumFunctionOnSet(f, S) = g[S]
<1>1. SummeRegel(g, f, S)
  <2> DEFINE h == [s \in SUBSET S |-> IF s = {} THEN 0
                               ELSE LET x == CHOOSE x \in s : TRUE IN f[x] + g[s \ {x}]]
  <2>1. ASSUME NEW s \in SUBSET S PROVE g[s] = h[s]
    <3>1. CASE s = {} BY <3>1 DEF Summiert
    <3>2. CASE s # {}
      <4>1. PICK x : x = CHOOSE y \in s : TRUE OBVIOUS
      <4>2. x \in s BY <3>2, <4>1
      <4> QED BY <3>2, <4>1, <4>2 DEF Summiert
    <3> QED BY <3>1, <3>2
  <2>2. g = h BY <2>1 DEF Summiert
  <2> QED BY <2>2 DEF SummeRegel
<1>2. PICK it : it = CHOOSE iter : SummeRegel(iter, f, S) OBVIOUS
<1>3. SummeRegel(it, f, S) BY <1>1, <1>2
<1> DEFINE B == {T \in SUBSET S : it[T] # g[T]}
<1>4. ASSUME B # {} PROVE FALSE
  <2>1. PICK T \in B : \A x \in T : T \ {x} \notin B BY <1>4, KleinsteMenge
  <2>2. it[T] = IF T = {} THEN 0
                ELSE LET x == CHOOSE x \in T : TRUE IN f[x] + it[T \ {x}]
    <3>1. T \in SUBSET S OBVIOUS
    <3> QED BY <1>3, <3>1 DEF SummeRegel
  <2>3. CASE T = {} BY <2>2, <2>3 DEF Summiert
  <2>4. CASE T # {}
    <3>1. PICK x : x = CHOOSE y \in T : TRUE OBVIOUS
    <3>2. x \in T BY <2>4, <3>1
    <3>3. it[T] = f[x] + it[T \ {x}] BY <2>2, <2>4, <3>1
    <3>4. it[T \ {x}] = g[T \ {x}] BY <2>1, <3>2
    <3> QED BY <3>2, <3>3, <3>4 DEF Summiert
  <2> QED BY <2>3, <2>4
<1>5. it[S] = g[S] BY <1>4
<1> QED BY <1>2, <1>5, SummeEntfaltet

(* There is such a g for every finite set of summands. *)
LEMMA SummeGibtEs ==
  ASSUME NEW S, IsFiniteSet(S), NEW f, \A x \in S : f[x] \in Nat
  PROVE  \E g : Summiert(g, f, S)
<1> DEFINE B == {T \in SUBSET S : ~ \E g : Summiert(g, f, T)}
<1>1. ASSUME B # {} PROVE FALSE
  <2>1. PICK T \in B : \A x \in T : T \ {x} \notin B BY <1>1, KleinsteMenge
  <2>2. CASE T = {}
    <3> DEFINE n == [U \in SUBSET T |-> 0]
    <3>1. Summiert(n, f, T) BY <2>2 DEF Summiert
    <3> QED BY <3>1
  <2>3. CASE T # {}
    <3>1. PICK x \in T : TRUE BY <2>3
    <3>2. T \ {x} \in SUBSET S /\ T \ {x} \notin B BY <2>1, <3>1
    <3>3. PICK g : Summiert(g, f, T \ {x}) BY <3>2
    <3> DEFINE n == [U \in SUBSET T |-> g[U \ {x}] + IF x \in U THEN f[x] ELSE 0]
    <3>4. \A U \in SUBSET T : U \ {x} \in SUBSET (T \ {x}) OBVIOUS
    <3>5. \A U \in SUBSET (T \ {x}) : g[U] \in Nat BY <3>3 DEF Summiert
    <3>6. f[x] \in Nat OBVIOUS
    <3>7. n \in [SUBSET T -> Nat] BY <3>4, <3>5, <3>6
    <3>8. n[{}] = 0
      <4>1. {} \ {x} = {} OBVIOUS
      <4>2. {} \in SUBSET T OBVIOUS
      <4> QED BY <3>3, <4>1, <4>2 DEF Summiert
    <3>9. ASSUME NEW U \in SUBSET T, NEW y \in U PROVE n[U] = f[y] + n[U \ {y}]
      <4>1. U \ {y} \in SUBSET T OBVIOUS
      <4>2. CASE y = x
        <5>1. (U \ {y}) \ {x} = U \ {x} BY <4>2
        <5>2. g[U \ {x}] \in Nat BY <3>4, <3>5
        <5>3. n[U] = g[U \ {x}] + f[x] BY <4>2
        <5>4. n[U \ {y}] = g[U \ {x}] + 0 BY <4>1, <4>2, <5>1
        <5> QED BY <3>6, <4>2, <5>2, <5>3, <5>4
      <4>3. CASE y # x
        <5>1. (U \ {y}) \ {x} = (U \ {x}) \ {y} OBVIOUS
        <5>2. U \ {x} \in SUBSET (T \ {x}) /\ y \in U \ {x} BY <4>3
        <5>3. g[U \ {x}] = f[y] + g[(U \ {x}) \ {y}] BY <3>3, <5>2 DEF Summiert
        <5>4. (U \ {x}) \ {y} \in SUBSET (T \ {x}) OBVIOUS
        <5>5. g[(U \ {x}) \ {y}] \in Nat BY <3>5, <5>4
        <5>6. n[U] = g[U \ {x}] + IF x \in U THEN f[x] ELSE 0 OBVIOUS
        <5>7. n[U \ {y}] = g[(U \ {x}) \ {y}] + IF x \in U THEN f[x] ELSE 0
          BY <4>1, <4>3, <5>1
        <5>8. f[y] \in Nat OBVIOUS
        <5> QED BY <3>6, <5>3, <5>5, <5>6, <5>7, <5>8
      <4> QED BY <4>2, <4>3
    <3> HIDE DEF n
    <3>10. Summiert(n, f, T) BY <3>7, <3>8, <3>9 DEF Summiert
    <3> QED BY <3>10
  <2> QED BY <2>2, <2>3
<1> QED BY <1>1

(* A sum of numbers is a number, and one can take a summand out of it. *)
LEMMA Summe ==
  ASSUME NEW S, IsFiniteSet(S), NEW f, \A x \in S : f[x] \in Nat
  PROVE  \E g : /\ Summiert(g, f, S)
                /\ \A T \in SUBSET S : SumFunctionOnSet(f, T) = g[T]
<1>1. PICK g : Summiert(g, f, S) BY SummeGibtEs
<1>2. ASSUME NEW T \in SUBSET S PROVE SumFunctionOnSet(f, T) = g[T]
  <2> DEFINE n == [U \in SUBSET T |-> g[U]]
  <2>1. Summiert(n, f, T)
    <3>1. SUBSET T \subseteq SUBSET S OBVIOUS
    <3>2. \A U \in SUBSET T : \A x \in U : U \ {x} \in SUBSET T OBVIOUS
    <3> QED BY <1>1, <3>1, <3>2 DEF Summiert
  <2>2. IsFiniteSet(T) BY FS_Subset
  <2>3. n[T] = g[T] OBVIOUS
  <2> HIDE DEF n
  <2> QED BY <2>1, <2>2, <2>3, SummeIst
<1> QED BY <1>1, <1>2

LEMMA SummeZahl ==
  ASSUME NEW S, IsFiniteSet(S), NEW f, \A x \in S : f[x] \in Nat
  PROVE  /\ SumFunctionOnSet(f, S) \in Nat
         /\ S = {} => SumFunctionOnSet(f, S) = 0
         /\ \A x \in S : /\ SumFunctionOnSet(f, S) = f[x] + SumFunctionOnSet(f, S \ {x})
                         /\ SumFunctionOnSet(f, S \ {x}) \in Nat
<1>1. PICK g : Summiert(g, f, S) /\ \A T \in SUBSET S : SumFunctionOnSet(f, T) = g[T]
  BY Summe
<1>2. S \in SUBSET S /\ \A x \in S : S \ {x} \in SUBSET S OBVIOUS
<1>3. SumFunctionOnSet(f, S) = g[S] /\ g[S] \in Nat BY <1>1, <1>2 DEF Summiert
<1>4. S = {} => g[S] = 0 BY <1>1 DEF Summiert
<1>5. ASSUME NEW x \in S
      PROVE  /\ g[S] = f[x] + g[S \ {x}] /\ g[S \ {x}] \in Nat
             /\ SumFunctionOnSet(f, S \ {x}) = g[S \ {x}]
  BY <1>1, <1>2 DEF Summiert
<1> QED BY <1>3, <1>4, <1>5

(* A sum depends on its summands only. *)
LEMMA SummeGleich ==
  ASSUME NEW S, IsFiniteSet(S), NEW f, NEW h, \A x \in S : f[x] \in Nat /\ h[x] = f[x]
  PROVE  SumFunctionOnSet(h, S) = SumFunctionOnSet(f, S)
<1>1. PICK g : Summiert(g, f, S) BY SummeGibtEs
<1>2. Summiert(g, h, S) BY <1>1 DEF Summiert
<1> QED BY <1>1, <1>2, SummeIst

(* The sum of sums. *)
LEMMA SummePlus ==
  ASSUME NEW S, IsFiniteSet(S), NEW f, NEW d, NEW h,
         \A x \in S : f[x] \in Nat /\ d[x] \in Nat /\ h[x] = f[x] + d[x]
  PROVE  SumFunctionOnSet(h, S) = SumFunctionOnSet(f, S) + SumFunctionOnSet(d, S)
<1>1. PICK g : Summiert(g, f, S) BY SummeGibtEs
<1>2. PICK e : Summiert(e, d, S) BY SummeGibtEs
<1> DEFINE n == [T \in SUBSET S |-> g[T] + e[T]]
<1>3. Summiert(n, h, S)
  <2>1. \A T \in SUBSET S : g[T] \in Nat /\ e[T] \in Nat BY <1>1, <1>2 DEF Summiert
  <2>2. n \in [SUBSET S -> Nat] BY <2>1
  <2>3. n[{}] = 0
    <3>1. {} \in SUBSET S OBVIOUS
    <3> QED BY <1>1, <1>2, <3>1 DEF Summiert
  <2>4. ASSUME NEW T \in SUBSET S, NEW x \in T PROVE n[T] = h[x] + n[T \ {x}]
    <3>1. T \ {x} \in SUBSET S /\ x \in S OBVIOUS
    <3>2. g[T] = f[x] + g[T \ {x}] /\ e[T] = d[x] + e[T \ {x}] BY <1>1, <1>2 DEF Summiert
    <3>3. n[T] = g[T] + e[T] /\ n[T \ {x}] = g[T \ {x}] + e[T \ {x}] BY <3>1
    <3> QED BY <2>1, <3>1, <3>2, <3>3
  <2> HIDE DEF n
  <2> QED BY <2>2, <2>3, <2>4 DEF Summiert
<1>4. S \in SUBSET S OBVIOUS
<1>5. n[S] = g[S] + e[S] BY <1>4
<1>6. SumFunctionOnSet(f, S) = g[S] BY <1>1, SummeIst
<1>7. SumFunctionOnSet(d, S) = e[S] BY <1>2, SummeIst
<1> HIDE DEF n
<1>8. SumFunctionOnSet(h, S) = n[S] BY <1>3, SummeIst
<1> QED BY <1>5, <1>6, <1>7, <1>8

(* Summands that are no larger make no larger sum. *)
LEMMA SummeMonoton ==
  ASSUME NEW S, IsFiniteSet(S), NEW f, NEW h,
         \A x \in S : f[x] \in Nat /\ h[x] \in Nat /\ f[x] <= h[x]
  PROVE  SumFunctionOnSet(f, S) <= SumFunctionOnSet(h, S)
<1> DEFINE d == [x \in S |-> h[x] - f[x]]
<1>1. \A x \in S : d[x] \in Nat /\ h[x] = f[x] + d[x] OBVIOUS
<1> HIDE DEF d
<1>2. SumFunctionOnSet(h, S) = SumFunctionOnSet(f, S) + SumFunctionOnSet(d, S)
  BY <1>1, SummePlus
<1>3. SumFunctionOnSet(f, S) \in Nat /\ SumFunctionOnSet(d, S) \in Nat
  BY <1>1, SummeZahl
<1> QED BY <1>2, <1>3

LEMMA Malnehmen == \A c \in Nat, n \in Nat : c * (n + 1) = c + c * n /\ c * n \in Nat
  OBVIOUS

(* Equal summands, a number of times. *)
LEMMA SummeGleichviel ==
  ASSUME NEW S, IsFiniteSet(S), NEW f, NEW c \in Nat, \A x \in S : f[x] = c
  PROVE  SumFunctionOnSet(f, S) = c * Cardinality(S)
<1> DEFINE n == [T \in SUBSET S |-> c * Cardinality(T)]
<1>1. \A T \in SUBSET S : IsFiniteSet(T) /\ Cardinality(T) \in Nat
  BY FS_Subset, FS_CardinalityType
<1>2. n \in [SUBSET S -> Nat] BY <1>1, Malnehmen
<1>3. n[{}] = 0
  <2>1. {} \in SUBSET S OBVIOUS
  <2> QED BY <2>1, FS_EmptySet
<1>4. ASSUME NEW T \in SUBSET S, NEW x \in T PROVE n[T] = f[x] + n[T \ {x}]
  <2>1. T \ {x} \in SUBSET S /\ x \in S OBVIOUS
  <2>2. Cardinality(T \ {x}) = Cardinality(T) - 1 BY <1>1, FS_RemoveElement
  <2>3. Cardinality(T \ {x}) \in Nat /\ Cardinality(T) \in Nat BY <1>1, <2>1
  <2>4. Cardinality(T) = Cardinality(T \ {x}) + 1 BY <2>2, <2>3
  <2>5. c * Cardinality(T) = c + c * Cardinality(T \ {x}) BY <2>3, <2>4, Malnehmen
  <2>6. n[T] = c * Cardinality(T) /\ n[T \ {x}] = c * Cardinality(T \ {x}) BY <2>1
  <2> QED BY <2>1, <2>5, <2>6
<1>5. n[S] = c * Cardinality(S) OBVIOUS
<1> HIDE DEF n
<1>6. Summiert(n, f, S) BY <1>2, <1>3, <1>4 DEF Summiert
<1> QED BY <1>5, <1>6, SummeIst

(* A summand changes: the sum changes by as much. *)
LEMMA SummeGeaendert ==
  ASSUME NEW S, IsFiniteSet(S), NEW u \in S, NEW f, NEW h,
         \A x \in S : f[x] \in Nat /\ h[x] \in Nat,
         \A x \in S : x # u => h[x] = f[x]
  PROVE  /\ SumFunctionOnSet(h, S) = SumFunctionOnSet(f, S) - f[u] + h[u]
         /\ SumFunctionOnSet(f, S) \in Nat /\ SumFunctionOnSet(f, S) >= f[u]
<1>1. IsFiniteSet(S \ {u}) BY FS_RemoveElement
<1>2. SumFunctionOnSet(h, S \ {u}) = SumFunctionOnSet(f, S \ {u}) BY <1>1, SummeGleich
<1>3. /\ SumFunctionOnSet(f, S) = f[u] + SumFunctionOnSet(f, S \ {u})
      /\ SumFunctionOnSet(f, S \ {u}) \in Nat
  BY SummeZahl
<1>4. SumFunctionOnSet(h, S) = h[u] + SumFunctionOnSet(h, S \ {u}) BY SummeZahl
<1> QED BY <1>2, <1>3, <1>4

(* What is nought can be left out. *)
LEMMA SummeGefiltert ==
  ASSUME NEW S, IsFiniteSet(S), NEW T, T \subseteq S, NEW f, \A x \in S : f[x] \in Nat,
         NEW h, \A x \in S : h[x] = IF x \in T THEN f[x] ELSE 0
  PROVE  SumFunctionOnSet(h, S) = SumFunctionOnSet(f, T)
<1>1. PICK g : Summiert(g, f, S) /\ \A U \in SUBSET S : SumFunctionOnSet(f, U) = g[U]
  BY Summe
<1> DEFINE n == [U \in SUBSET S |-> g[U \cap T]]
<1>2. \A U \in SUBSET S : U \cap T \in SUBSET S OBVIOUS
<1>3. n \in [SUBSET S -> Nat] BY <1>1, <1>2 DEF Summiert
<1>4. n[{}] = 0
  <2>1. {} \in SUBSET S /\ {} \cap T = {} OBVIOUS
  <2> QED BY <1>1, <2>1 DEF Summiert
<1>5. ASSUME NEW U \in SUBSET S, NEW x \in U PROVE n[U] = h[x] + n[U \ {x}]
  <2>1. U \ {x} \in SUBSET S /\ x \in S OBVIOUS
  <2>2. n[U] = g[U \cap T] /\ n[U \ {x}] = g[(U \ {x}) \cap T] BY <2>1
  <2>3. CASE x \in T
    <3>1. (U \ {x}) \cap T = (U \cap T) \ {x} /\ x \in U \cap T BY <2>3
    <3>2. g[U \cap T] = f[x] + g[(U \cap T) \ {x}] BY <1>1, <1>2, <3>1 DEF Summiert
    <3> QED BY <2>1, <2>2, <2>3, <3>1, <3>2
  <2>4. CASE x \notin T
    <3>1. (U \ {x}) \cap T = U \cap T BY <2>4
    <3>2. g[U \cap T] \in Nat BY <1>1, <1>2 DEF Summiert
    <3>3. h[x] = 0 BY <2>1, <2>4
    <3>4. n[U] = n[U \ {x}] BY <2>2, <3>1
    <3>5. n[U \ {x}] \in Nat BY <2>2, <3>1, <3>2
    <3> QED BY <3>3, <3>4, <3>5
  <2> QED BY <2>3, <2>4
<1>6. n[S] = g[T]
  <2>1. S \in SUBSET S /\ S \cap T = T OBVIOUS
  <2> QED BY <2>1
<1> HIDE DEF n
<1>7. Summiert(n, h, S) BY <1>3, <1>4, <1>5 DEF Summiert
<1> QED BY <1>1, <1>6, <1>7, SummeIst

(* Fewer summands make no larger sum. *)
LEMMA SummeTeil ==
  ASSUME NEW S, IsFiniteSet(S), NEW T, T \subseteq S, NEW f, \A x \in S : f[x] \in Nat
  PROVE  /\ SumFunctionOnSet(f, T) <= SumFunctionOnSet(f, S)
         /\ SumFunctionOnSet(f, T) \in Nat /\ SumFunctionOnSet(f, S) \in Nat
<1> DEFINE h == [x \in S |-> IF x \in T THEN f[x] ELSE 0]
<1>1. \A x \in S : /\ h[x] \in Nat /\ h[x] <= f[x]
                    /\ h[x] = IF x \in T THEN f[x] ELSE 0
  OBVIOUS
<1> HIDE DEF h
<1>2. SumFunctionOnSet(h, S) = SumFunctionOnSet(f, T) BY <1>1, SummeGefiltert
<1>3. SumFunctionOnSet(h, S) <= SumFunctionOnSet(f, S) BY <1>1, SummeMonoton
<1>4. SumFunctionOnSet(h, S) \in Nat /\ SumFunctionOnSet(f, S) \in Nat BY <1>1, SummeZahl
<1> QED BY <1>2, <1>3, <1>4

LEMMA Verteilt == \A c \in Nat, m \in Nat, n \in Nat : c * (m + n) = c * m + c * n
  OBVIOUS

LEMMA Mehr == \A c \in Nat, m \in Nat, n \in Nat : m <= n => c * m <= c * n
  OBVIOUS

(* The elements of L that have their place z in T. *)
An(L, z, T) == {k \in L : z[k] \in T}

(* Counted place by place they are as many as counted at once. *)
LEMMA NachStellen ==
  ASSUME NEW L, IsFiniteSet(L), NEW z, NEW T, IsFiniteSet(T), NEW c \in Nat, NEW f,
         \A s \in T : f[s] = c * Cardinality(An(L, z, {s}))
  PROVE  SumFunctionOnSet(f, T) = c * Cardinality(An(L, z, T))
<1> DEFINE n == [U \in SUBSET T |-> c * Cardinality(An(L, z, U))]
<1>1. \A U : IsFiniteSet(An(L, z, U)) /\ Cardinality(An(L, z, U)) \in Nat
  <2> SUFFICES ASSUME NEW U PROVE IsFiniteSet(An(L, z, U)) /\ Cardinality(An(L, z, U)) \in Nat
    OBVIOUS
  <2>1. An(L, z, U) \subseteq L BY DEF An
  <2> QED BY <2>1, FS_Subset, FS_CardinalityType
<1>2. n \in [SUBSET T -> Nat] BY <1>1, Malnehmen
<1>3. n[{}] = 0
  <2>1. {} \in SUBSET T /\ An(L, z, {}) = {} BY DEF An
  <2>2. n[{}] = c * Cardinality({}) BY <2>1
  <2> QED BY <2>2, FS_EmptySet
<1>4. ASSUME NEW U \in SUBSET T, NEW s \in U PROVE n[U] = f[s] + n[U \ {s}]
  <2> DEFINE A == An(L, z, U)
             M == An(L, z, U \ {s})
             R == An(L, z, {s})
  <2>1. U \ {s} \in SUBSET T /\ s \in T OBVIOUS
  <2>2. A = M \cup R /\ M \cap R = {} BY DEF An
  <2>3. f[s] = c * Cardinality(R) BY <2>1
  <2>4. n[U] = c * Cardinality(A) /\ n[U \ {s}] = c * Cardinality(M) BY <2>1
  <2>5. /\ IsFiniteSet(R) /\ Cardinality(R) \in Nat
        /\ IsFiniteSet(M) /\ Cardinality(M) \in Nat
    BY <1>1
  <2> HIDE DEF A, M, R, n
  <2>6. Cardinality(A) = Cardinality(M) + Cardinality(R)
    <3>1. Cardinality(M \cup R) = Cardinality(M) + Cardinality(R) - Cardinality(M \cap R)
      BY <2>5, FS_Union
    <3>2. Cardinality(M \cap R) = 0 BY <2>2, FS_EmptySet
    <3> QED BY <2>2, <2>5, <3>1, <3>2
  <2>7. c * Cardinality(A) = c * Cardinality(M) + c * Cardinality(R) BY <2>5, <2>6, Verteilt
  <2>8. c * Cardinality(M) \in Nat /\ c * Cardinality(R) \in Nat BY <2>5, Malnehmen
  <2> QED BY <2>3, <2>4, <2>7, <2>8
<1>5. n[T] = c * Cardinality(An(L, z, T)) OBVIOUS
<1> HIDE DEF n
<1>6. Summiert(n, f, T) BY <1>2, <1>3, <1>4 DEF Summiert
<1> QED BY <1>5, <1>6, SummeIst

----------------------------------------------------------------------------
(* The shape of the disk and of the handlers; `vorgemerkt` needs no more   *)
(* than the book below to be a number, and `reserviert` is a sum.          *)
Gestalt ==
    /\ datei \in [Kennung -> Datei \cup {Keine}]
    /\ upload \in [Upload -> [ph : Stelle, k : Kennung \cup {Keine}, stuecke : 0 .. GROESSE,
                              zeit : Stunde, offen : 0 .. GROESSE, teil : BOOLEAN]]
    /\ stunde \in Stunde

(* A handler past its start knows its name. *)
KenntNamen == \A u \in Upload : upload[u].ph # "frei" => upload[u].k \in Kennung

(* Every piece is on the disk or still set aside; between the write and    *)
(* its booking one piece is both.                                          *)
StueckeGezaehlt ==
    \A u \in Upload :
        /\ upload[u].ph = "empfaengt" => upload[u].stuecke + upload[u].offen = GROESSE
        /\ upload[u].ph = "schrieb" => upload[u].stuecke + upload[u].offen = GROESSE + 1

(* Nobody gets to the link with less than the whole. *)
FertigHeisstGanz ==
    \A u \in Upload : upload[u].ph \in {"fertig", "abgelegt"} => upload[u].stuecke = GROESSE

(* The inductive invariant. *)
IInv == /\ Gestalt /\ KenntNamen /\ StueckeGezaehlt /\ FertigHeisstGanz
        /\ NieHalb /\ VormerkungStimmt

----------------------------------------------------------------------------
(* One handler. *)

Griff == [ph : Stelle, k : Kennung \cup {Keine}, stuecke : 0 .. GROESSE,
          zeit : Stunde, offen : 0 .. GROESSE, teil : BOOLEAN]

(* What the invariant says of a single handler. *)
GriffGut(r) ==
    /\ r \in Griff
    /\ r.ph # "frei" => r.k \in Kennung
    /\ r.ph = "empfaengt" => r.stuecke + r.offen = GROESSE
    /\ r.ph = "schrieb" => r.stuecke + r.offen = GROESSE + 1
    /\ r.ph \in {"fertig", "abgelegt"} => r.stuecke = GROESSE

(* A handler that is free is in order. *)
LEMMA FreiGut == ASSUME stunde \in Stunde PROVE GriffGut(Frei)
  BY GroesseAssumption, GrenzenAssumption DEF GriffGut, Griff, Frei, Stelle, Stunde

(* Every handler is in order. *)
LEMMA AlleGut == ASSUME IInv, NEW u \in Upload PROVE GriffGut(upload[u])
  BY DEF IInv, Gestalt, KenntNamen, StueckeGezaehlt, FertigHeisstGanz, GriffGut, Griff

(* The PUTs under way can be counted. *)
LEMMA LaufendEndlich ==
  IsFiniteSet(Laufend) /\ Cardinality(Laufend) \in Nat
<1>1. Laufend \subseteq Upload
  BY DEF Laufend
<1> QED BY <1>1, UploadAssumption, FS_Subset, FS_CardinalityType

(* One PUT starts, goes on or ends: the count follows. *)
LEMMA LaufendFolgt ==
  ASSUME upload \in [Upload -> Griff], NEW u \in Upload, NEW r,
         upload' = [upload EXCEPT ![u] = r]
  PROVE  /\ r.ph # "frei" /\ upload[u].ph = "frei"
              => Cardinality(Laufend') = Cardinality(Laufend) + 1
         /\ r.ph = "frei" /\ upload[u].ph # "frei"
              => Cardinality(Laufend') = Cardinality(Laufend) - 1
         /\ (r.ph = "frei" <=> upload[u].ph = "frei") => Laufend' = Laufend
<1>1. CASE r.ph # "frei" /\ upload[u].ph = "frei"
  <2>1. Laufend' = Laufend \cup {u} /\ u \notin Laufend
    BY <1>1 DEF Laufend
  <2> QED BY <1>1, <2>1, LaufendEndlich, FS_AddElement
<1>2. CASE r.ph = "frei" /\ upload[u].ph # "frei"
  <2>1. Laufend' = Laufend \ {u} /\ u \in Laufend
    BY <1>2 DEF Laufend
  <2> QED BY <1>2, <2>1, LaufendEndlich, FS_RemoveElement
<1>3. CASE r.ph = "frei" <=> upload[u].ph = "frei"
  <2>1. Laufend' = Laufend
    BY <1>3 DEF Laufend
  <2> QED BY <1>3, <2>1
<1> QED BY <1>1, <1>2, <1>3

(* A step of one handler that leaves the files alone and keeps its book.   *)
LEMMA NurGriff ==
  ASSUME IInv, NEW u \in Upload, NEW r, GriffGut(r),
         upload' = [upload EXCEPT ![u] = r], UNCHANGED <<datei, stunde>>,
         VormerkungStimmt'
  PROVE  IInv'
<1>1. upload \in [Upload -> Griff]
  BY DEF IInv, Gestalt, Griff
<1>2. \A v \in Upload : GriffGut(upload[v])'
  <2> SUFFICES ASSUME NEW v \in Upload PROVE GriffGut(upload[v])'
    OBVIOUS
  <2>1. upload'[v] = IF v = u THEN r ELSE upload[v]
    BY <1>1
  <2>2. GriffGut(upload'[v])
    BY <2>1, AlleGut
  <2> QED BY <2>2 DEF GriffGut, Griff
<1>3. Gestalt'
  <2>1. upload' \in [Upload -> Griff]
    BY <1>1 DEF GriffGut
  <2> QED BY <2>1 DEF IInv, Gestalt, Griff
<1>4. KenntNamen' /\ StueckeGezaehlt' /\ FertigHeisstGanz'
  BY <1>2 DEF KenntNamen, StueckeGezaehlt, FertigHeisstGanz, GriffGut
<1>5. NieHalb'
  BY DEF IInv, NieHalb, Liegende
<1> QED BY <1>3, <1>4, <1>5 DEF IInv

(* A step that touches no handler and at most removes files. *)
LEMMA NurDateien ==
  ASSUME IInv, UNCHANGED <<upload, vorgemerkt>>, stunde' \in Stunde,
         datei' \in [Kennung -> Datei \cup {Keine}],
         \A k \in Kennung : datei'[k] # Keine => datei'[k] = datei[k]
  PROVE  IInv'
<1>1. Gestalt' /\ KenntNamen' /\ StueckeGezaehlt' /\ FertigHeisstGanz'
  BY DEF IInv, Gestalt, KenntNamen, StueckeGezaehlt, FertigHeisstGanz
<1>2. NieHalb'
  BY DEF IInv, NieHalb, Liegende
<1>3. VormerkungStimmt'
  BY DEF IInv, VormerkungStimmt, Laufend
<1> QED BY <1>1, <1>2, <1>3 DEF IInv

----------------------------------------------------------------------------
(* The steps of a PUT. *)

(* The start: one PUT more, and its size in the day's book. *)
LEMMA BeginneHaelt ==
  ASSUME IInv, NEW u \in Upload, NEW k \in Kennung, Beginne(u, k)
  PROVE  IInv'
<1> DEFINE r == [ph |-> "empfaengt", k |-> k, stuecke |-> 0,
                 zeit |-> stunde, offen |-> GROESSE, teil |-> TRUE]
<1>1. upload \in [Upload -> Griff]
  BY DEF IInv, Gestalt, Griff
<1>2. GriffGut(r)
  BY GroesseAssumption DEF IInv, Gestalt, GriffGut, Griff, Stelle
<1>3. upload' = [upload EXCEPT ![u] = r] /\ UNCHANGED <<datei, stunde>>
  BY DEF Beginne, platte
<1>4. upload[u].ph = "frei" /\ r.ph # "frei"
  BY DEF Beginne
<1>5. Cardinality(Laufend') = Cardinality(Laufend) + 1
  BY <1>1, <1>3, <1>4, LaufendFolgt
<1>6. VormerkungStimmt'
  BY <1>5, LaufendEndlich, GroesseAssumption DEF IInv, VormerkungStimmt, Beginne
<1> QED BY <1>2, <1>3, <1>6, NurGriff

(* A step within a PUT: the number of PUTs under way stays. *)
LEMMA GehtWeiter ==
  ASSUME IInv, NEW u \in Upload, NEW r, GriffGut(r),
         upload' = [upload EXCEPT ![u] = r], UNCHANGED <<datei, stunde, vorgemerkt>>,
         r.ph = "frei" <=> upload[u].ph = "frei"
  PROVE  IInv'
<1>1. upload \in [Upload -> Griff]
  BY DEF IInv, Gestalt, Griff
<1>2. Laufend' = Laufend
  BY <1>1, LaufendFolgt
<1>3. VormerkungStimmt'
  BY <1>2 DEF IInv, VormerkungStimmt
<1> QED BY <1>3, NurGriff

(* A piece is written. *)
LEMMA SchreibeHaelt ==
  ASSUME IInv, NEW u \in Upload, Schreibe(u)
  PROVE  IInv'
<1> DEFINE a == upload[u]
           r == [ph |-> "schrieb", k |-> a.k, stuecke |-> a.stuecke + 1,
                 zeit |-> stunde, offen |-> a.offen, teil |-> a.teil]
<1>1. upload \in [Upload -> Griff] /\ GriffGut(a) /\ stunde \in Stunde
  BY AlleGut DEF IInv, Gestalt, Griff
<1>2. GriffGut(r)
  BY <1>1, GroesseAssumption DEF Schreibe, GriffGut, Griff, Stelle
<1>3. upload' = [upload EXCEPT ![u] = r]
  BY <1>1 DEF Schreibe, Griff
<1>4. UNCHANGED <<datei, stunde, vorgemerkt>>
  BY DEF Schreibe, platte, buch
<1> QED BY <1>2, <1>3, <1>4, GehtWeiter DEF Schreibe

(* The piece is booked. *)
LEMMA VerbucheHaelt ==
  ASSUME IInv, NEW u \in Upload, Verbuche(u)
  PROVE  IInv'
<1> DEFINE a == upload[u]
           r == [ph |-> "empfaengt", k |-> a.k, stuecke |-> a.stuecke,
                 zeit |-> a.zeit, offen |-> a.offen - 1, teil |-> a.teil]
<1>1. upload \in [Upload -> Griff] /\ GriffGut(a)
  BY AlleGut DEF IInv, Gestalt, Griff
<1>2. GriffGut(r)
  BY <1>1, GroesseAssumption DEF Verbuche, GriffGut, Griff, Stelle
<1>3. upload' = [upload EXCEPT ![u] = r]
  BY <1>1 DEF Verbuche, Griff
<1>4. UNCHANGED <<datei, stunde, vorgemerkt>>
  BY DEF Verbuche, platte
<1> QED BY <1>2, <1>3, <1>4, GehtWeiter DEF Verbuche

(* The end of the stream: only the whole length passes. *)
LEMMA SchliesseHaelt ==
  ASSUME IInv, NEW u \in Upload, Schliesse(u)
  PROVE  IInv'
<1> DEFINE a == upload[u]
           r == [ph |-> "fertig", k |-> a.k, stuecke |-> a.stuecke,
                 zeit |-> a.zeit, offen |-> a.offen, teil |-> a.teil]
<1>1. upload \in [Upload -> Griff] /\ GriffGut(a)
  BY AlleGut DEF IInv, Gestalt, Griff
<1>2. GriffGut(r)
  BY <1>1 DEF Schliesse, Vollstaendig, GriffGut, Griff, Stelle
<1>3. upload' = [upload EXCEPT ![u] = r]
  <2>1. a \in Griff
    BY <1>1
  <2>2. [a EXCEPT !.ph = "fertig"] = r
    BY <2>1 DEF Griff
  <2> QED BY <1>1, <2>2 DEF Schliesse
<1>4. UNCHANGED <<datei, stunde, vorgemerkt>>
  BY DEF Schliesse, platte, buch
<1> QED BY <1>2, <1>3, <1>4, GehtWeiter DEF Schliesse

(* The side file of a slow PUT is swept away. *)
LEMMA KehreTeilHaelt ==
  ASSUME IInv, NEW u \in Upload, KehreTeil(u)
  PROVE  IInv'
<1> DEFINE a == upload[u]
           r == [a EXCEPT !.teil = FALSE]
<1>1. upload \in [Upload -> Griff] /\ GriffGut(a)
  BY AlleGut DEF IInv, Gestalt, Griff
<1>2. r \in Griff
  BY <1>1 DEF Griff
<1>3. r.ph = a.ph /\ r.k = a.k /\ r.stuecke = a.stuecke /\ r.offen = a.offen
  BY <1>1 DEF Griff
<1>4. upload' = [upload EXCEPT ![u] = r]
  BY <1>1 DEF KehreTeil
<1>5. UNCHANGED <<datei, stunde, vorgemerkt>>
  BY DEF KehreTeil, platte, buch
<1> HIDE DEF r
<1>6. GriffGut(r)
  BY <1>1, <1>2, <1>3 DEF GriffGut
<1> QED BY <1>3, <1>4, <1>5, <1>6, GehtWeiter

(* The link: a whole file appears under a free name. *)
LEMMA EndgueltigHaelt ==
  ASSUME IInv, NEW u \in Upload, Endgueltig(u)
  PROVE  IInv'
<1> DEFINE a == upload[u]
           r == [ph |-> "abgelegt", k |-> a.k, stuecke |-> a.stuecke,
                 zeit |-> a.zeit, offen |-> a.offen, teil |-> FALSE]
           d == [stuecke |-> a.stuecke, zeit |-> a.zeit, von |-> u]
<1>1. upload \in [Upload -> Griff] /\ GriffGut(a)
  BY AlleGut DEF IInv, Gestalt, Griff
<1>2. GriffGut(r)
  BY <1>1 DEF Endgueltig, GriffGut, Griff, Stelle
<1>3. upload' = [upload EXCEPT ![u] = r]
  BY <1>1 DEF Endgueltig, Griff
<1>4. a.ph = "fertig" /\ a.k \in Kennung /\ a.stuecke = GROESSE
  BY <1>1 DEF Endgueltig, GriffGut
<1>5. d \in Datei /\ d.stuecke = GROESSE
  BY <1>1, <1>4, GroesseAssumption DEF Datei, GriffGut, Griff
<1>6. datei \in [Kennung -> Datei \cup {Keine}] /\ datei' = [datei EXCEPT ![a.k] = d]
  BY DEF IInv, Gestalt, Endgueltig
<1>7. datei' \in [Kennung -> Datei \cup {Keine}]
  BY <1>4, <1>5, <1>6
<1>8. NieHalb'
  BY <1>4, <1>5, <1>6 DEF IInv, NieHalb, Liegende
<1>9. Laufend' = Laufend
  <2>1. upload[u].ph # "frei" /\ r.ph # "frei"
    BY <1>4
  <2> HIDE DEF r
  <2> QED BY <1>1, <1>3, <2>1, LaufendFolgt
<1>10. VormerkungStimmt'
  BY <1>9 DEF IInv, VormerkungStimmt, Endgueltig, buch
<1>11. \A v \in Upload : GriffGut(upload'[v])
  <2> SUFFICES ASSUME NEW v \in Upload PROVE GriffGut(upload'[v])
    OBVIOUS
  <2>1. upload'[v] = IF v = u THEN r ELSE upload[v]
    BY <1>1, <1>3
  <2> QED BY <1>2, <2>1, AlleGut
<1>12. Gestalt'
  <2>1. upload' \in [Upload -> Griff] /\ stunde' = stunde
    BY <1>1, <1>2, <1>3 DEF GriffGut, Endgueltig
  <2> QED BY <1>7, <2>1 DEF IInv, Gestalt, Griff
<1>13. KenntNamen' /\ StueckeGezaehlt' /\ FertigHeisstGanz'
  BY <1>11 DEF KenntNamen, StueckeGezaehlt, FertigHeisstGanz, GriffGut
<1> QED BY <1>8, <1>10, <1>12, <1>13 DEF IInv

(* The end of a PUT, booked or thrown away: its size leaves the book. *)
LEMMA EndeHaelt ==
  ASSUME IInv, NEW u \in Upload, upload[u].ph # "frei", GibFrei(u),
         upload' = [upload EXCEPT ![u] = Frei], UNCHANGED <<datei, stunde>>
  PROVE  IInv'
<1>1. upload \in [Upload -> Griff] /\ GriffGut(Frei) /\ Frei.ph = "frei"
  BY FreiGut DEF IInv, Gestalt, Griff, Frei
<1>2. Cardinality(Laufend') = Cardinality(Laufend) - 1
  BY <1>1, LaufendFolgt
<1>3. VormerkungStimmt'
  BY <1>2, LaufendEndlich, GroesseAssumption DEF IInv, VormerkungStimmt, GibFrei
<1> QED BY <1>1, <1>3, NurGriff

(* A restart: every handler is gone, and the book with them. *)
LEMMA NeustartHaelt ==
  ASSUME IInv, Neustart
  PROVE  IInv'
<1>1. \A u \in Upload : upload'[u] = Frei
  BY DEF Neustart
<1>2. UNCHANGED <<datei, stunde>> /\ vorgemerkt' = 0 /\ upload' = [u \in Upload |-> Frei]
  BY DEF Neustart
<1>3. GriffGut(Frei) /\ Frei.ph = "frei"
  BY FreiGut DEF IInv, Gestalt, Frei
<1>4. Gestalt'
  <2>1. upload' \in [Upload -> Griff]
    BY <1>2, <1>3 DEF GriffGut
  <2> QED BY <1>2, <2>1 DEF IInv, Gestalt, Griff
<1>5. KenntNamen' /\ StueckeGezaehlt' /\ FertigHeisstGanz'
  BY <1>1, <1>3 DEF KenntNamen, StueckeGezaehlt, FertigHeisstGanz
<1>6. Laufend' = {}
  BY <1>1, <1>3 DEF Laufend
<1>7. VormerkungStimmt'
  BY <1>2, <1>6, FS_EmptySet, GroesseAssumption DEF VormerkungStimmt
<1>8. NieHalb'
  BY <1>2 DEF IInv, NieHalb, Liegende
<1> QED BY <1>4, <1>5, <1>7, <1>8 DEF IInv

----------------------------------------------------------------------------
(* The whole. *)

(* The invariant holds at the start. *)
LEMMA AmAnfang == Init => IInv
<1> SUFFICES ASSUME Init PROVE IInv
  OBVIOUS
<1>1. stunde \in Stunde
  BY GrenzenAssumption DEF Init, Stunde
<1>2. GriffGut(Frei) /\ Frei.ph = "frei"
  BY <1>1, FreiGut DEF Frei
<1>3. Gestalt
  BY <1>1, <1>2 DEF Init, Gestalt, GriffGut, Griff
<1>4. KenntNamen /\ StueckeGezaehlt /\ FertigHeisstGanz
  BY <1>2 DEF Init, KenntNamen, StueckeGezaehlt, FertigHeisstGanz
<1>5. NieHalb
  BY DEF Init, NieHalb, Liegende
<1>6. Laufend = {}
  BY <1>2 DEF Init, Laufend
<1>7. VormerkungStimmt
  BY <1>6, FS_EmptySet, GroesseAssumption DEF Init, VormerkungStimmt
<1> QED BY <1>3, <1>4, <1>5, <1>7 DEF IInv

(* Every step keeps it. *)
LEMMA Induktiv == IInv /\ [Next]_vars => IInv'
<1> SUFFICES ASSUME IInv, [Next]_vars PROVE IInv'
  OBVIOUS
<1>1. ASSUME NEW u \in Upload, NEW k \in Kennung, Beginne(u, k) PROVE IInv'
  BY <1>1, BeginneHaelt
<1>2. ASSUME NEW u \in Upload, Schreibe(u) \/ Verbuche(u) \/ Schliesse(u)
                               \/ Endgueltig(u) \/ KehreTeil(u)
      PROVE  IInv'
  BY <1>2, SchreibeHaelt, VerbucheHaelt, SchliesseHaelt, EndgueltigHaelt, KehreTeilHaelt
<1>3. ASSUME NEW u \in Upload, Buche(u) \/ Verwirf(u) PROVE IInv'
  <2>1. upload[u].ph # "frei" /\ GibFrei(u) /\ upload' = [upload EXCEPT ![u] = Frei]
    BY <1>3 DEF Buche, Verwirf
  <2>2. UNCHANGED <<datei, stunde>>
    BY <1>3 DEF Buche, Verwirf, platte
  <2> QED BY <2>1, <2>2, EndeHaelt
<1>4. ASSUME NEW k \in Kennung, Loesche(k) \/ KehreDatei(k) \/ LaeuftAb(k) PROVE IInv'
  <2>1. /\ UNCHANGED <<upload, vorgemerkt, stunde>> /\ stunde \in Stunde
        /\ datei \in [Kennung -> Datei \cup {Keine}]
    BY <1>4 DEF Loesche, KehreDatei, LaeuftAb, buch, platte, IInv, Gestalt
  <2>2. datei' = datei \/ datei' = [datei EXCEPT ![k] = Keine]
    BY <1>4 DEF Loesche, KehreDatei, LaeuftAb, platte
  <2>3. /\ datei' \in [Kennung -> Datei \cup {Keine}]
        /\ \A l \in Kennung : datei'[l] # Keine => datei'[l] = datei[l]
    BY <2>1, <2>2
  <2> QED BY <2>1, <2>3, NurDateien
<1>5. ASSUME KehreReste \/ StundeVergeht PROVE IInv'
  <2>1. UNCHANGED <<upload, vorgemerkt, datei>>
    BY <1>5 DEF KehreReste, StundeVergeht, buch, platte
  <2>2. stunde' \in Stunde
    BY <1>5, GrenzenAssumption DEF KehreReste, StundeVergeht, Stunde, IInv, Gestalt
  <2> QED BY <2>1, <2>2, NurDateien DEF IInv, Gestalt
<1>6. ASSUME Neustart PROVE IInv'
  BY <1>6, NeustartHaelt
<1>7. ASSUME UNCHANGED vars PROVE IInv'
  <2>1. UNCHANGED <<upload, vorgemerkt, datei, stunde>>
    BY <1>7 DEF vars, platte, buch
  <2> QED BY <2>1, NurDateien DEF IInv, Gestalt
<1> QED BY <1>1, <1>2, <1>3, <1>4, <1>5, <1>6, <1>7 DEF Next

(* The inductive invariant holds in every reachable state. *)
THEOREM Invariante == Spec => []IInv
  BY AmAnfang, Induktiv, PTL DEF Spec

(* Half a block is never found under a name (comment at blob_server.py     *)
(* 410-415), for any number of PUTs, names and pieces.                     *)
THEOREM NurGanze == Spec => []NieHalb
<1>1. IInv => NieHalb
  BY DEF IInv
<1> QED BY <1>1, Invariante, PTL

(* What is counted ahead for the day (_tag_vorgemerkt) is the size of the  *)
(* PUTs under way, whichever way each of them ends.                        *)
THEOREM TagesbuchStimmt == Spec => []VormerkungStimmt
<1>1. IInv => VormerkungStimmt
  BY DEF IInv
<1> QED BY <1>1, Invariante, PTL

(* A file under its name is only ever removed (link instead of rename,     *)
(* _lege_endgueltig_ab).                                                   *)
THEOREM DateiBleibt == Spec => NichtUeberschrieben
<1>1. IInv /\ [Next]_vars
        => [\A k \in Kennung : datei[k] # Keine => datei'[k] \in {datei[k], Keine}]_vars
  <2> SUFFICES ASSUME IInv, Next, NEW k \in Kennung, datei[k] # Keine
               PROVE  datei'[k] \in {datei[k], Keine}
    OBVIOUS
  <2> USE DEF IInv, Gestalt
  <2>1. ASSUME NEW u \in Upload, Endgueltig(u) PROVE datei'[k] = datei[k]
    BY <2>1 DEF Endgueltig, NameFrei
  <2>2. ASSUME NEW l \in Kennung, Loesche(l) \/ KehreDatei(l)
        PROVE  datei'[k] \in {datei[k], Keine}
    BY <2>2 DEF Loesche, KehreDatei
  <2>3. CASE UNCHANGED datei
    BY <2>3
  <2>4. \/ \E u \in Upload : Endgueltig(u)
        \/ \E l \in Kennung : Loesche(l) \/ KehreDatei(l)
        \/ UNCHANGED datei
    BY DEF Next, Beginne, Schreibe, Verbuche, Schliesse, Buche, Verwirf, KehreTeil,
           LaeuftAb, KehreReste, StundeVergeht, Neustart, platte
  <2> QED BY <2>1, <2>2, <2>3, <2>4
<1> QED BY <1>1, Invariante, PTL DEF Spec, NichtUeberschrieben

-----------------------------------------------------------------------------

(* The space on the disk, the day's amount and the reservation: what the   *)
(* books say against what the PUTs under way will still take.              *)

(* A PUT that has space on the disk that is in no file yet; and how much   *)
(* of it: the whole from the start, for what is not written is set aside.  *)
Schreibt(r) == r.ph \in Schreibend \/ (r.ph = "fertig" /\ r.teil)
Anspruch(r) == IF Schreibt(r) THEN GROESSE ELSE 0

Offene == [u \in Upload |-> upload[u].offen]
Ansprueche == [u \in Upload |-> Anspruch(upload[u])]

(* The disk holds what lies on it, and what is promised. *)
PlatzReicht ==
    GROESSE * Cardinality(Liegende) + SumFunctionOnSet(Ansprueche, Upload) + reste <= PLATTE

(* A side file with a name belongs to a PUT that writes or waits to link.  *)
TeilNurOffen == \A u \in Upload : upload[u].teil => Schreibt(upload[u])

(* Who is free has nothing set aside. *)
FreiIstLeer == \A u \in Upload : upload[u].ph = "frei" => upload[u].offen = 0

NichtsAusDerZukunft ==
    /\ \A u \in Upload : upload[u].zeit <= stunde
    /\ \A k \in Liegende : datei[k].zeit <= stunde

(* What lies since an hour of the day was booked since then, or is about   *)
(* to be: a booking is never earlier than the last write it is for.        *)
Seit(h) == {s \in Stunde : s >= h}
LiegtSeit(h) == {k \in Liegende : datei[k].zeit >= h}
Abgelegt == {u \in Upload : upload[u].ph = "abgelegt"}
GebuchtOderAbgelegt ==
    \A h \in Stunde : ImFenster(h) =>
        GROESSE * Cardinality(LiegtSeit(h))
            <= SumFunctionOnSet(jeStunde, Seit(h)) + GROESSE * Cardinality(Abgelegt)

(* What is booked and what is counted ahead stay within the day's amount.  *)
TagReicht == HeuteGeschrieben + vorgemerkt <= TAGESMENGE_GESAMT

Buecher ==
    /\ reste \in Nat /\ jeStunde \in [Stunde -> Nat]
    /\ verbraucht \subseteq Kennung /\ abgelaufen \subseteq Kennung
    /\ IsFiniteSet(Liegende)

(* The second part of the inductive invariant. *)
BInv == /\ Buecher /\ PlatzReicht /\ TeilNurOffen /\ ReserveStimmt /\ FreiIstLeer
        /\ NichtsAusDerZukunft /\ GebuchtOderAbgelegt /\ TagReicht

(* Hours, and sets of them, can be counted. *)
LEMMA StundenEndlich ==
  /\ IsFiniteSet(Stunde) /\ STUNDE_MAX \in Nat
  /\ \A T \in SUBSET Stunde : IsFiniteSet(T)
<1>1. STUNDE_MAX \in Nat BY GrenzenAssumption
<1>2. IsFiniteSet(Stunde) BY <1>1, FS_Interval DEF Stunde
<1> QED BY <1>1, <1>2, FS_Subset

LEMMA Anspruchszahl ==
  ASSUME IInv, NEW u \in Upload
  PROVE  /\ Offene[u] = upload[u].offen /\ Offene[u] \in Nat
         /\ Ansprueche[u] = Anspruch(upload[u]) /\ Ansprueche[u] \in Nat
<1>1. GriffGut(upload[u]) BY AlleGut
<1> QED BY <1>1, GroesseAssumption DEF Offene, Ansprueche, Anspruch, GriffGut, Griff

LEMMA Summenzahl ==
  ASSUME IInv
  PROVE  SumFunctionOnSet(Offene, Upload) \in Nat /\ SumFunctionOnSet(Ansprueche, Upload) \in Nat
BY Anspruchszahl, SummeZahl, UploadAssumption

LEMMA ReserveIst ==
  ReserveStimmt <=> reserviert = SumFunctionOnSet(Offene, Upload)
BY DEF ReserveStimmt, SumFunction, Offene

(* The sums of one set of hours. *)
LEMMA Stundensumme ==
  ASSUME BInv, NEW T \in SUBSET Stunde
  PROVE  SumFunctionOnSet(jeStunde, T) \in Nat
BY StundenEndlich, SummeZahl DEF BInv, Buecher

(* One handler changes: the sums follow it. *)
LEMMA EinGriff ==
  ASSUME IInv, NEW u \in Upload, NEW r \in Griff, upload' = [upload EXCEPT ![u] = r]
  PROVE  /\ SumFunctionOnSet(Offene, Upload)'
              = SumFunctionOnSet(Offene, Upload) - upload[u].offen + r.offen
         /\ SumFunctionOnSet(Ansprueche, Upload)'
              = SumFunctionOnSet(Ansprueche, Upload) - Anspruch(upload[u]) + Anspruch(r)
<1>1. \A v \in Upload : upload'[v] = IF v = u THEN r ELSE upload[v]
  BY DEF IInv, Gestalt
<1>2. \A v \in Upload : Offene[v] \in Nat /\ Ansprueche[v] \in Nat BY Anspruchszahl
<1>3. \A v \in Upload : /\ Offene'[v] = IF v = u THEN r.offen ELSE Offene[v]
  BY <1>1 DEF Offene
<1>4. \A v \in Upload : Ansprueche'[v] = IF v = u THEN Anspruch(r) ELSE Ansprueche[v]
  BY <1>1 DEF Ansprueche, Anspruch, Schreibt
<1>5. r.offen \in Nat /\ Anspruch(r) \in Nat BY GroesseAssumption DEF Griff, Anspruch
<1>6. \A v \in Upload : Offene'[v] \in Nat /\ Ansprueche'[v] \in Nat
  BY <1>2, <1>3, <1>4, <1>5
<1>7. SumFunctionOnSet(Offene', Upload)
        = SumFunctionOnSet(Offene, Upload) - Offene[u] + Offene'[u]
  BY <1>2, <1>3, <1>6, SummeGeaendert, UploadAssumption
<1>8. SumFunctionOnSet(Ansprueche', Upload)
        = SumFunctionOnSet(Ansprueche, Upload) - Ansprueche[u] + Ansprueche'[u]
  BY <1>2, <1>4, <1>6, SummeGeaendert, UploadAssumption
<1> QED BY <1>3, <1>4, <1>7, <1>8, Anspruchszahl

(* Files, side files and reservations together are what lies and what is   *)
(* promised; and files and side files are never more than that.            *)
LEMMA Bedarf ==
  ASSUME IInv, BInv
  PROVE  LET B == GROESSE * Cardinality(Liegende) + SumFunctionOnSet(Ansprueche, Upload) + reste
         IN  B \in Nat /\ Belegt \in Nat /\ Belegt <= B /\ B <= Belegt + reserviert
<1> DEFINE D == [k \in Liegende |-> datei[k].stuecke]
           TB == [u \in Upload |-> TeilBelegt(u)]
           M == [u \in Upload |-> TeilBelegt(u) + upload[u].offen]
<1>1. SumFunction(D) = GROESSE * Cardinality(Liegende)
  <2>1. \A k \in Liegende : D[k] = GROESSE BY DEF IInv, NieHalb
  <2>2. IsFiniteSet(Liegende) /\ GROESSE \in Nat BY GroesseAssumption DEF BInv, Buecher
  <2>3. DOMAIN D = Liegende OBVIOUS
  <2> HIDE DEF D
  <2>4. SumFunctionOnSet(D, Liegende) = GROESSE * Cardinality(Liegende)
    BY <2>1, <2>2, SummeGleichviel
  <2> QED BY <2>3, <2>4 DEF SumFunction
<1>2. GROESSE * Cardinality(Liegende) \in Nat
  BY GroesseAssumption, FS_CardinalityType, Malnehmen DEF BInv, Buecher
<1>3. ASSUME NEW u \in Upload
      PROVE  /\ TB[u] \in Nat /\ M[u] = TB[u] + Offene[u] /\ M[u] \in Nat
             /\ TB[u] <= Ansprueche[u] /\ Ansprueche[u] <= M[u]
  <2>1. GriffGut(upload[u]) BY AlleGut
  <2>2. TB[u] \in Nat
    BY <2>1, GroesseAssumption DEF TeilBelegt, GriffGut, Griff
  <2>3. Offene[u] = upload[u].offen /\ Offene[u] \in Nat /\ Ansprueche[u] = Anspruch(upload[u])
    BY Anspruchszahl
  <2>4. TB[u] <= Ansprueche[u]
    BY <2>1, <2>3, GroesseAssumption DEF TeilBelegt, GriffGut, Griff, Anspruch, Schreibt
  <2>5. M[u] = TB[u] + Offene[u] BY <2>3
  <2>6. Ansprueche[u] <= TB[u] + Offene[u]
    BY <2>1, <2>3, GroesseAssumption
       DEF TeilBelegt, GriffGut, Griff, Anspruch, Schreibt, Schreibend
  <2> QED BY <2>2, <2>3, <2>4, <2>5, <2>6
<1>4. DOMAIN TB = Upload OBVIOUS
<1>5. Belegt = SumFunction(D) + SumFunction(TB) + reste BY DEF Belegt
<1> HIDE DEF D, TB, M
<1>6. SumFunction(TB) = SumFunctionOnSet(TB, Upload) BY <1>4 DEF SumFunction
<1>7. SumFunctionOnSet(TB, Upload) <= SumFunctionOnSet(Ansprueche, Upload)
  BY <1>3, Anspruchszahl, SummeMonoton, UploadAssumption
<1>8. SumFunctionOnSet(M, Upload) = SumFunctionOnSet(TB, Upload) + SumFunctionOnSet(Offene, Upload)
  BY <1>3, Anspruchszahl, SummePlus, UploadAssumption
<1>9. SumFunctionOnSet(Ansprueche, Upload) <= SumFunctionOnSet(M, Upload)
  BY <1>3, Anspruchszahl, SummeMonoton, UploadAssumption
<1>10. SumFunctionOnSet(TB, Upload) \in Nat /\ SumFunctionOnSet(Ansprueche, Upload) \in Nat
  BY <1>3, Summenzahl, SummeZahl, UploadAssumption
<1>11. reserviert = SumFunctionOnSet(Offene, Upload) /\ reste \in Nat
  BY ReserveIst DEF BInv, Buecher
<1>12. SumFunctionOnSet(Offene, Upload) \in Nat BY Summenzahl
<1> QED BY <1>1, <1>2, <1>5, <1>6, <1>7, <1>8, <1>9, <1>10, <1>11, <1>12

(* The day's files are within the day's amount: they are booked, or of a   *)
(* PUT that is counted ahead.                                              *)
LEMMA TagFolgt ==
  ASSUME IInv, BInv
  PROVE  /\ TagesmengeHaelt
         /\ GROESSE * Cardinality({l \in Liegende : ImFenster(datei[l].zeit)}) <= TAGESMENGE_GESAMT
<1> DEFINE W == {l \in Liegende : ImFenster(datei[l].zeit)}
           D == [k \in W |-> datei[k].stuecke]
           h == IF stunde - FENSTER + 1 >= 0 THEN stunde - FENSTER + 1 ELSE 0
<1>1. stunde \in Stunde /\ FENSTER \in Nat \ {0} /\ GROESSE \in Nat
  BY FensterAssumption, GroesseAssumption DEF IInv, Gestalt
<1>2. h \in Stunde /\ ImFenster(h) BY <1>1, StundenEndlich DEF Stunde, ImFenster
<1>3. \A s \in Stunde : ImFenster(s) <=> s >= h BY <1>1, StundenEndlich DEF Stunde, ImFenster
<1>4. \A l \in Liegende : datei[l].zeit \in Stunde BY DEF IInv, Gestalt, Liegende, Datei
<1>5. W = LiegtSeit(h) BY <1>3, <1>4 DEF LiegtSeit
<1>6. Seit(h) = {s \in Stunde : ImFenster(s)} BY <1>3 DEF Seit
<1>7. IsFiniteSet(W)
  <2>1. W \subseteq Liegende OBVIOUS
  <2> HIDE DEF W
  <2> QED BY <2>1, FS_Subset DEF BInv, Buecher
<1>8. SumFunction(D) = GROESSE * Cardinality(W)
  <2>1. \A k \in W : D[k] = GROESSE BY DEF IInv, NieHalb
  <2>2. DOMAIN D = W OBVIOUS
  <2> HIDE DEF D, W
  <2>3. SumFunctionOnSet(D, W) = GROESSE * Cardinality(W)
    BY <1>1, <1>7, <2>1, SummeGleichviel
  <2> QED BY <2>2, <2>3 DEF SumFunction
<1> HIDE DEF h
<1>9. GROESSE * Cardinality(W) <= HeuteGeschrieben + GROESSE * Cardinality(Abgelegt)
  <2>1. GROESSE * Cardinality(LiegtSeit(h))
          <= SumFunctionOnSet(jeStunde, Seit(h)) + GROESSE * Cardinality(Abgelegt)
    BY <1>2 DEF BInv, GebuchtOderAbgelegt
  <2> QED BY <1>5, <1>6, <2>1 DEF HeuteGeschrieben
<1>10. GROESSE * Cardinality(Abgelegt) <= vorgemerkt /\ vorgemerkt \in Nat
       /\ GROESSE * Cardinality(Abgelegt) \in Nat
  <2>1. Abgelegt \subseteq Laufend BY DEF Abgelegt, Laufend
  <2>2. Cardinality(Abgelegt) <= Cardinality(Laufend) /\ Cardinality(Abgelegt) \in Nat
    BY <2>1, LaufendEndlich, FS_Subset, FS_CardinalityType
  <2>3. Cardinality(Laufend) \in Nat BY LaufendEndlich
  <2> QED BY <1>1, <2>2, <2>3, Mehr, Malnehmen DEF IInv, VormerkungStimmt
<1>11. HeuteGeschrieben \in Nat
  <2>1. {s \in Stunde : ImFenster(s)} \in SUBSET Stunde OBVIOUS
  <2> QED BY <2>1, Stundensumme DEF HeuteGeschrieben
<1>12. TAGESMENGE_GESAMT \in Nat BY GrenzenAssumption
<1>13. GROESSE * Cardinality(W) \in Nat BY <1>1, <1>7, FS_CardinalityType, Malnehmen
<1>14. GROESSE * Cardinality(W) <= TAGESMENGE_GESAMT
  BY <1>9, <1>10, <1>11, <1>12, <1>13 DEF BInv, TagReicht
<1> QED BY <1>8, <1>14 DEF TagesmengeHaelt


(* The window of the day only moves on. *)
LEMMA FensterRueckt ==
  \A a, b, h \in Int : b >= a /\ h > b - FENSTER => h > a - FENSTER
  BY FensterAssumption

(* Less under the same roof. *)
LEMMA WenigerPasst ==
  \A a \in Nat, b \in Nat, c \in Int :
     a + b <= TAGESMENGE_GESAMT /\ c <= b => a + c <= TAGESMENGE_GESAMT
  BY GrenzenAssumption

(* A step that touches no handler and at most takes something away.        *)
LEMMA NurWeniger ==
  ASSUME IInv, BInv, UNCHANGED <<upload, reserviert, vorgemerkt, jeStunde>>,
         Liegende' \subseteq Liegende, \A k \in Liegende' : datei'[k] = datei[k],
         reste' \in Nat, reste' <= reste, stunde' \in Stunde, stunde' >= stunde,
         verbraucht' \subseteq Kennung, abgelaufen' \subseteq Kennung
  PROVE  BInv'
<1>1. stunde \in Stunde /\ stunde \in Int /\ stunde' \in Int /\ reste \in Nat
      /\ FENSTER \in Nat /\ GROESSE \in Nat
  BY StundenEndlich, FensterAssumption, GroesseAssumption
     DEF IInv, Gestalt, Stunde, BInv, Buecher
<1>2. /\ IsFiniteSet(Liegende) /\ IsFiniteSet(Liegende')
      /\ Cardinality(Liegende') <= Cardinality(Liegende)
      /\ Cardinality(Liegende) \in Nat /\ Cardinality(Liegende') \in Nat
  BY FS_Subset, FS_CardinalityType DEF BInv, Buecher
<1>3. Buecher' BY <1>2 DEF BInv, Buecher
<1>4. Ansprueche' = Ansprueche /\ Offene' = Offene /\ Abgelegt' = Abgelegt
  BY DEF Ansprueche, Offene, Abgelegt, Anspruch, Schreibt
<1>5. PlatzReicht'
  <2>1. /\ GROESSE * Cardinality(Liegende') <= GROESSE * Cardinality(Liegende)
        /\ GROESSE * Cardinality(Liegende) \in Nat /\ GROESSE * Cardinality(Liegende') \in Nat
    BY <1>1, <1>2, Mehr, Malnehmen
  <2> QED BY <1>1, <1>4, <2>1, Summenzahl, GrenzenAssumption DEF BInv, PlatzReicht
<1>6. TeilNurOffen' BY DEF BInv, TeilNurOffen, Schreibt
<1>7. NichtsAusDerZukunft'
  <2>1. \A u \in Upload : upload[u].zeit \in Int BY StundenEndlich DEF IInv, Gestalt, Stunde
  <2>2. \A k \in Liegende : datei[k].zeit \in Int
    BY StundenEndlich DEF IInv, Gestalt, Stunde, Liegende, Datei
  <2> QED BY <1>1, <2>1, <2>2 DEF BInv, NichtsAusDerZukunft
<1>8. GebuchtOderAbgelegt'
  <2> SUFFICES ASSUME NEW h \in Stunde, ImFenster(h)'
               PROVE  GROESSE * Cardinality(LiegtSeit(h)')
                        <= SumFunctionOnSet(jeStunde, Seit(h)) + GROESSE * Cardinality(Abgelegt)
    BY <1>4 DEF GebuchtOderAbgelegt, Seit
  <2>1. h \in Int BY StundenEndlich DEF Stunde
  <2>2. ImFenster(h) BY <1>1, <2>1, FensterRueckt DEF ImFenster
  <2>3. GROESSE * Cardinality(LiegtSeit(h))
          <= SumFunctionOnSet(jeStunde, Seit(h)) + GROESSE * Cardinality(Abgelegt)
    BY <2>2 DEF BInv, GebuchtOderAbgelegt
  <2>4. LiegtSeit(h)' \subseteq LiegtSeit(h) /\ LiegtSeit(h) \subseteq Liegende BY DEF LiegtSeit
  <2>5. /\ Cardinality(LiegtSeit(h)') <= Cardinality(LiegtSeit(h))
        /\ Cardinality(LiegtSeit(h)') \in Nat /\ Cardinality(LiegtSeit(h)) \in Nat
    BY <1>2, <2>4, FS_Subset, FS_CardinalityType
  <2>6. Seit(h) \in SUBSET Stunde BY DEF Seit
  <2>7. SumFunctionOnSet(jeStunde, Seit(h)) \in Nat BY <2>6, Stundensumme
  <2>8. Cardinality(Abgelegt) \in Nat
    <3>1. Abgelegt \subseteq Upload BY DEF Abgelegt
    <3> QED BY <3>1, UploadAssumption, FS_Subset, FS_CardinalityType
  <2>9. /\ GROESSE * Cardinality(LiegtSeit(h)') <= GROESSE * Cardinality(LiegtSeit(h))
        /\ GROESSE * Cardinality(LiegtSeit(h)') \in Nat /\ GROESSE * Cardinality(LiegtSeit(h)) \in Nat
        /\ GROESSE * Cardinality(Abgelegt) \in Nat
    BY <1>1, <2>5, <2>8, Mehr, Malnehmen
  <2> QED BY <2>3, <2>7, <2>9
<1>9. TagReicht'
  <2> DEFINE W == {s \in Stunde : ImFenster(s)}
  <2>1. W' \subseteq W
    <3>1. \A s \in Stunde : s \in Int BY StundenEndlich DEF Stunde
    <3>2. \A s \in Stunde : ImFenster(s)' => ImFenster(s) BY <1>1, <3>1, FensterRueckt DEF ImFenster
    <3> QED BY <3>2
  <2>2. W \in SUBSET Stunde /\ IsFiniteSet(W) BY StundenEndlich
  <2>3. \A s \in W : jeStunde[s] \in Nat BY DEF BInv, Buecher
  <2>4. HeuteGeschrieben = SumFunctionOnSet(jeStunde, W)
        /\ HeuteGeschrieben' = SumFunctionOnSet(jeStunde, W')
    BY DEF HeuteGeschrieben
  <2> HIDE DEF W
  <2>5. SumFunctionOnSet(jeStunde, W') <= SumFunctionOnSet(jeStunde, W)
        /\ SumFunctionOnSet(jeStunde, W') \in Nat /\ SumFunctionOnSet(jeStunde, W) \in Nat
    BY <2>1, <2>2, <2>3, SummeTeil
  <2>6. vorgemerkt \in Int
    BY LaufendEndlich, GroesseAssumption, Malnehmen DEF IInv, VormerkungStimmt
  <2> QED BY <2>4, <2>5, <2>6, GrenzenAssumption DEF BInv, TagReicht
<1>10. ReserveStimmt' /\ FreiIstLeer' BY DEF BInv, ReserveStimmt, FreiIstLeer
<1> QED BY <1>3, <1>5, <1>6, <1>7, <1>8, <1>9, <1>10 DEF BInv

(* A step of one handler that leaves the files and the day's list alone.   *)
LEMMA NurGriffB ==
  ASSUME IInv, BInv, NEW u \in Upload, NEW r \in Griff,
         upload' = [upload EXCEPT ![u] = r], UNCHANGED <<datei, stunde, reste, jeStunde>>,
         reserviert' = reserviert - upload[u].offen + r.offen,
         r.zeit <= stunde, r.teil => Schreibt(r), r.ph = "frei" => r.offen = 0,
         r.ph = "abgelegt" <=> upload[u].ph = "abgelegt",
         verbraucht' \subseteq Kennung, abgelaufen' \subseteq Kennung,
         PlatzReicht', TagReicht'
  PROVE  BInv'
<1>1. \A v \in Upload : upload'[v] = IF v = u THEN r ELSE upload[v]
  BY DEF IInv, Gestalt
<1>2. Liegende' = Liegende BY DEF Liegende
<1>3. Buecher' BY <1>2 DEF BInv, Buecher
<1>4. TeilNurOffen'
  <2> SUFFICES ASSUME NEW v \in Upload, upload'[v].teil PROVE Schreibt(upload'[v])
    BY DEF TeilNurOffen, Schreibt
  <2> QED BY <1>1 DEF BInv, TeilNurOffen
<1>5. NichtsAusDerZukunft' BY <1>1, <1>2 DEF BInv, NichtsAusDerZukunft
<1>6. Abgelegt' = Abgelegt BY <1>1 DEF Abgelegt
<1>7. GebuchtOderAbgelegt'
  <2> SUFFICES ASSUME NEW h \in Stunde, ImFenster(h)'
               PROVE  GROESSE * Cardinality(LiegtSeit(h)')
                        <= SumFunctionOnSet(jeStunde, Seit(h)) + GROESSE * Cardinality(Abgelegt)
    BY <1>6 DEF GebuchtOderAbgelegt, Seit
  <2>1. LiegtSeit(h)' = LiegtSeit(h) BY <1>2 DEF LiegtSeit
  <2> QED BY <2>1 DEF BInv, GebuchtOderAbgelegt, ImFenster
<1>8. ReserveStimmt'
  <2>1. reserviert = SumFunctionOnSet(Offene, Upload) BY ReserveIst DEF BInv
  <2>2. reserviert' = SumFunctionOnSet(Offene, Upload)' BY <2>1, EinGriff
  <2> QED BY <2>2 DEF ReserveStimmt, SumFunction, Offene
<1>9. FreiIstLeer' BY <1>1 DEF BInv, FreiIstLeer
<1> QED BY <1>3, <1>4, <1>5, <1>7, <1>8, <1>9 DEF BInv

(* If the handler claims no more space than before, there is enough.       *)
LEMMA PlatzBleibt ==
  ASSUME IInv, BInv, NEW u \in Upload, NEW r \in Griff,
         upload' = [upload EXCEPT ![u] = r], UNCHANGED <<datei, reste>>,
         Schreibt(r) => Schreibt(upload[u])
  PROVE  PlatzReicht'
<1>1. Liegende' = Liegende BY DEF Liegende
<1>2. Anspruch(r) <= Anspruch(upload[u]) /\ Anspruch(r) \in Nat /\ Anspruch(upload[u]) \in Nat
  BY GroesseAssumption DEF Anspruch
<1>3. SumFunctionOnSet(Ansprueche, Upload)'
        = SumFunctionOnSet(Ansprueche, Upload) - Anspruch(upload[u]) + Anspruch(r)
  BY EinGriff
<1>4. GROESSE * Cardinality(Liegende) \in Nat /\ reste \in Nat
  BY GroesseAssumption, FS_CardinalityType, Malnehmen DEF BInv, Buecher
<1>5. PLATTE \in Nat BY GrenzenAssumption
<1> QED BY <1>1, <1>2, <1>3, <1>4, <1>5, Summenzahl DEF BInv, PlatzReicht

(* What is counted ahead for the day is a number. *)
LEMMA Vormerkzahl == IInv => vorgemerkt \in Nat /\ GROESSE \in Nat
BY LaufendEndlich, GroesseAssumption, Malnehmen DEF IInv, VormerkungStimmt

(* If the day's list and what is counted ahead stay, or that falls, there  *)
(* is enough left of the day.                                              *)
LEMMA TagBleibt ==
  ASSUME IInv, BInv, UNCHANGED <<stunde, jeStunde>>, vorgemerkt' \in Int, vorgemerkt' <= vorgemerkt
  PROVE  TagReicht'
<1>1. HeuteGeschrieben' = HeuteGeschrieben BY DEF HeuteGeschrieben, ImFenster
<1>2. {s \in Stunde : ImFenster(s)} \in SUBSET Stunde OBVIOUS
<1>3. HeuteGeschrieben \in Nat BY <1>2, Stundensumme DEF HeuteGeschrieben
<1>4. TAGESMENGE_GESAMT \in Nat /\ vorgemerkt \in Nat BY GrenzenAssumption, Vormerkzahl
<1>5. HeuteGeschrieben + vorgemerkt' <= TAGESMENGE_GESAMT
  BY <1>3, <1>4, WenigerPasst DEF BInv, TagReicht
<1> QED BY <1>1, <1>5 DEF TagReicht

----------------------------------------------------------------------------
(* The steps of a PUT, and the second part. *)

LEMMA BeginneB ==
  ASSUME IInv, BInv, NEW u \in Upload, NEW k \in Kennung, Beginne(u, k)
  PROVE  BInv'
<1> DEFINE r == [ph |-> "empfaengt", k |-> k, stuecke |-> 0,
                 zeit |-> stunde, offen |-> GROESSE, teil |-> TRUE]
<1>0. upload[u].ph = "frei" BY DEF Beginne
<1>1. r \in Griff BY GroesseAssumption DEF IInv, Gestalt, Griff, Stelle
<1>2. upload' = [upload EXCEPT ![u] = r] /\ UNCHANGED <<datei, stunde, reste, jeStunde, abgelaufen>>
  BY DEF Beginne, platte
<1>3. GriffGut(upload[u]) BY AlleGut
<1>4. GROESSE \in Nat /\ stunde \in Int BY GroesseAssumption, StundenEndlich DEF IInv, Gestalt, Stunde
<1>5. Liegende' = Liegende BY <1>2 DEF Liegende
<1>6. ~Schreibt(upload[u]) /\ Schreibt(r) BY <1>0 DEF Schreibt, Schreibend
<1>7. r.offen = GROESSE /\ r.zeit = stunde /\ r.ph = "empfaengt" /\ r.teil OBVIOUS
<1> HIDE DEF r
<1>8. PlatzReicht'
  <2>1. SumFunctionOnSet(Ansprueche, Upload)' = SumFunctionOnSet(Ansprueche, Upload) - 0 + GROESSE
    BY <1>1, <1>2, <1>6, EinGriff DEF Anspruch
  <2>2. Belegt + reserviert + GROESSE <= PLATTE BY DEF Beginne, Passt
  <2> DEFINE B == GROESSE * Cardinality(Liegende) + SumFunctionOnSet(Ansprueche, Upload) + reste
  <2>3. B \in Nat /\ Belegt \in Nat /\ B <= Belegt + reserviert BY Bedarf
  <2>4. PLATTE \in Nat /\ reserviert \in Nat
    BY GrenzenAssumption, ReserveIst, Summenzahl DEF BInv
  <2>5. B' = B + GROESSE
    <3>1. GROESSE * Cardinality(Liegende) \in Nat /\ reste \in Nat
      BY <1>4, FS_CardinalityType, Malnehmen DEF BInv, Buecher
    <3> QED BY <1>2, <1>4, <1>5, <2>1, <3>1, Summenzahl
  <2>6. PlatzReicht' = (B' <= PLATTE) BY DEF PlatzReicht
  <2> HIDE DEF B
  <2>7. B + GROESSE <= PLATTE BY <1>4, <2>2, <2>3, <2>4
  <2> QED BY <2>5, <2>6, <2>7
<1>9. TagReicht'
  <2>1. HeuteGeschrieben' = HeuteGeschrieben BY <1>2 DEF HeuteGeschrieben, ImFenster
  <2>2. HeuteGeschrieben + vorgemerkt + GROESSE <= TAGESMENGE_GESAMT BY DEF Beginne, PasstHeute
  <2>3. {s \in Stunde : ImFenster(s)} \in SUBSET Stunde OBVIOUS
  <2>4. HeuteGeschrieben \in Nat BY <2>3, Stundensumme DEF HeuteGeschrieben
  <2>5. vorgemerkt' = vorgemerkt + GROESSE BY DEF Beginne
  <2> QED BY <1>4, <2>1, <2>2, <2>4, <2>5, Vormerkzahl DEF TagReicht
<1>10. reserviert' = reserviert - upload[u].offen + r.offen
  <2>1. upload[u].offen = 0 BY <1>0 DEF BInv, FreiIstLeer
  <2>2. reserviert \in Nat BY ReserveIst, Summenzahl DEF BInv
  <2> QED BY <1>4, <1>7, <2>1, <2>2 DEF Beginne
<1>11. verbraucht' \subseteq Kennung /\ abgelaufen' \subseteq Kennung
  BY <1>2 DEF Beginne, BInv, Buecher
<1>12. r.zeit <= stunde /\ (r.ph = "abgelegt" <=> upload[u].ph = "abgelegt") /\ r.ph # "frei"
  BY <1>0, <1>4, <1>7
<1> QED BY <1>1, <1>2, <1>6, <1>8, <1>9, <1>10, <1>11, <1>12, NurGriffB

LEMMA SchreibeB ==
  ASSUME IInv, BInv, NEW u \in Upload, Schreibe(u)
  PROVE  BInv'
<1> DEFINE a == upload[u]
           r == [ph |-> "schrieb", k |-> a.k, stuecke |-> a.stuecke + 1,
                 zeit |-> stunde, offen |-> a.offen, teil |-> a.teil]
<1>1. upload \in [Upload -> Griff] /\ GriffGut(a) /\ stunde \in Stunde /\ stunde \in Int
  BY AlleGut, StundenEndlich DEF IInv, Gestalt, Griff, Stunde
<1>2. r \in Griff BY <1>1, GroesseAssumption DEF Schreibe, GriffGut, Griff, Stelle
<1>3. upload' = [upload EXCEPT ![u] = r] BY <1>1 DEF Schreibe, Griff
<1>4. /\ UNCHANGED <<datei, stunde, reste, jeStunde, vorgemerkt, reserviert, verbraucht, abgelaufen>>
      /\ a.ph = "empfaengt"
  BY DEF Schreibe, platte, buch
<1>5. /\ Schreibt(r) /\ Schreibt(upload[u])
      /\ r.offen = upload[u].offen /\ r.zeit = stunde /\ r.ph = "schrieb"
  BY <1>4 DEF Schreibt, Schreibend
<1>6. reserviert' = reserviert - upload[u].offen + r.offen
  <2>1. reserviert \in Nat /\ upload[u].offen \in Nat
    BY ReserveIst, Summenzahl, Anspruchszahl DEF BInv
  <2> QED BY <1>4, <1>5, <2>1
<1>7. verbraucht' \subseteq Kennung /\ abgelaufen' \subseteq Kennung BY <1>4 DEF BInv, Buecher
<1> HIDE DEF r
<1>8. PlatzReicht' BY <1>2, <1>3, <1>4, <1>5, PlatzBleibt
<1>9. TagReicht' BY <1>4, Vormerkzahl, TagBleibt
<1>10. r.zeit <= stunde /\ (r.ph = "abgelegt" <=> upload[u].ph = "abgelegt") /\ r.ph # "frei"
  BY <1>1, <1>4, <1>5
<1> QED BY <1>2, <1>3, <1>4, <1>5, <1>6, <1>7, <1>8, <1>9, <1>10, NurGriffB

LEMMA VerbucheB ==
  ASSUME IInv, BInv, NEW u \in Upload, Verbuche(u)
  PROVE  BInv'
<1> DEFINE a == upload[u]
           r == [ph |-> "empfaengt", k |-> a.k, stuecke |-> a.stuecke,
                 zeit |-> a.zeit, offen |-> a.offen - 1, teil |-> a.teil]
<1>1. upload \in [Upload -> Griff] /\ GriffGut(a)
  BY AlleGut DEF IInv, Gestalt, Griff
<1>2. r \in Griff BY <1>1, GroesseAssumption DEF Verbuche, GriffGut, Griff, Stelle
<1>3. upload' = [upload EXCEPT ![u] = r] BY <1>1 DEF Verbuche, Griff
<1>4. /\ UNCHANGED <<datei, stunde, reste, jeStunde, vorgemerkt, verbraucht, abgelaufen>>
      /\ a.ph = "schrieb" /\ reserviert' = reserviert - 1
  BY DEF Verbuche, platte
<1>5. /\ Schreibt(r) /\ Schreibt(upload[u])
      /\ r.offen = upload[u].offen - 1 /\ r.zeit = upload[u].zeit /\ r.ph = "empfaengt"
  BY <1>4 DEF Schreibt, Schreibend
<1>6. reserviert' = reserviert - upload[u].offen + r.offen
  <2>1. reserviert \in Nat /\ upload[u].offen \in Nat
    BY ReserveIst, Summenzahl, Anspruchszahl DEF BInv
  <2> QED BY <1>4, <1>5, <2>1
<1>7. verbraucht' \subseteq Kennung /\ abgelaufen' \subseteq Kennung BY <1>4 DEF BInv, Buecher
<1>8. r.zeit <= stunde BY <1>5 DEF BInv, NichtsAusDerZukunft
<1> HIDE DEF r
<1>9. PlatzReicht' BY <1>2, <1>3, <1>4, <1>5, PlatzBleibt
<1>10. TagReicht' BY <1>4, Vormerkzahl, TagBleibt
<1> QED BY <1>2, <1>3, <1>4, <1>5, <1>6, <1>7, <1>8, <1>9, <1>10, NurGriffB

LEMMA SchliesseB ==
  ASSUME IInv, BInv, NEW u \in Upload, Schliesse(u)
  PROVE  BInv'
<1> DEFINE a == upload[u]
           r == [a EXCEPT !.ph = "fertig"]
<1>1. upload \in [Upload -> Griff] /\ GriffGut(a) /\ a \in Griff
  BY AlleGut DEF IInv, Gestalt, Griff, GriffGut
<1>2. r \in Griff BY <1>1 DEF Griff, Stelle
<1>3. upload' = [upload EXCEPT ![u] = r] BY <1>1 DEF Schliesse
<1>4. /\ UNCHANGED <<datei, stunde, reste, jeStunde, vorgemerkt, reserviert, verbraucht, abgelaufen>>
      /\ a.ph = "empfaengt"
  BY DEF Schliesse, platte, buch
<1>5. r.offen = a.offen /\ r.zeit = a.zeit /\ r.ph = "fertig" /\ r.teil = a.teil
  BY <1>1 DEF Griff
<1>6. Schreibt(upload[u]) /\ (r.teil => Schreibt(r)) BY <1>4, <1>5 DEF Schreibt, Schreibend
<1>7. reserviert' = reserviert - upload[u].offen + r.offen
  <2>1. reserviert \in Nat /\ upload[u].offen \in Nat
    BY ReserveIst, Summenzahl, Anspruchszahl DEF BInv
  <2> QED BY <1>4, <1>5, <2>1
<1>8. verbraucht' \subseteq Kennung /\ abgelaufen' \subseteq Kennung BY <1>4 DEF BInv, Buecher
<1>9. r.zeit <= stunde BY <1>5 DEF BInv, NichtsAusDerZukunft
<1> HIDE DEF r
<1>10. PlatzReicht' BY <1>2, <1>3, <1>4, <1>6, PlatzBleibt
<1>11. TagReicht' BY <1>4, Vormerkzahl, TagBleibt
<1> QED BY <1>2, <1>3, <1>4, <1>5, <1>6, <1>7, <1>8, <1>9, <1>10, <1>11, NurGriffB

LEMMA KehreTeilB ==
  ASSUME IInv, BInv, NEW u \in Upload, KehreTeil(u)
  PROVE  BInv'
<1> DEFINE a == upload[u]
           r == [a EXCEPT !.teil = FALSE]
<1>1. upload \in [Upload -> Griff] /\ GriffGut(a) /\ a \in Griff
  BY AlleGut DEF IInv, Gestalt, Griff, GriffGut
<1>2. r \in Griff BY <1>1 DEF Griff
<1>3. upload' = [upload EXCEPT ![u] = r] BY <1>1 DEF KehreTeil
<1>4. /\ UNCHANGED <<datei, stunde, reste, jeStunde, vorgemerkt, reserviert, verbraucht, abgelaufen>>
      /\ a.teil
  BY DEF KehreTeil, platte, buch
<1>5. r.offen = a.offen /\ r.zeit = a.zeit /\ r.ph = a.ph /\ r.teil = FALSE
  BY <1>1 DEF Griff
<1>6. Schreibt(upload[u]) /\ ~r.teil /\ upload[u].ph # "frei"
  BY <1>4, <1>5 DEF BInv, TeilNurOffen, Schreibt, Schreibend
<1>7. reserviert' = reserviert - upload[u].offen + r.offen
  <2>1. reserviert \in Nat /\ upload[u].offen \in Nat
    BY ReserveIst, Summenzahl, Anspruchszahl DEF BInv
  <2> QED BY <1>4, <1>5, <2>1
<1>8. verbraucht' \subseteq Kennung /\ abgelaufen' \subseteq Kennung BY <1>4 DEF BInv, Buecher
<1>9. r.zeit <= stunde BY <1>5 DEF BInv, NichtsAusDerZukunft
<1> HIDE DEF r
<1>10. PlatzReicht' BY <1>2, <1>3, <1>4, <1>6, PlatzBleibt
<1>11. TagReicht' BY <1>4, Vormerkzahl, TagBleibt
<1> QED BY <1>2, <1>3, <1>4, <1>5, <1>6, <1>7, <1>8, <1>9, <1>10, <1>11, NurGriffB

(* A PUT that is thrown away gives back what it had. *)
LEMMA VerwirfB ==
  ASSUME IInv, BInv, NEW u \in Upload, Verwirf(u)
  PROVE  BInv'
<1>1. /\ UNCHANGED <<datei, stunde, reste, jeStunde, verbraucht, abgelaufen>>
      /\ upload[u].ph \in {"empfaengt", "schrieb", "fertig"}
      /\ reserviert' = reserviert - upload[u].offen /\ vorgemerkt' = vorgemerkt - GROESSE
      /\ upload' = [upload EXCEPT ![u] = Frei]
  BY DEF Verwirf, GibFrei, Rest, platte
<1>2. stunde \in Stunde /\ stunde >= 0 BY StundenEndlich DEF IInv, Gestalt, Stunde
<1>3. Frei \in Griff BY <1>2, FreiGut DEF GriffGut
<1>4. Frei.offen = 0 /\ Frei.zeit = 0 /\ Frei.ph = "frei" /\ ~Frei.teil BY DEF Frei
<1>5. ~Schreibt(Frei) BY <1>4 DEF Schreibt, Schreibend
<1>6. reserviert' = reserviert - upload[u].offen + Frei.offen
  <2>1. reserviert \in Nat /\ upload[u].offen \in Nat
    BY ReserveIst, Summenzahl, Anspruchszahl DEF BInv
  <2> QED BY <1>1, <1>4, <2>1
<1>7. verbraucht' \subseteq Kennung /\ abgelaufen' \subseteq Kennung BY <1>1 DEF BInv, Buecher
<1>8. PlatzReicht' BY <1>1, <1>3, <1>5, PlatzBleibt
<1>9. TagReicht' BY <1>1, Vormerkzahl, TagBleibt
<1> QED BY <1>1, <1>2, <1>3, <1>4, <1>5, <1>6, <1>7, <1>8, <1>9, NurGriffB


(* The PUTs that wait to be booked can be counted. *)
LEMMA AbgelegtZahl == Cardinality(Abgelegt) \in Nat /\ IsFiniteSet(Abgelegt)
<1>1. Abgelegt \subseteq Upload BY DEF Abgelegt
<1> QED BY <1>1, UploadAssumption, FS_Subset, FS_CardinalityType

(* The files since an hour can be counted. *)
LEMMA LiegtZahl ==
  ASSUME BInv, NEW h
  PROVE  IsFiniteSet(LiegtSeit(h)) /\ Cardinality(LiegtSeit(h)) \in Nat
<1>1. LiegtSeit(h) \subseteq Liegende BY DEF LiegtSeit
<1> QED BY <1>1, FS_Subset, FS_CardinalityType DEF BInv, Buecher

(* One more, a size more. *)
LEMMA EineGroesse ==
  /\ GROESSE \in Nat
  /\ \A n \in Nat : /\ GROESSE * n \in Nat
                    /\ GROESSE * (n + 1) = GROESSE * n + GROESSE
  /\ \A m, n \in Nat : m <= n => GROESSE * m <= GROESSE * n
<1>1. GROESSE \in Nat BY GroesseAssumption
<1>2. \A n \in Nat : GROESSE * n \in Nat /\ GROESSE * (n + 1) = GROESSE + GROESSE * n
  BY <1>1, Malnehmen
<1>3. \A m, n \in Nat : m <= n => GROESSE * m <= GROESSE * n BY <1>1, Mehr
<1> QED BY <1>1, <1>2, <1>3

(* A set grows by one element at most. *)
LEMMA HoechstensEinsMehr ==
  ASSUME NEW S, IsFiniteSet(S), NEW x, NEW T, T \subseteq S \cup {x}
  PROVE  /\ IsFiniteSet(T) /\ Cardinality(T) \in Nat /\ Cardinality(S) \in Nat
         /\ Cardinality(T) <= Cardinality(S) + 1
<1>1. Cardinality(S) \in Nat BY FS_CardinalityType
<1>2. PICK U : U = S \cup {x} OBVIOUS
<1>3. IsFiniteSet(U) /\ Cardinality(U) = IF x \in S THEN Cardinality(S) ELSE Cardinality(S) + 1
  BY <1>2, FS_AddElement
<1>4. Cardinality(U) <= Cardinality(S) + 1 /\ Cardinality(U) \in Nat BY <1>1, <1>3
<1>5. IsFiniteSet(T) /\ Cardinality(T) <= Cardinality(U) BY <1>2, <1>3, FS_Subset
<1>6. Cardinality(T) \in Nat BY <1>5, FS_CardinalityType
<1> QED BY <1>1, <1>4, <1>5, <1>6

(* The link: space and the day's amount pass from the PUT to the file. *)
LEMMA EndgueltigB ==
  ASSUME IInv, BInv, NEW u \in Upload, Endgueltig(u)
  PROVE  BInv'
<1> DEFINE a == upload[u]
           k == a.k
           r == [ph |-> "abgelegt", k |-> a.k, stuecke |-> a.stuecke,
                 zeit |-> a.zeit, offen |-> a.offen, teil |-> FALSE]
           d == [stuecke |-> a.stuecke, zeit |-> a.zeit, von |-> u]
<1>1. upload \in [Upload -> Griff] /\ GriffGut(a) /\ a \in Griff
  BY AlleGut DEF IInv, Gestalt, Griff, GriffGut
<1>2. r \in Griff BY <1>1 DEF Griff, Stelle
<1>3. upload' = [upload EXCEPT ![u] = r] BY <1>1 DEF Endgueltig, Griff
<1>4. /\ UNCHANGED <<stunde, reste, jeStunde, vorgemerkt, reserviert, verbraucht, abgelaufen>>
      /\ a.ph = "fertig" /\ a.teil /\ datei[k] = Keine
      /\ datei' = [datei EXCEPT ![k] = d]
  BY DEF Endgueltig, NameFrei, buch
<1>5. k \in Kennung /\ a.stuecke = GROESSE BY <1>1, <1>4 DEF GriffGut
<1>6. datei \in [Kennung -> Datei \cup {Keine}] BY DEF IInv, Gestalt
<1>7. \A l \in Kennung : datei'[l] = IF l = k THEN d ELSE datei[l] BY <1>4, <1>6
<1>8. /\ r.offen = a.offen /\ r.zeit = a.zeit /\ r.ph = "abgelegt" /\ ~r.teil
      /\ d.zeit = a.zeit
  OBVIOUS
<1>9. Schreibt(a) /\ ~Schreibt(r) BY <1>4, <1>8 DEF Schreibt, Schreibend
<1>10. \A v \in Upload : upload'[v] = IF v = u THEN r ELSE upload[v] BY <1>1, <1>3
<1> HIDE DEF r, d
<1>11. Liegende' \subseteq Liegende \cup {k}
  BY <1>7 DEF Liegende
<1>12. /\ IsFiniteSet(Liegende') /\ Cardinality(Liegende') <= Cardinality(Liegende) + 1
       /\ Cardinality(Liegende) \in Nat /\ Cardinality(Liegende') \in Nat
  <2>1. IsFiniteSet(Liegende) BY DEF BInv, Buecher
  <2> QED BY <1>11, <2>1, HoechstensEinsMehr
<1>13. Buecher' BY <1>4, <1>12 DEF BInv, Buecher
<1>14. PlatzReicht'
  <2>1. SumFunctionOnSet(Ansprueche, Upload)' = SumFunctionOnSet(Ansprueche, Upload) - GROESSE + 0
    BY <1>2, <1>3, <1>9, EinGriff DEF Anspruch
  <2>2. PICK m \in Nat : m = Cardinality(Liegende)' BY <1>12
  <2>3. GROESSE * m <= GROESSE * Cardinality(Liegende) + GROESSE
        /\ GROESSE * m \in Nat /\ GROESSE * Cardinality(Liegende) \in Nat
    BY <1>12, <2>2, EineGroesse
  <2>4. PICK s \in Nat : s = SumFunctionOnSet(Ansprueche, Upload) BY Summenzahl
  <2>5. GROESSE * Cardinality(Liegende) + s + reste <= PLATTE BY <2>4 DEF BInv, PlatzReicht
  <2>6. reste \in Nat /\ PLATTE \in Nat /\ GROESSE \in Nat
    BY GrenzenAssumption, GroesseAssumption DEF BInv, Buecher
  <2>7. GROESSE * m + (s - GROESSE) + reste <= PLATTE BY <2>3, <2>5, <2>6
  <2>8. SumFunctionOnSet(Ansprueche, Upload)' = s - GROESSE BY <2>1, <2>4, <2>6
  <2> QED BY <1>4, <2>2, <2>7, <2>8 DEF PlatzReicht
<1>15. TeilNurOffen'
  <2> SUFFICES ASSUME NEW v \in Upload, upload'[v].teil PROVE Schreibt(upload'[v])
    BY DEF TeilNurOffen, Schreibt
  <2> QED BY <1>8, <1>10 DEF BInv, TeilNurOffen
<1>16. ReserveStimmt'
  <2>1. reserviert = SumFunctionOnSet(Offene, Upload) BY ReserveIst DEF BInv
  <2>2. SumFunctionOnSet(Offene, Upload)' = SumFunctionOnSet(Offene, Upload) - a.offen + a.offen
    BY <1>2, <1>3, <1>8, EinGriff
  <2>3. a.offen \in Nat /\ SumFunctionOnSet(Offene, Upload) \in Nat
    BY Anspruchszahl, Summenzahl
  <2>4. reserviert' = SumFunctionOnSet(Offene, Upload)' BY <1>4, <2>1, <2>2, <2>3
  <2> QED BY <2>4 DEF ReserveStimmt, SumFunction, Offene
<1>17. FreiIstLeer' BY <1>8, <1>10 DEF BInv, FreiIstLeer
<1>18. a.zeit <= stunde BY DEF BInv, NichtsAusDerZukunft
<1>19. NichtsAusDerZukunft'
  <2>1. \A v \in Upload : upload'[v].zeit <= stunde
    BY <1>8, <1>10, <1>18 DEF BInv, NichtsAusDerZukunft
  <2>2. \A l \in Liegende' : datei'[l].zeit <= stunde
    <3> SUFFICES ASSUME NEW l \in Liegende' PROVE datei'[l].zeit <= stunde
      OBVIOUS
    <3>1. l \in Kennung BY DEF Liegende
    <3>2. CASE l = k BY <1>7, <1>8, <1>18, <3>1, <3>2
    <3>3. CASE l # k
      <4>1. datei'[l] = datei[l] /\ l \in Liegende BY <1>7, <1>11, <3>1, <3>3
      <4> QED BY <4>1 DEF BInv, NichtsAusDerZukunft
    <3> QED BY <3>2, <3>3
  <2> QED BY <1>4, <2>1, <2>2 DEF NichtsAusDerZukunft
<1>20. Cardinality(Abgelegt)' = Cardinality(Abgelegt) + 1
  <2>1. Abgelegt' = Abgelegt \cup {u} /\ u \notin Abgelegt BY <1>4, <1>8, <1>10 DEF Abgelegt
  <2> QED BY <2>1, AbgelegtZahl, FS_AddElement
<1>21. GebuchtOderAbgelegt'
  <2> SUFFICES ASSUME NEW h \in Stunde, ImFenster(h)'
               PROVE  GROESSE * Cardinality(LiegtSeit(h)')
                        <= SumFunctionOnSet(jeStunde, Seit(h)) + GROESSE * Cardinality(Abgelegt')
    BY <1>4 DEF GebuchtOderAbgelegt, Seit
  <2>1. ImFenster(h) BY <1>4 DEF ImFenster
  <2>2. GROESSE * Cardinality(LiegtSeit(h))
          <= SumFunctionOnSet(jeStunde, Seit(h)) + GROESSE * Cardinality(Abgelegt)
    BY <2>1 DEF BInv, GebuchtOderAbgelegt
  <2>3. LiegtSeit(h)' \subseteq LiegtSeit(h) \cup {k}
    <3> SUFFICES ASSUME NEW l \in LiegtSeit(h)', l # k PROVE l \in LiegtSeit(h)
      OBVIOUS
    <3>1. l \in Liegende' /\ datei'[l].zeit >= h BY DEF LiegtSeit
    <3>2. l \in Liegende /\ l \in Kennung BY <1>11, <3>1 DEF Liegende
    <3>3. datei'[l] = datei[l] BY <1>7, <3>2
    <3> QED BY <3>1, <3>2, <3>3 DEF LiegtSeit
  <2>4. PICK x : x = LiegtSeit(h)' OBVIOUS
  <2>5. Cardinality(x) <= Cardinality(LiegtSeit(h)) + 1 /\ Cardinality(x) \in Nat
    <3>1. IsFiniteSet(LiegtSeit(h)) BY LiegtZahl
    <3> QED BY <2>3, <2>4, <3>1, HoechstensEinsMehr
  <2>6. GROESSE * Cardinality(x) <= GROESSE * Cardinality(LiegtSeit(h)) + GROESSE
        /\ GROESSE * Cardinality(x) \in Nat /\ GROESSE * Cardinality(LiegtSeit(h)) \in Nat
    BY <2>5, LiegtZahl, EineGroesse
  <2>7. GROESSE * (Cardinality(Abgelegt) + 1) = GROESSE * Cardinality(Abgelegt) + GROESSE
        /\ GROESSE * Cardinality(Abgelegt) \in Nat /\ GROESSE \in Nat
    BY AbgelegtZahl, EineGroesse
  <2>8. Seit(h) \in SUBSET Stunde BY DEF Seit
  <2>9. SumFunctionOnSet(jeStunde, Seit(h)) \in Nat BY <2>8, Stundensumme
  <2>10. GROESSE * Cardinality(x)
           <= SumFunctionOnSet(jeStunde, Seit(h)) + GROESSE * (Cardinality(Abgelegt) + 1)
    BY <2>2, <2>6, <2>7, <2>9
  <2> QED BY <1>20, <2>4, <2>10
<1>22. TagReicht' BY <1>4, Vormerkzahl, TagBleibt
<1> QED BY <1>13, <1>14, <1>15, <1>16, <1>17, <1>19, <1>21, <1>22 DEF BInv

(* The booking: the day's amount passes from what is counted ahead to the  *)
(* present hour.                                                           *)
LEMMA BucheB ==
  ASSUME IInv, BInv, NEW u \in Upload, Buche(u)
  PROVE  BInv'
<1>1. /\ UNCHANGED <<datei, reste, abgelaufen, stunde>> /\ upload[u].ph = "abgelegt"
      /\ jeStunde' = [jeStunde EXCEPT ![stunde] = jeStunde[stunde] + GROESSE]
      /\ reserviert' = reserviert - upload[u].offen /\ vorgemerkt' = vorgemerkt - GROESSE
      /\ verbraucht' = verbraucht \cup {upload[u].k}
      /\ upload' = [upload EXCEPT ![u] = Frei]
  BY DEF Buche, GibFrei, Rest, platte
<1>2. /\ stunde \in Stunde /\ stunde \in Nat /\ GROESSE \in Nat /\ FENSTER \in Nat \ {0}
      /\ jeStunde \in [Stunde -> Nat]
  BY StundenEndlich, FensterAssumption, GroesseAssumption
     DEF IInv, Gestalt, Stunde, BInv, Buecher
<1>3. Frei \in Griff BY <1>2, FreiGut DEF GriffGut
<1>4. Frei.offen = 0 /\ Frei.zeit = 0 /\ Frei.ph = "frei" /\ ~Frei.teil BY DEF Frei
<1>5. ~Schreibt(Frei) /\ ~Schreibt(upload[u]) BY <1>1, <1>4 DEF Schreibt, Schreibend
<1>6. \A v \in Upload : upload'[v] = IF v = u THEN Frei ELSE upload[v] BY <1>1 DEF IInv, Gestalt
<1>7. Liegende' = Liegende BY <1>1 DEF Liegende
<1>8. \A s \in Stunde : jeStunde'[s] = IF s = stunde THEN jeStunde[s] + GROESSE ELSE jeStunde[s]
  BY <1>1, <1>2
<1>9. Buecher'
  <2>1. upload[u].k \in Kennung BY <1>1 DEF IInv, KenntNamen
  <2>2. jeStunde' \in [Stunde -> Nat] BY <1>1, <1>2
  <2> QED BY <1>1, <1>7, <2>1, <2>2 DEF BInv, Buecher
<1>10. PlatzReicht' BY <1>1, <1>3, <1>5, PlatzBleibt
<1>11. TeilNurOffen'
  <2> SUFFICES ASSUME NEW v \in Upload, upload'[v].teil PROVE Schreibt(upload'[v])
    BY DEF TeilNurOffen, Schreibt
  <2> QED BY <1>4, <1>6 DEF BInv, TeilNurOffen
<1>12. ReserveStimmt'
  <2>1. reserviert = SumFunctionOnSet(Offene, Upload) BY ReserveIst DEF BInv
  <2>2. SumFunctionOnSet(Offene, Upload)' = SumFunctionOnSet(Offene, Upload) - upload[u].offen + 0
    BY <1>1, <1>3, <1>4, EinGriff
  <2>3. upload[u].offen \in Nat /\ SumFunctionOnSet(Offene, Upload) \in Nat
    BY Anspruchszahl, Summenzahl
  <2>4. reserviert' = SumFunctionOnSet(Offene, Upload)' BY <1>1, <2>1, <2>2, <2>3
  <2> QED BY <2>4 DEF ReserveStimmt, SumFunction, Offene
<1>13. FreiIstLeer' BY <1>4, <1>6 DEF BInv, FreiIstLeer
<1>14. NichtsAusDerZukunft' BY <1>1, <1>2, <1>4, <1>6, <1>7 DEF BInv, NichtsAusDerZukunft
<1>15. \A T \in SUBSET Stunde :
          stunde \in T => /\ SumFunctionOnSet(jeStunde', T) = SumFunctionOnSet(jeStunde, T) + GROESSE
                          /\ SumFunctionOnSet(jeStunde, T) \in Nat
  <2> SUFFICES ASSUME NEW T \in SUBSET Stunde, stunde \in T
               PROVE  /\ SumFunctionOnSet(jeStunde', T) = SumFunctionOnSet(jeStunde, T) + GROESSE
                      /\ SumFunctionOnSet(jeStunde, T) \in Nat
    OBVIOUS
  <2>1. IsFiniteSet(T) BY StundenEndlich
  <2>2. \A s \in T : jeStunde[s] \in Nat /\ jeStunde'[s] \in Nat BY <1>2, <1>8
  <2>3. \A s \in T : s # stunde => jeStunde'[s] = jeStunde[s] BY <1>8
  <2>4. /\ SumFunctionOnSet(jeStunde', T)
              = SumFunctionOnSet(jeStunde, T) - jeStunde[stunde] + jeStunde'[stunde]
        /\ SumFunctionOnSet(jeStunde, T) \in Nat
    BY <2>1, <2>2, <2>3, SummeGeaendert
  <2>5. jeStunde'[stunde] = jeStunde[stunde] + GROESSE /\ jeStunde[stunde] \in Nat
    BY <1>2, <1>8
  <2> QED BY <1>2, <2>4, <2>5
<1>16. Cardinality(Abgelegt) = Cardinality(Abgelegt)' + 1 /\ Cardinality(Abgelegt)' \in Nat
  <2>1. Abgelegt' = Abgelegt \ {u} /\ u \in Abgelegt BY <1>1, <1>4, <1>6 DEF Abgelegt
  <2>2. IsFiniteSet(Abgelegt \ {u}) /\ Cardinality(Abgelegt \ {u}) = Cardinality(Abgelegt) - 1
    BY <2>1, AbgelegtZahl, FS_RemoveElement
  <2>3. Cardinality(Abgelegt \ {u}) \in Nat BY <2>2, FS_CardinalityType
  <2> QED BY <2>1, <2>2, <2>3, AbgelegtZahl
<1>17. GebuchtOderAbgelegt'
  <2> SUFFICES ASSUME NEW h \in Stunde, ImFenster(h)'
               PROVE  GROESSE * Cardinality(LiegtSeit(h)')
                        <= SumFunctionOnSet(jeStunde', Seit(h)) + GROESSE * Cardinality(Abgelegt')
    BY DEF GebuchtOderAbgelegt, Seit
  <2>1. ImFenster(h) BY <1>1 DEF ImFenster
  <2>2. LiegtSeit(h)' = LiegtSeit(h) BY <1>1, <1>7 DEF LiegtSeit
  <2>3. PICK c \in Nat : c = Cardinality(Abgelegt)' BY <1>16
  <2>4. GROESSE * Cardinality(Abgelegt) = GROESSE * c + GROESSE /\ GROESSE * c \in Nat
    BY <1>16, <2>3, EineGroesse
  <2>5. CASE h <= stunde
    <3>1. Seit(h) \in SUBSET Stunde /\ stunde \in Seit(h) BY <1>2, <2>5 DEF Seit, Stunde
    <3>2. SumFunctionOnSet(jeStunde', Seit(h)) = SumFunctionOnSet(jeStunde, Seit(h)) + GROESSE
          /\ SumFunctionOnSet(jeStunde, Seit(h)) \in Nat
      BY <1>15, <3>1
    <3>3. GROESSE * Cardinality(LiegtSeit(h))
            <= SumFunctionOnSet(jeStunde, Seit(h)) + GROESSE * Cardinality(Abgelegt)
      BY <2>1 DEF BInv, GebuchtOderAbgelegt
    <3>4. PICK s \in Nat : s = SumFunctionOnSet(jeStunde, Seit(h)) BY <3>2
    <3>5. GROESSE * Cardinality(LiegtSeit(h)) <= (s + GROESSE) + GROESSE * c
      BY <1>2, <2>4, <3>3, <3>4
    <3> QED BY <2>2, <2>3, <3>2, <3>4, <3>5
  <2>6. CASE ~(h <= stunde)
    <3>1. h \in Nat BY StundenEndlich DEF Stunde
    <3>2. \A k \in Liegende : datei[k].zeit \in Nat
      BY StundenEndlich DEF IInv, Gestalt, Liegende, Datei, Stunde
    <3>3. LiegtSeit(h) = {}
      BY <1>2, <2>6, <3>1, <3>2 DEF LiegtSeit, BInv, NichtsAusDerZukunft
    <3>4. GROESSE * Cardinality(LiegtSeit(h)) = 0 BY <1>2, <3>3, FS_EmptySet
    <3>5. \A s \in Seit(h) : jeStunde'[s] \in Nat BY <1>2, <1>8 DEF Seit
    <3>6. Seit(h) \in SUBSET Stunde BY DEF Seit
    <3>7. SumFunctionOnSet(jeStunde', Seit(h)) \in Nat
      BY <3>5, <3>6, StundenEndlich, SummeZahl
    <3>8. PICK s \in Nat : s = SumFunctionOnSet(jeStunde', Seit(h)) BY <3>7
    <3>9. 0 <= s + GROESSE * c BY <2>4
    <3> QED BY <2>2, <2>3, <3>4, <3>8, <3>9
  <2> QED BY <2>5, <2>6
<1>18. TagReicht'
  <2> DEFINE W == {s \in Stunde : ImFenster(s)}
  <2>1. W' = W BY <1>1 DEF ImFenster
  <2>2. stunde \in W /\ W \in SUBSET Stunde BY <1>2 DEF ImFenster
  <2>3. HeuteGeschrieben = SumFunctionOnSet(jeStunde, W)
        /\ HeuteGeschrieben' = SumFunctionOnSet(jeStunde', W')
    BY DEF HeuteGeschrieben
  <2> HIDE DEF W
  <2>4. PICK s \in Nat : s = HeuteGeschrieben BY <1>15, <2>2, <2>3
  <2>5. HeuteGeschrieben' = s + GROESSE BY <1>15, <2>1, <2>2, <2>3, <2>4
  <2>6. s + vorgemerkt <= TAGESMENGE_GESAMT BY <2>4 DEF BInv, TagReicht
  <2>7. vorgemerkt \in Nat /\ TAGESMENGE_GESAMT \in Nat BY Vormerkzahl, GrenzenAssumption
  <2>8. (s + GROESSE) + (vorgemerkt - GROESSE) <= TAGESMENGE_GESAMT BY <1>2, <2>6, <2>7
  <2> QED BY <1>1, <2>5, <2>8 DEF TagReicht
<1> QED BY <1>9, <1>10, <1>11, <1>12, <1>13, <1>14, <1>17, <1>18 DEF BInv


(* A restart: what the PUTs had on the disk is left over, and the day is   *)
(* counted from the disk.                                                  *)
LEMMA NeustartB ==
  ASSUME IInv, BInv, Neustart
  PROVE  BInv'
<1> DEFINE R == [u \in Upload |-> IF upload[u].teil THEN upload[u].stuecke ELSE 0]
           W == {s \in Stunde : ImFenster(s)}
           z == [k \in Liegende |-> datei[k].zeit]
<1>1. /\ UNCHANGED <<datei, abgelaufen, stunde>>
      /\ reste' = reste + SumFunction(R) /\ upload' = [u \in Upload |-> Frei]
      /\ reserviert' = 0 /\ vorgemerkt' = 0 /\ verbraucht' = {} /\ jeStunde' = Nachgezaehlt
  BY DEF Neustart
<1>2. /\ stunde \in Stunde /\ stunde \in Nat /\ GROESSE \in Nat /\ FENSTER \in Nat
      /\ IsFiniteSet(Liegende) /\ reste \in Nat
  BY StundenEndlich, FensterAssumption, GroesseAssumption
     DEF IInv, Gestalt, Stunde, BInv, Buecher
<1>3. /\ \A u \in Upload : upload'[u] = Frei
      /\ Frei.offen = 0 /\ Frei.zeit = 0 /\ Frei.ph = "frei" /\ ~Frei.teil
  BY <1>1 DEF Frei
<1>4. ~Schreibt(Frei) BY <1>3 DEF Schreibt, Schreibend
<1>5. Liegende' = Liegende /\ W' = W BY <1>1 DEF Liegende, ImFenster
<1>6. SumFunction(R) \in Nat /\ SumFunction(R) <= SumFunctionOnSet(Ansprueche, Upload)
  <2>1. \A u \in Upload : R[u] \in Nat /\ R[u] <= Ansprueche[u]
    <3> SUFFICES ASSUME NEW u \in Upload PROVE R[u] \in Nat /\ R[u] <= Ansprueche[u]
      OBVIOUS
    <3>1. GriffGut(upload[u]) BY AlleGut
    <3>2. upload[u].stuecke \in Nat /\ upload[u].stuecke <= GROESSE
      BY <1>2, <3>1 DEF GriffGut, Griff
    <3>3. Ansprueche[u] = Anspruch(upload[u]) BY Anspruchszahl
    <3>4. upload[u].teil => Anspruch(upload[u]) = GROESSE
      BY DEF BInv, TeilNurOffen, Anspruch
    <3>5. Anspruch(upload[u]) \in Nat BY <1>2 DEF Anspruch
    <3> QED BY <3>2, <3>3, <3>4, <3>5
  <2>2. DOMAIN R = Upload OBVIOUS
  <2> HIDE DEF R
  <2>3. SumFunction(R) = SumFunctionOnSet(R, Upload) BY <2>2 DEF SumFunction
  <2>4. \A u \in Upload : Ansprueche[u] \in Nat BY Anspruchszahl
  <2>5. SumFunctionOnSet(R, Upload) \in Nat BY <2>1, SummeZahl, UploadAssumption
  <2>6. SumFunctionOnSet(R, Upload) <= SumFunctionOnSet(Ansprueche, Upload)
    BY <2>1, <2>4, SummeMonoton, UploadAssumption
  <2> QED BY <2>3, <2>5, <2>6
<1>7. /\ SumFunctionOnSet(Ansprueche, Upload)' = 0 /\ SumFunctionOnSet(Offene, Upload)' = 0
  <2>1. \A u \in Upload : Ansprueche'[u] = 0 /\ Offene'[u] = 0
    BY <1>3, <1>4 DEF Ansprueche, Offene, Anspruch, Schreibt, Schreibend
  <2>2. SumFunctionOnSet(Ansprueche', Upload) = 0 * Cardinality(Upload)
        /\ SumFunctionOnSet(Offene', Upload) = 0 * Cardinality(Upload)
    BY <2>1, SummeGleichviel, UploadAssumption
  <2>3. Cardinality(Upload) \in Nat BY UploadAssumption, FS_CardinalityType
  <2> QED BY <2>2, <2>3
<1> HIDE DEF R
<1>8. PlatzReicht'
  <2>1. GROESSE * Cardinality(Liegende) \in Nat BY <1>2, FS_CardinalityType, EineGroesse
  <2>2. GROESSE * Cardinality(Liegende) + 0 + (reste + SumFunction(R)) <= PLATTE
    BY <1>2, <1>6, <2>1, Summenzahl, GrenzenAssumption DEF BInv, PlatzReicht
  <2> QED BY <1>1, <1>5, <1>7, <2>2 DEF PlatzReicht
<1>9. TeilNurOffen' /\ FreiIstLeer' BY <1>3 DEF TeilNurOffen, FreiIstLeer
<1>10. ReserveStimmt' BY <1>1, <1>7 DEF ReserveStimmt, SumFunction, Offene
<1>11. NichtsAusDerZukunft' BY <1>1, <1>2, <1>3, <1>5 DEF BInv, NichtsAusDerZukunft
<1>12. \A s \in Stunde :
          /\ jeStunde'[s] \in Nat
          /\ s \in W => jeStunde'[s] = GROESSE * Cardinality(An(Liegende, z, {s}))
  <2> SUFFICES ASSUME NEW s \in Stunde
               PROVE  /\ jeStunde'[s] \in Nat
                      /\ s \in W => jeStunde'[s] = GROESSE * Cardinality(An(Liegende, z, {s}))
    OBVIOUS
  <2> DEFINE L == {l \in Liegende : datei[l].zeit = s}
             D == [k \in L |-> datei[k].stuecke]
  <2>1. L = An(Liegende, z, {s}) BY DEF An
  <2>2. jeStunde'[s] = IF ~ImFenster(s) THEN 0 ELSE SumFunction(D) BY <1>1 DEF Nachgezaehlt
  <2>3. \A k \in L : D[k] = GROESSE BY DEF IInv, NieHalb
  <2>4. DOMAIN D = L /\ L \subseteq Liegende OBVIOUS
  <2>5. IsFiniteSet(L)
    <3> HIDE DEF L
    <3> QED BY <1>2, <2>4, FS_Subset
  <2> HIDE DEF D, L
  <2>6. SumFunction(D) = GROESSE * Cardinality(L)
    BY <1>2, <2>3, <2>4, <2>5, SummeGleichviel DEF SumFunction
  <2>7. GROESSE * Cardinality(L) \in Nat BY <2>5, FS_CardinalityType, EineGroesse
  <2> QED BY <2>1, <2>2, <2>6, <2>7
<1>13. \A T \in SUBSET W :
          SumFunctionOnSet(jeStunde', T) = GROESSE * Cardinality(An(Liegende, z, T))
  <2> SUFFICES ASSUME NEW T \in SUBSET W
               PROVE  SumFunctionOnSet(jeStunde', T)
                        = GROESSE * Cardinality(An(Liegende, z, T))
    OBVIOUS
  <2>1. IsFiniteSet(T) BY StundenEndlich
  <2>2. \A s \in T : jeStunde'[s] = GROESSE * Cardinality(An(Liegende, z, {s})) BY <1>12
  <2> HIDE DEF W, z
  <2> QED BY <1>2, <2>1, <2>2, NachStellen
<1>14. Buecher'
  <2>1. jeStunde' \in [Stunde -> Nat] BY <1>1, <1>12 DEF Nachgezaehlt
  <2> QED BY <1>1, <1>2, <1>5, <1>6, <2>1 DEF BInv, Buecher
<1>15. \A k \in Liegende : datei[k].zeit \in Stunde BY DEF IInv, Gestalt, Liegende, Datei
<1>16. Cardinality(Abgelegt)' = 0
  <2>1. Abgelegt' = {} BY <1>3 DEF Abgelegt
  <2> QED BY <2>1, FS_EmptySet
<1>17. GebuchtOderAbgelegt'
  <2> SUFFICES ASSUME NEW h \in Stunde, ImFenster(h)'
               PROVE  GROESSE * Cardinality(LiegtSeit(h)')
                        <= SumFunctionOnSet(jeStunde', Seit(h)) + GROESSE * Cardinality(Abgelegt')
    BY DEF GebuchtOderAbgelegt, Seit
  <2>1. ImFenster(h) BY <1>1 DEF ImFenster
  <2>2. LiegtSeit(h)' = LiegtSeit(h) BY <1>1, <1>5 DEF LiegtSeit
  <2>3. Seit(h) \in SUBSET W
    <3>1. \A s \in Stunde : s \in Int BY StundenEndlich DEF Stunde
    <3>2. \A s \in Stunde : s >= h => ImFenster(s) BY <1>2, <2>1, <3>1 DEF ImFenster
    <3> QED BY <3>2 DEF Seit
  <2>4. An(Liegende, z, Seit(h)) = LiegtSeit(h) BY <1>15 DEF An, LiegtSeit, Seit
  <2>5. SumFunctionOnSet(jeStunde', Seit(h)) = GROESSE * Cardinality(LiegtSeit(h))
    BY <1>13, <2>3, <2>4
  <2>6. PICK n \in Nat : n = GROESSE * Cardinality(LiegtSeit(h)) BY LiegtZahl, EineGroesse
  <2>7. GROESSE * 0 = 0 /\ n <= n + 0 BY <1>2
  <2> QED BY <1>16, <2>2, <2>5, <2>6, <2>7
<1>18. TagReicht'
  <2>1. HeuteGeschrieben' = SumFunctionOnSet(jeStunde', W) BY <1>5 DEF HeuteGeschrieben
  <2>2. An(Liegende, z, W) = {l \in Liegende : ImFenster(datei[l].zeit)} BY <1>15 DEF An
  <2>3. W \in SUBSET W OBVIOUS
  <2> DEFINE L == {l \in Liegende : ImFenster(datei[l].zeit)}
  <2>4. HeuteGeschrieben' = GROESSE * Cardinality(L) BY <1>13, <2>1, <2>2, <2>3
  <2>5. GROESSE * Cardinality(L) <= TAGESMENGE_GESAMT BY TagFolgt
  <2>6. GROESSE * Cardinality(L) \in Nat
    <3>1. L \subseteq Liegende OBVIOUS
    <3> HIDE DEF L
    <3> QED BY <1>2, <3>1, FS_Subset, FS_CardinalityType, EineGroesse
  <2> HIDE DEF L
  <2>7. PICK n \in Nat : n = GROESSE * Cardinality(L) BY <2>6
  <2>8. n + 0 <= TAGESMENGE_GESAMT BY <2>5, <2>7
  <2> QED BY <1>1, <2>4, <2>7, <2>8 DEF TagReicht
<1> QED BY <1>8, <1>9, <1>10, <1>11, <1>14, <1>17, <1>18 DEF BInv

----------------------------------------------------------------------------
(* The whole, with the second part. *)

LEMMA AmAnfangB == Init => BInv
<1> SUFFICES ASSUME Init PROVE BInv
  OBVIOUS
<1>1. /\ Liegende = {} /\ \A u \in Upload : upload[u] = Frei
      /\ Frei.offen = 0 /\ Frei.zeit = 0 /\ Frei.ph = "frei" /\ ~Frei.teil
      /\ stunde = 0 /\ reste = 0 /\ vorgemerkt = 0 /\ reserviert = 0
      /\ jeStunde = [s \in Stunde |-> 0]
  BY DEF Init, Liegende, Frei
<1>2. Buecher BY <1>1, FS_EmptySet DEF Init, Buecher
<1>3. ~Schreibt(Frei) BY <1>1 DEF Schreibt, Schreibend
<1>4. GROESSE \in Nat /\ PLATTE \in Nat /\ TAGESMENGE_GESAMT \in Nat
  BY GroesseAssumption, GrenzenAssumption
<1>5. SumFunctionOnSet(Ansprueche, Upload) = 0 /\ SumFunctionOnSet(Offene, Upload) = 0
  <2>1. \A u \in Upload : Ansprueche[u] = 0 /\ Offene[u] = 0
    BY <1>1, <1>3 DEF Ansprueche, Offene, Anspruch
  <2>2. SumFunctionOnSet(Ansprueche, Upload) = 0 * Cardinality(Upload)
        /\ SumFunctionOnSet(Offene, Upload) = 0 * Cardinality(Upload)
    BY <2>1, SummeGleichviel, UploadAssumption
  <2>3. Cardinality(Upload) \in Nat BY UploadAssumption, FS_CardinalityType
  <2> QED BY <2>2, <2>3
<1>6. GROESSE * Cardinality({}) = 0 BY <1>4, FS_EmptySet
<1>7. PlatzReicht BY <1>1, <1>4, <1>5, <1>6 DEF PlatzReicht
<1>8. ReserveStimmt BY <1>1, <1>5, ReserveIst
<1>9. TeilNurOffen /\ FreiIstLeer /\ NichtsAusDerZukunft
  BY <1>1 DEF TeilNurOffen, FreiIstLeer, NichtsAusDerZukunft
<1>10. \A T \in SUBSET Stunde : SumFunctionOnSet(jeStunde, T) = 0
  <2> SUFFICES ASSUME NEW T \in SUBSET Stunde PROVE SumFunctionOnSet(jeStunde, T) = 0
    OBVIOUS
  <2>1. IsFiniteSet(T) /\ \A s \in T : jeStunde[s] = 0 BY <1>1, StundenEndlich
  <2>2. SumFunctionOnSet(jeStunde, T) = 0 * Cardinality(T) BY <2>1, SummeGleichviel
  <2>3. Cardinality(T) \in Nat BY <2>1, FS_CardinalityType
  <2> QED BY <2>2, <2>3
<1>11. GebuchtOderAbgelegt
  <2> SUFFICES ASSUME NEW h \in Stunde
               PROVE  GROESSE * Cardinality(LiegtSeit(h))
                        <= SumFunctionOnSet(jeStunde, Seit(h)) + GROESSE * Cardinality(Abgelegt)
    BY DEF GebuchtOderAbgelegt
  <2>1. LiegtSeit(h) = {} /\ Abgelegt = {} BY <1>1 DEF LiegtSeit, Abgelegt
  <2>2. Seit(h) \in SUBSET Stunde BY DEF Seit
  <2>3. SumFunctionOnSet(jeStunde, Seit(h)) = 0 BY <1>10, <2>2
  <2> QED BY <1>6, <2>1, <2>3
<1>12. TagReicht
  <2>1. {s \in Stunde : ImFenster(s)} \in SUBSET Stunde OBVIOUS
  <2>2. HeuteGeschrieben = 0 BY <1>10, <2>1 DEF HeuteGeschrieben
  <2> QED BY <1>1, <1>4, <2>2 DEF TagReicht
<1> QED BY <1>2, <1>7, <1>8, <1>9, <1>11, <1>12 DEF BInv

LEMMA InduktivB == IInv /\ BInv /\ [Next]_vars => BInv'
<1> SUFFICES ASSUME IInv, BInv, [Next]_vars PROVE BInv'
  OBVIOUS
<1> DEFINE Weniger ==
             /\ UNCHANGED <<upload, reserviert, vorgemerkt, jeStunde>>
             /\ Liegende' \subseteq Liegende /\ \A k \in Liegende' : datei'[k] = datei[k]
             /\ reste' \in Nat /\ reste' <= reste /\ stunde' \in Stunde /\ stunde' >= stunde
             /\ verbraucht' \subseteq Kennung /\ abgelaufen' \subseteq Kennung
<1>0. Weniger => BInv' BY NurWeniger
<1>1. /\ datei \in [Kennung -> Datei \cup {Keine}] /\ reste \in Nat /\ stunde \in Stunde
      /\ stunde \in Nat /\ verbraucht \subseteq Kennung /\ abgelaufen \subseteq Kennung
  BY StundenEndlich DEF IInv, Gestalt, BInv, Buecher, Stunde
<1>2. ASSUME NEW u \in Upload, NEW k \in Kennung, Beginne(u, k) PROVE BInv'
  BY <1>2, BeginneB
<1>3. ASSUME NEW u \in Upload, Schreibe(u) \/ Verbuche(u) \/ Schliesse(u) \/ Endgueltig(u)
                               \/ KehreTeil(u) \/ Buche(u) \/ Verwirf(u)
      PROVE  BInv'
  BY <1>3, SchreibeB, VerbucheB, SchliesseB, EndgueltigB, KehreTeilB, BucheB, VerwirfB
<1>4. ASSUME NEW k \in Kennung, Loesche(k) \/ KehreDatei(k) PROVE BInv'
  <2>1. /\ UNCHANGED <<upload, reserviert, vorgemerkt, jeStunde, reste, stunde, verbraucht, abgelaufen>>
        /\ datei' = [datei EXCEPT ![k] = Keine]
    BY <1>4 DEF Loesche, KehreDatei, buch
  <2>2. Liegende' \subseteq Liegende /\ \A l \in Liegende' : datei'[l] = datei[l]
    BY <1>1, <2>1 DEF Liegende
  <2> QED BY <1>0, <1>1, <2>1, <2>2
<1>5. ASSUME NEW k \in Kennung, LaeuftAb(k) PROVE BInv'
  <2>1. UNCHANGED <<upload, reserviert, vorgemerkt, jeStunde, reste, stunde, verbraucht, datei>>
        /\ abgelaufen' = abgelaufen \cup {k}
    BY <1>5 DEF LaeuftAb, buch, platte
  <2>2. Liegende' = Liegende BY <2>1 DEF Liegende
  <2> QED BY <1>0, <1>1, <2>1, <2>2
<1>6. ASSUME KehreReste PROVE BInv'
  <2>1. UNCHANGED <<upload, reserviert, vorgemerkt, jeStunde, stunde, verbraucht, datei, abgelaufen>>
        /\ reste' \in 0 .. reste - 1
    BY <1>6 DEF KehreReste, buch
  <2>2. Liegende' = Liegende BY <2>1 DEF Liegende
  <2>3. reste' \in Nat /\ reste' <= reste BY <1>1, <2>1
  <2> QED BY <1>0, <1>1, <2>1, <2>2, <2>3
<1>7. ASSUME StundeVergeht PROVE BInv'
  <2>1. UNCHANGED <<upload, reserviert, vorgemerkt, jeStunde, reste, verbraucht, datei, abgelaufen>>
        /\ stunde < STUNDE_MAX /\ stunde' = stunde + 1
    BY <1>7 DEF StundeVergeht, buch, platte
  <2>2. Liegende' = Liegende BY <2>1 DEF Liegende
  <2>3. stunde' \in Stunde /\ stunde' >= stunde BY <1>1, <2>1, StundenEndlich DEF Stunde
  <2> QED BY <1>0, <1>1, <2>1, <2>2, <2>3
<1>8. ASSUME Neustart PROVE BInv'
  BY <1>8, NeustartB
<1>9. ASSUME UNCHANGED vars PROVE BInv'
  <2>1. UNCHANGED <<upload, reserviert, vorgemerkt, jeStunde, reste, stunde, verbraucht, datei, abgelaufen>>
    BY <1>9 DEF vars, buch, platte
  <2>2. Liegende' = Liegende BY <2>1 DEF Liegende
  <2> QED BY <1>0, <1>1, <2>1, <2>2
<1> QED BY <1>2, <1>3, <1>4, <1>5, <1>6, <1>7, <1>8, <1>9 DEF Next

(* The books, the disk and the PUTs under way fit each other in every      *)
(* reachable state.                                                        *)
THEOREM Buchhaltung == Spec => [](IInv /\ BInv)
<1>1. Init => IInv /\ BInv BY AmAnfang, AmAnfangB
<1>2. IInv /\ BInv /\ [Next]_vars => (IInv /\ BInv)' BY Induktiv, InduktivB
<1> QED BY <1>1, <1>2, PTL DEF Spec

(* Types: the books never go below nought, however PUTs end and whatever   *)
(* a restart loses.                                                        *)
THEOREM TypKorrekt == Spec => []TypeOK
<1>1. IInv /\ BInv => TypeOK
  BY ReserveIst, Summenzahl, Vormerkzahl DEF IInv, Gestalt, BInv, Buecher, TypeOK
<1> QED BY <1>1, Buchhaltung, PTL

(* PUTs that start together never write the disk below MIN_FREI_BYTES      *)
(* (comment at blob_server.py 213-218): what each may still write is       *)
(* counted when the next asks, and a crash leaves no more behind.          *)
THEOREM PlatzFrei == Spec => []PlatzBleibtFrei
<1>1. IInv /\ BInv => PlatzBleibtFrei
  <2> SUFFICES ASSUME IInv, BInv PROVE Belegt <= PLATTE
    BY DEF PlatzBleibtFrei
  <2> DEFINE B == GROESSE * Cardinality(Liegende) + SumFunctionOnSet(Ansprueche, Upload) + reste
  <2>1. B \in Nat /\ Belegt \in Nat /\ Belegt <= B BY Bedarf
  <2>2. B <= PLATTE /\ PLATTE \in Nat BY GrenzenAssumption DEF BInv, PlatzReicht
  <2> HIDE DEF B
  <2> QED BY <2>1, <2>2
<1> QED BY <1>1, Buchhaltung, PTL

(* The files of the last day stay within the day's amount (_passt_heute,   *)
(* _zaehle_die_platte_nach), across restarts and late bookings.            *)
THEOREM TagHaelt == Spec => []TagesmengeHaelt
<1>1. IInv /\ BInv => TagesmengeHaelt BY TagFolgt
<1> QED BY <1>1, Buchhaltung, PTL

(* What is set aside is set aside for a PUT under way, in both books, on   *)
(* every way out of lege_ab.                                               *)
THEOREM NichtsVerloren == Spec => []NichtsBleibtReserviert
<1>1. IInv /\ BInv => NichtsBleibtReserviert BY DEF IInv, BInv, NichtsBleibtReserviert
<1> QED BY <1>1, Buchhaltung, PTL
=============================================================================
