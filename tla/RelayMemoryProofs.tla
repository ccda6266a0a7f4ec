-------------------------- MODULE RelayMemoryProofs --------------------------
(***************************************************************************)
(* Theorems about RelayMemory, for any number of threads, pairs, origins   *)
(* and accounts, every roof, capacity and refill, and any length of time;  *)
(* and that its table of buckets implements TokenBuckets.                  *)
(***************************************************************************)
EXTENDS RelayMemory, FiniteSetTheorems, WellFoundedInduction, TLAPS

----------------------------------------------------------------------------
(* The inductive invariant.  Its parts take what they speak of as          *)
(* arguments, so that they say the same of a table and of what a sweep     *)
(* leaves of it.                                                           *)

(* From voll_ab on, the entry e of bucket k is a full bucket. *)
VollGenug(k, e) ==
    /\ e.zuletzt <= e.voll_ab
    /\ Fassung[k] <= e.marken + (e.voll_ab - e.zuletzt) * Nachfuellung[k]

(* A table E of buckets at time t: no bucket above its capacity, from the  *)
(* future or noted as full too early, and no more buckets than the roof.   *)
TabelleStimmt(E, t) ==
    /\ E \in [Eimer -> Eintrag \cup {Fehlt}]
    /\ \A k \in Eimer : E[k] # Fehlt => /\ E[k].marken <= Fassung[k] /\ E[k].zuletzt <= t
                                        /\ VollGenug(k, E[k])
    /\ IsFiniteSet(Da(E)) /\ Cardinality(Da(E)) <= SPEICHER_MAX

(* The places of each pair, and of each origin at it. *)
Bei(N, p) == {e \in N : e.paar = p}
PlaetzeHalten(N) ==
    \A p \in Paar :
        /\ Cardinality(Bei(N, p)) <= NONCE_PLAETZE * NONCE_HERKUENFTE
        /\ \A e \in Bei(N, p) : Cardinality(Von(Bei(N, p), e.herkunft)) <= NONCE_PLAETZE

(* Entries N, counted as z, before nonce n is issued; E is the history of  *)
(* admissions.  Every entry is a nonce of its own that let nobody in yet.  *)
NoncenStimmen(N, z, n, E) ==
    /\ N \subseteq Nonce /\ IsFiniteSet(N)
    /\ z = Cardinality(N) /\ z <= SPEICHER_MAX
    /\ \A e, f \in N : e.nr = f.nr => e = f
    /\ \A e \in N : e.nr < n /\ E[e.nr] = 0
    /\ PlaetzeHalten(N)

EinlassStimmt(n, E) ==
    /\ E \in [1 .. AUSGABE_MAX -> 0 .. 1]
    /\ \A i \in 1 .. AUSGABE_MAX : i >= n => E[i] = 0

UhrStimmt == zeit \in 0 .. ZEIT_MAX /\ geraeumt \in 0 .. zeit /\ naechste \in 1 .. AUSGABE_MAX + 1

FadenStimmt ==
    /\ faden \in [Faden -> Arbeit \cup {Frei}]
    /\ sperre \in Faden \cup {Niemand}
    /\ zeilen \subseteq Paar
    /\ angelegt \in [NeuEimer -> Nat]

IInv ==
    /\ UhrStimmt
    /\ TabelleStimmt(eimer, zeit)
    /\ NoncenStimmen(nonces, nonceZahl, naechste, einlass)
    /\ EinlassStimmt(naechste, einlass)
    /\ FadenStimmt

----------------------------------------------------------------------------
(* Constants. *)

LEMMA EimerZahlen ==
  ASSUME NEW k \in Eimer
  PROVE  Fassung[k] \in Nat /\ Nachfuellung[k] \in Nat \ {0}
<1>1. k[1] \in {"msg", "neu", "chal", "reg"} /\ (k = NeuOnion => k[1] = "neu")
  BY DEF Eimer, NeuEimer, NeuOnion
<1>2. /\ MSG_CAPACITY \in Nat /\ NEUE_ADRESSEN_ONION_JE_TAG \in Nat /\ NEUE_ADRESSEN_JE_TAG \in Nat
      /\ RATE_CAPACITY \in Nat /\ MSG_REFILL \in Nat \ {0} /\ NEU_REFILL \in Nat \ {0}
      /\ NEU_ONION_REFILL \in Nat \ {0} /\ RATE_REFILL \in Nat \ {0}
  BY ZahlenAssumption
<1>3. Fassung[k] \in Nat BY <1>1, <1>2 DEF Fassung
<1>4. Nachfuellung[k] \in Nat \ {0} BY <1>1, <1>2 DEF Nachfuellung
<1> QED BY <1>3, <1>4

LEMMA FehltNicht == Fehlt \notin Eintrag /\ NeuEimer \subseteq Eimer
BY DEF Fehlt, Eintrag, Eimer

LEMMA NeuEimerEndlich == IsFiniteSet(NeuEimer)
<1> DEFINE Q == {r \in Quelle : r.anschluss # Niemand}
           T == {<<"neu", limit_schluessel48(q)>> : q \in Q}
           f == [q \in Q |-> <<"neu", limit_schluessel48(q)>>]
<1>1. IsFiniteSet(Q) BY MengenAssumption, FS_Subset
<1>2. f \in Surjection(Q, T) BY DEF Surjection
<1>3. IsFiniteSet(T) BY <1>1, <1>2, FS_Surjection
<1>4. IsFiniteSet(T \cup {NeuOnion}) BY <1>3, FS_AddElement
<1> QED BY <1>3, <1>4 DEF NeuEimer

LEMMA Produkt == \A a, b \in Nat : a * b \in Nat
OBVIOUS

(* Division rounded up. *)
LEMMA GanzeTeile ==
  ASSUME NEW a \in Nat, NEW b \in Nat \ {0}
  PROVE  /\ (a + b - 1) \div b \in Nat
         /\ a <= ((a + b - 1) \div b) * b
<1> DEFINE d == (a + b - 1) \div b
<1>1. a + b - 1 \in Nat OBVIOUS
<1>2. a + b - 1 = b * d + ((a + b - 1) % b) BY <1>1
<1>3. (a + b - 1) % b \in 0 .. b - 1 BY <1>1
<1>4. d \in Nat BY <1>1
<1>5. a <= b * d BY <1>2, <1>3, <1>4
<1>6. b * d = d * b BY <1>4
<1> QED BY <1>4, <1>5, <1>6

----------------------------------------------------------------------------
(* Buckets. *)

LEMMA StandTyp ==
  ASSUME NEW k \in Eimer, NEW e \in Eintrag \cup {Fehlt}, zeit \in Nat,
         e # Fehlt => e.marken <= Fassung[k] /\ e.zuletzt <= zeit
  PROVE  Stand(k, e) \in 0 .. Fassung[k]
<1>1. Fassung[k] \in Nat /\ Nachfuellung[k] \in Nat BY EimerZahlen
<1>2. CASE e = Fehlt BY <1>1, <1>2 DEF Stand
<1>3. CASE e # Fehlt
  <2>1. e.marken \in Nat /\ zeit - e.zuletzt \in Nat BY <1>3 DEF Eintrag
  <2>2. (zeit - e.zuletzt) * Nachfuellung[k] \in Nat BY <1>1, <2>1, Produkt
  <2> QED BY <1>1, <1>3, <2>1, <2>2 DEF Stand, Kleiner
<1> QED BY <1>2, <1>3

LEMMA GefuelltTyp ==
  ASSUME NEW k \in Eimer, NEW m \in 0 .. Fassung[k], zeit \in Nat
  PROVE  /\ Gefuellt(k, m) \in Eintrag
         /\ Gefuellt(k, m).marken = m /\ Gefuellt(k, m).zuletzt = zeit
         /\ VollGenug(k, Gefuellt(k, m))
<1> DEFINE d == (Fassung[k] - m + Nachfuellung[k] - 1) \div Nachfuellung[k]
<1>1. Fassung[k] \in Nat /\ Nachfuellung[k] \in Nat \ {0} BY EimerZahlen
<1>2. Fassung[k] - m \in Nat BY <1>1
<1>3. d \in Nat /\ Fassung[k] - m <= d * Nachfuellung[k] BY <1>1, <1>2, GanzeTeile
<1>4. VollAb(k, m) = zeit + d BY DEF VollAb
<1> HIDE DEF d
<1>5. VollAb(k, m) \in Nat /\ VollAb(k, m) - zeit = d BY <1>3, <1>4
<1>6. Gefuellt(k, m) = [marken |-> m, zuletzt |-> zeit, voll_ab |-> VollAb(k, m)] BY DEF Gefuellt
<1>7. Gefuellt(k, m) \in Eintrag BY <1>1, <1>5, <1>6 DEF Eintrag
<1>8. d * Nachfuellung[k] \in Nat BY <1>1, <1>3, Produkt
<1>9. Fassung[k] <= m + d * Nachfuellung[k] BY <1>1, <1>3, <1>8
<1>10. VollGenug(k, Gefuellt(k, m)) BY <1>3, <1>4, <1>5, <1>6, <1>9 DEF VollGenug
<1> QED BY <1>6, <1>7, <1>10

(* A bucket written to a table that has it already, or has room for it. *)
LEMMA Einschreiben ==
  ASSUME NEW E, TabelleStimmt(E, zeit), zeit \in Nat, NEW k \in Eimer, NEW m \in 0 .. Fassung[k],
         E[k] # Fehlt \/ Cardinality(Da(E)) < SPEICHER_MAX
  PROVE  TabelleStimmt([E EXCEPT ![k] = Gefuellt(k, m)], zeit)
<1> DEFINE F == [E EXCEPT ![k] = Gefuellt(k, m)]
<1>1. /\ Gefuellt(k, m) \in Eintrag /\ Gefuellt(k, m).marken = m /\ Gefuellt(k, m).zuletzt = zeit
      /\ VollGenug(k, Gefuellt(k, m))
  BY GefuelltTyp
<1>2. E \in [Eimer -> Eintrag \cup {Fehlt}] BY DEF TabelleStimmt
<1>3. F \in [Eimer -> Eintrag \cup {Fehlt}] /\ F[k] = Gefuellt(k, m)
      /\ \A j \in Eimer : j # k => F[j] = E[j]
  BY <1>1, <1>2
<1>4. Fassung[k] \in Nat BY EimerZahlen
<1>5. \A j \in Eimer : F[j] # Fehlt => /\ F[j].marken <= Fassung[j] /\ F[j].zuletzt <= zeit
                                      /\ VollGenug(j, F[j])
  BY <1>1, <1>3, <1>4 DEF TabelleStimmt
<1>6. Da(F) = Da(E) \cup {k}
  BY <1>1, <1>3, FehltNicht DEF Da
<1>7. IsFiniteSet(Da(E)) /\ Cardinality(Da(E)) <= SPEICHER_MAX
      /\ (E[k] # Fehlt => k \in Da(E))
  BY DEF TabelleStimmt, Da
<1>8. SPEICHER_MAX \in Nat BY ZahlenAssumption
<1>9. Cardinality(Da(E)) \in Nat BY <1>7, FS_CardinalityType
<1>10. /\ IsFiniteSet(Da(E) \cup {k})
       /\ Cardinality(Da(E) \cup {k}) = IF k \in Da(E) THEN Cardinality(Da(E))
                                         ELSE Cardinality(Da(E)) + 1
  BY <1>7, FS_AddElement
<1>11. Cardinality(Da(E) \cup {k}) <= SPEICHER_MAX BY <1>7, <1>8, <1>9, <1>10
<1>12. IsFiniteSet(Da(F)) /\ Cardinality(Da(F)) <= SPEICHER_MAX
  BY <1>6, <1>10, <1>11
<1> QED BY <1>3, <1>5, <1>12 DEF TabelleStimmt

LEMMA EimerRaeumen ==
  ASSUME NEW E, TabelleStimmt(E, zeit)
  PROVE  TabelleStimmt(EimerGeraeumt(E), zeit)
<1>1. EimerGeraeumt(E) \in [Eimer -> Eintrag \cup {Fehlt}]
  BY DEF TabelleStimmt, EimerGeraeumt
<1>2. \A k \in Eimer : EimerGeraeumt(E)[k] # Fehlt => EimerGeraeumt(E)[k] = E[k] /\ E[k] # Fehlt
  BY DEF EimerGeraeumt
<1>3. Da(EimerGeraeumt(E)) \subseteq Da(E) BY <1>2 DEF Da
<1>4. IsFiniteSet(Da(E)) /\ Cardinality(Da(E)) <= SPEICHER_MAX BY DEF TabelleStimmt
<1>5. /\ IsFiniteSet(Da(EimerGeraeumt(E)))
      /\ Cardinality(Da(EimerGeraeumt(E))) <= Cardinality(Da(E))
  BY <1>3, <1>4, FS_Subset
<1>6. Cardinality(Da(EimerGeraeumt(E))) \in Nat /\ Cardinality(Da(E)) \in Nat
  BY <1>4, <1>5, FS_CardinalityType
<1>7. Cardinality(Da(EimerGeraeumt(E))) <= SPEICHER_MAX
  BY <1>4, <1>5, <1>6, ZahlenAssumption
<1> QED BY <1>1, <1>2, <1>5, <1>7 DEF TabelleStimmt

----------------------------------------------------------------------------
(* Nonces. *)

LEMMA PlaetzeWeniger ==
  ASSUME NEW N, IsFiniteSet(N), PlaetzeHalten(N), NEW M \in SUBSET N
  PROVE  PlaetzeHalten(M)
<1> SUFFICES ASSUME NEW p \in Paar
             PROVE  /\ Cardinality(Bei(M, p)) <= NONCE_PLAETZE * NONCE_HERKUENFTE
                    /\ \A e \in Bei(M, p) : Cardinality(Von(Bei(M, p), e.herkunft)) <= NONCE_PLAETZE
  BY DEF PlaetzeHalten
<1> DEFINE K == Bei(M, p)
           L == Bei(N, p)
<1>1. K \subseteq L /\ L \subseteq N BY DEF Bei
<1>2. IsFiniteSet(L) BY <1>1, FS_Subset
<1>3. IsFiniteSet(K) /\ Cardinality(K) <= Cardinality(L) BY <1>1, <1>2, FS_Subset
<1>4. Cardinality(K) \in Nat /\ Cardinality(L) \in Nat BY <1>2, <1>3, FS_CardinalityType
<1>5. NONCE_PLAETZE \in Nat /\ NONCE_HERKUENFTE \in Nat BY ZahlenAssumption
<1>6. NONCE_PLAETZE * NONCE_HERKUENFTE \in Nat BY <1>5, Produkt
<1>7. /\ Cardinality(L) <= NONCE_PLAETZE * NONCE_HERKUENFTE
      /\ \A e \in L : Cardinality(Von(L, e.herkunft)) <= NONCE_PLAETZE
  BY DEF PlaetzeHalten
<1>8. Cardinality(K) <= NONCE_PLAETZE * NONCE_HERKUENFTE BY <1>3, <1>4, <1>6, <1>7
<1>9. ASSUME NEW e \in K PROVE Cardinality(Von(K, e.herkunft)) <= NONCE_PLAETZE
  <2>1. Von(K, e.herkunft) \subseteq Von(L, e.herkunft) /\ Von(L, e.herkunft) \subseteq L
    BY <1>1 DEF Von
  <2>2. IsFiniteSet(Von(L, e.herkunft)) BY <1>2, <2>1, FS_Subset
  <2>3. /\ IsFiniteSet(Von(K, e.herkunft))
        /\ Cardinality(Von(K, e.herkunft)) <= Cardinality(Von(L, e.herkunft))
    BY <2>1, <2>2, FS_Subset
  <2>4. Cardinality(Von(K, e.herkunft)) \in Nat /\ Cardinality(Von(L, e.herkunft)) \in Nat
    BY <2>2, <2>3, FS_CardinalityType
  <2>5. Cardinality(Von(L, e.herkunft)) <= NONCE_PLAETZE BY <1>1, <1>7
  <2> QED BY <1>5, <2>3, <2>4, <2>5
<1> QED BY <1>8, <1>9

LEMMA NoncenWeniger ==
  ASSUME NEW N, NEW z, NEW n, NEW E, NoncenStimmen(N, z, n, E), NEW M \in SUBSET N
  PROVE  NoncenStimmen(M, Cardinality(M), n, E)
<1>1. IsFiniteSet(N) /\ z = Cardinality(N) /\ z <= SPEICHER_MAX BY DEF NoncenStimmen
<1>2. IsFiniteSet(M) /\ Cardinality(M) <= Cardinality(N) BY <1>1, FS_Subset
<1>3. Cardinality(M) \in Nat /\ Cardinality(N) \in Nat BY <1>1, <1>2, FS_CardinalityType
<1>4. Cardinality(M) <= SPEICHER_MAX BY <1>1, <1>2, <1>3, ZahlenAssumption
<1>5. PlaetzeHalten(M) BY <1>1, PlaetzeWeniger DEF NoncenStimmen
<1> QED BY <1>2, <1>4, <1>5 DEF NoncenStimmen

(* Numbers have a smallest one, so the oldest entry is one of the entries. *)
LEMMA Ordnung == \E R : IsWellFoundedOn(R, Nat) /\ \A x, y \in Nat : x < y => <<x, y>> \in R
<1>1. IsWellFoundedOn(OpToRel(<, Nat), Nat) BY NatLessThanWellFounded
<1>2. \A x, y \in Nat : x < y => <<x, y>> \in OpToRel(<, Nat) BY DEF OpToRel
<1> QED BY <1>1, <1>2, Zenon

LEMMA Kleinste ==
  ASSUME NEW T \in SUBSET Nat, T # {}
  PROVE  \E x \in T : \A y \in T : x <= y
<1>1. PICK R : IsWellFoundedOn(R, Nat) /\ \A x, y \in Nat : x < y => <<x, y>> \in R
  BY Ordnung, Zenon
<1>2. IsWellFoundedOn(R, Nat) /\ T \subseteq Nat BY <1>1
<1>3. \E x \in T : \A y \in T : ~ (<<y, x>> \in R) BY <1>2, WFMin, Zenon
<1>4. PICK x \in T : \A y \in T : ~ (<<y, x>> \in R) BY <1>3
<1>5. \A y \in T : ~ (y < x) BY <1>1, <1>2, <1>4, Zenon
<1> QED BY <1>2, <1>5

LEMMA AeltestesDarin ==
  ASSUME NEW N \in SUBSET Nonce, N # {}
  PROVE  Aeltestes(N) \in N
<1> DEFINE T == {e.nr : e \in N}
<1>1. T \subseteq Nat /\ T # {} BY DEF Nonce
<1>2. PICK x \in T : \A y \in T : x <= y BY <1>1, Kleinste
<1>3. PICK e \in N : e.nr = x BY <1>2
<1>4. \A f \in N : e.nr <= f.nr BY <1>2, <1>3
<1> QED BY <1>3, <1>4 DEF Aeltestes

(* A new entry in the place of those that make room for it. *)
LEMMA NeueNonce ==
  ASSUME NEW R, NEW z, NEW n \in 1 .. AUSGABE_MAX, NEW E, NEW p \in Paar, NEW h,
         NoncenStimmen(R, z, n, E), E[n] = 0,
         NEW neu \in Nonce, neu.nr = n, neu.paar = p, neu.herkunft = h,
         NEW W, W = Weicht(Bei(R, p), h), W # {} \/ z < SPEICHER_MAX
  PROVE  NoncenStimmen((R \ W) \cup {neu}, z - Cardinality(W) + 1, n + 1, E)
<1> DEFINE O == Bei(R, p)
           V == Von(O, h)
           S == R \ W
<1>1. R \subseteq Nonce /\ IsFiniteSet(R) /\ z = Cardinality(R) /\ z <= SPEICHER_MAX
  BY DEF NoncenStimmen
<1>2. O \subseteq R /\ V \subseteq O BY DEF Von, Bei
<1>3. IsFiniteSet(O) /\ IsFiniteSet(V) BY <1>1, <1>2, FS_Subset
<1>4. z \in Nat /\ Cardinality(O) \in Nat /\ Cardinality(V) \in Nat
  BY <1>1, <1>3, FS_CardinalityType
<1>5. NONCE_PLAETZE \in Nat \ {0} /\ NONCE_HERKUENFTE \in Nat \ {0} /\ SPEICHER_MAX \in Nat
  BY ZahlenAssumption
<1>6. NONCE_PLAETZE * NONCE_HERKUENFTE \in Nat \ {0} BY <1>5
<1>7. neu \notin R
  <2>1. \A e \in R : e.nr < n BY DEF NoncenStimmen
  <2> QED BY <2>1
<1>8. Cardinality(V) <= NONCE_PLAETZE /\ Cardinality(O) <= NONCE_PLAETZE * NONCE_HERKUENFTE
  <2>1. PlaetzeHalten(R) BY DEF NoncenStimmen
  <2>2. /\ Cardinality(O) <= NONCE_PLAETZE * NONCE_HERKUENFTE
        /\ \A e \in O : Cardinality(Von(O, e.herkunft)) <= NONCE_PLAETZE
    BY <2>1 DEF PlaetzeHalten
  <2>3. CASE V = {} BY <1>5, <2>2, <2>3, FS_EmptySet
  <2>4. CASE V # {}
    <3>1. PICK e \in V : TRUE BY <2>4
    <3>2. e \in O /\ e.herkunft = h BY <3>1 DEF Von
    <3> QED BY <2>2, <3>2
  <2> QED BY <2>3, <2>4
<1>9. /\ W \subseteq O /\ IsFiniteSet(W) /\ Cardinality(W) \in 0 .. 1
      /\ W = {} => Cardinality(O) < NONCE_PLAETZE * NONCE_HERKUENFTE
      /\ Cardinality(V \ W) < NONCE_PLAETZE
  <2>1. W = Weicht(O, h) OBVIOUS
  <2>2. CASE Cardinality(V) >= NONCE_PLAETZE
    <3>1. W = {Aeltestes(V)} BY <2>1, <2>2 DEF Weicht
    <3>2. V # {} BY <1>4, <1>5, <2>2, FS_EmptySet
    <3>3. Aeltestes(V) \in V BY <1>1, <1>2, <3>2, AeltestesDarin
    <3>4. IsFiniteSet(W) /\ Cardinality(W) = 1 BY <3>1, FS_Singleton
    <3>5. Cardinality(V \ {Aeltestes(V)}) = Cardinality(V) - 1 BY <1>3, <3>3, FS_RemoveElement
    <3>6. Cardinality(V \ W) < NONCE_PLAETZE BY <1>4, <1>5, <1>8, <3>1, <3>5
    <3>7. W \subseteq O /\ W # {} BY <1>2, <3>1, <3>3
    <3> QED BY <3>4, <3>6, <3>7
  <2>3. ASSUME Cardinality(V) < NONCE_PLAETZE PROVE Cardinality(V \ W) < NONCE_PLAETZE
    <3>1. IsFiniteSet(V \ W) /\ Cardinality(V \ W) <= Cardinality(V) BY <1>3, FS_Subset
    <3>2. Cardinality(V \ W) \in Nat BY <3>1, FS_CardinalityType
    <3> QED BY <1>4, <1>5, <2>3, <3>1, <3>2
  <2>4. CASE Cardinality(V) < NONCE_PLAETZE /\ Cardinality(O) >= NONCE_PLAETZE * NONCE_HERKUENFTE
    <3>1. W = {Aeltestes(O)} BY <1>4, <1>5, <2>1, <2>4 DEF Weicht
    <3>2. O # {}
      <4>1. Cardinality(O) # 0 BY <1>4, <1>6, <2>4
      <4> QED BY <4>1, FS_EmptySet
    <3>3. Aeltestes(O) \in O BY <1>1, <1>2, <3>2, AeltestesDarin
    <3>4. IsFiniteSet(W) /\ Cardinality(W) = 1 BY <3>1, FS_Singleton
    <3> QED BY <2>3, <2>4, <3>1, <3>3, <3>4
  <2>5. CASE Cardinality(V) < NONCE_PLAETZE /\ Cardinality(O) < NONCE_PLAETZE * NONCE_HERKUENFTE
    <3>1. W = {} BY <1>4, <1>5, <1>6, <2>1, <2>5 DEF Weicht
    <3>2. IsFiniteSet(W) /\ Cardinality(W) = 0 BY <3>1, FS_EmptySet
    <3> QED BY <2>3, <2>5, <3>1, <3>2
  <2> QED BY <1>4, <1>5, <1>6, <2>2, <2>4, <2>5
<1>10. /\ IsFiniteSet(S) /\ Cardinality(S) = z - Cardinality(W)
       /\ IsFiniteSet(O \ W) /\ Cardinality(O \ W) = Cardinality(O) - Cardinality(W)
  <2>1. CASE W = {} BY <1>1, <1>3, <1>4, <2>1, FS_EmptySet
  <2>2. CASE W # {}
    <3>1. Cardinality(W) = 1 BY <1>9, <2>2, FS_EmptySet
    <3>2. PICK a : W = {a} BY <1>9, <3>1, FS_Singleton
    <3>3. a \in O /\ a \in R BY <1>2, <1>9, <3>2
    <3> QED BY <1>1, <1>3, <3>1, <3>2, <3>3, FS_RemoveElement
  <2> QED BY <2>1, <2>2
<1>11. /\ IsFiniteSet(S \cup {neu})
       /\ Cardinality(S \cup {neu}) = z - Cardinality(W) + 1
  <2>1. neu \notin S BY <1>7
  <2>2. IsFiniteSet(S \cup {neu}) /\ Cardinality(S \cup {neu}) = Cardinality(S) + 1
    BY ZenonT(30), <1>10, <2>1, FS_AddElement
  <2> QED BY <1>10, <2>2
<1>12. z - Cardinality(W) + 1 <= SPEICHER_MAX
  <2>1. W # {} => Cardinality(W) = 1 BY <1>9, FS_EmptySet
  <2>2. W = {} => Cardinality(W) = 0 BY FS_EmptySet
  <2> QED BY <1>1, <1>4, <1>5, <2>1, <2>2
<1>13. PlaetzeHalten(S \cup {neu})
  <2> SUFFICES ASSUME NEW q \in Paar
               PROVE  LET M == Bei(S \cup {neu}, q) IN
                      /\ Cardinality(M) <= NONCE_PLAETZE * NONCE_HERKUENFTE
                      /\ \A e \in M : Cardinality(Von(M, e.herkunft)) <= NONCE_PLAETZE
    BY DEF PlaetzeHalten
  <2> DEFINE M == Bei(S \cup {neu}, q)
             L == Bei(R, q)
  <2>1. /\ Cardinality(L) <= NONCE_PLAETZE * NONCE_HERKUENFTE
        /\ \A e \in L : Cardinality(Von(L, e.herkunft)) <= NONCE_PLAETZE
    BY DEF NoncenStimmen, PlaetzeHalten
  <2>2. CASE q # p
    <3>1. M = L BY <1>9, <2>2 DEF Bei
    <3> QED BY <2>1, <3>1
  <2>3. CASE q = p
    <3>1. M = (O \ W) \cup {neu} /\ L = O BY <2>3 DEF Bei
    <3>2. neu \notin O \ W BY <1>2, <1>7
    <3>3. Cardinality(M) = Cardinality(O) - Cardinality(W) + 1
      <4>1. Cardinality((O \ W) \cup {neu}) = Cardinality(O \ W) + 1
        BY ZenonT(30), <1>10, <3>2, FS_AddElement
      <4> QED BY <1>10, <3>1, <4>1
    <3>4. W # {} => Cardinality(W) = 1 BY <1>9, FS_EmptySet
    <3>5. Cardinality(M) <= NONCE_PLAETZE * NONCE_HERKUENFTE
      BY <1>4, <1>6, <1>8, <1>9, <3>3, <3>4
    <3>6. ASSUME NEW e \in M PROVE Cardinality(Von(M, e.herkunft)) <= NONCE_PLAETZE
      <4>1. CASE e.herkunft = h
        <5>1. Von(M, e.herkunft) = (V \ W) \cup {neu} BY <3>1, <4>1 DEF Von
        <5>2. IsFiniteSet(V \ W) /\ Cardinality(V \ W) \in Nat
          BY <1>3, FS_Subset, FS_CardinalityType
        <5>3. neu \notin V \ W BY <1>2, <1>7
        <5>4. Cardinality((V \ W) \cup {neu}) = Cardinality(V \ W) + 1
          BY <5>2, <5>3, FS_AddElement
        <5>5. Cardinality((V \ W) \cup {neu}) <= NONCE_PLAETZE BY <1>5, <1>9, <5>2, <5>4
        <5> QED BY <5>1, <5>5
      <4>2. CASE e.herkunft # h
        <5>1. e \in O BY <3>1, <4>2
        <5>2. Von(M, e.herkunft) \subseteq Von(O, e.herkunft) /\ Von(O, e.herkunft) \subseteq O
          BY <3>1, <4>2 DEF Von
        <5>3. IsFiniteSet(Von(O, e.herkunft)) BY <1>3, <5>2, FS_Subset
        <5>4. /\ IsFiniteSet(Von(M, e.herkunft))
              /\ Cardinality(Von(M, e.herkunft)) <= Cardinality(Von(O, e.herkunft))
          BY <5>2, <5>3, FS_Subset
        <5>5. Cardinality(Von(M, e.herkunft)) \in Nat /\ Cardinality(Von(O, e.herkunft)) \in Nat
          BY <5>3, <5>4, FS_CardinalityType
        <5>6. Cardinality(Von(O, e.herkunft)) <= NONCE_PLAETZE BY <2>1, <3>1, <5>1
        <5> QED BY <1>5, <5>4, <5>5, <5>6
      <4> QED BY <4>1, <4>2
    <3> QED BY <3>5, <3>6
  <2> QED BY <2>2, <2>3
<1>14. /\ \A e, f \in S \cup {neu} : e.nr = f.nr => e = f
       /\ \A e \in S \cup {neu} : e.nr < n + 1 /\ E[e.nr] = 0
  <2>1. /\ \A e, f \in R : e.nr = f.nr => e = f
        /\ \A e \in R : e.nr \in Nat /\ e.nr < n /\ E[e.nr] = 0
    BY DEF NoncenStimmen, Nonce
  <2> QED BY <2>1
<1> QED BY <1>1, <1>11, <1>12, <1>13, <1>14 DEF NoncenStimmen

----------------------------------------------------------------------------
(* What a stretch under the lock leaves of the tables. *)
SpeicherStimmt(E, N, z, g) ==
    /\ TabelleStimmt(E, zeit)
    /\ NoncenStimmen(N, z, naechste, einlass)
    /\ g \in 0 .. zeit

LEMMA SpeicherRuht ==
  ASSUME IInv, UNCHANGED speicher
  PROVE  SpeicherStimmt(eimer', nonces', nonceZahl', geraeumt')
BY DEF IInv, UhrStimmt, SpeicherStimmt, speicher

(* The sweep, done or not done. *)
LEMMA GeraeumtStimmt ==
  ASSUME IInv
  PROVE  /\ SpeicherStimmt(EimerGeraeumt(eimer), NoncesGeraeumt(nonces),
                           Cardinality(NoncesGeraeumt(nonces)), zeit)
         /\ SpeicherStimmt(EimerNach, NoncesNach, ZahlNach, GeraeumtNach)
         /\ SpeicherStimmt(EimerNach, NoncesNach, Cardinality(NoncesNach), GeraeumtNach)
<1>1. TabelleStimmt(eimer, zeit) /\ NoncenStimmen(nonces, nonceZahl, naechste, einlass)
      /\ zeit \in Nat /\ geraeumt \in 0 .. zeit
  BY ZahlenAssumption DEF IInv, UhrStimmt
<1>2. TabelleStimmt(EimerGeraeumt(eimer), zeit) BY <1>1, EimerRaeumen
<1>3. NoncesGeraeumt(nonces) \subseteq nonces BY DEF NoncesGeraeumt
<1>4. NoncenStimmen(NoncesGeraeumt(nonces), Cardinality(NoncesGeraeumt(nonces)), naechste, einlass)
  BY <1>1, <1>3, NoncenWeniger
<1>5. nonceZahl = Cardinality(nonces) BY <1>1 DEF NoncenStimmen
<1>6. SpeicherStimmt(EimerGeraeumt(eimer), NoncesGeraeumt(nonces),
                     Cardinality(NoncesGeraeumt(nonces)), zeit)
  BY <1>1, <1>2, <1>4 DEF SpeicherStimmt
<1>7. CASE Faellig
  BY <1>6, <1>7 DEF EimerNach, NoncesNach, ZahlNach, GeraeumtNach
<1>8. CASE ~Faellig
  BY <1>1, <1>5, <1>6, <1>8 DEF EimerNach, NoncesNach, ZahlNach, GeraeumtNach, SpeicherStimmt
<1> QED BY <1>6, <1>7, <1>8

LEMMA NimmHaelt ==
  ASSUME IInv, NEW k \in Eimer, NEW c \in Nat, nimm(k, c)
  PROVE  SpeicherStimmt(eimer', nonces', nonceZahl', geraeumt')
<1>1. SpeicherStimmt(EimerNach, NoncesNach, ZahlNach, GeraeumtNach) BY GeraeumtStimmt
<1>2. TabelleStimmt(EimerNach, zeit) BY <1>1 DEF SpeicherStimmt
<1>3. zeit \in Nat BY ZahlenAssumption DEF IInv, UhrStimmt
<1>4. nonces' = NoncesNach /\ nonceZahl' = ZahlNach /\ geraeumt' = GeraeumtNach BY DEF nimm
<1>5. TabelleStimmt(eimer', zeit)
  <2>1. CASE AmDach(k) BY <1>2, <2>1 DEF nimm
  <2>2. CASE ~AmDach(k)
    <3> DEFINE e == EimerNach[k]
               m == Stand(k, e) - (IF Reicht(k, c) THEN c ELSE 0)
    <3>1. EimerNach \in [Eimer -> Eintrag \cup {Fehlt}] BY <1>2 DEF TabelleStimmt
    <3>2. eimer' = [EimerNach EXCEPT ![k] = Gefuellt(k, m)] BY <2>2, <3>1 DEF nimm
    <3>3. e \in Eintrag \cup {Fehlt} /\ (e # Fehlt => e.marken <= Fassung[k] /\ e.zuletzt <= zeit)
      BY <1>2, <3>1 DEF TabelleStimmt
    <3>4. Stand(k, e) \in 0 .. Fassung[k] /\ Fassung[k] \in Nat BY <1>3, <3>3, StandTyp, EimerZahlen
    <3>5. Reicht(k, c) => Stand(k, e) >= c BY DEF Reicht
    <3>6. m \in 0 .. Fassung[k] BY <3>4, <3>5
    <3>7. IsFiniteSet(Da(EimerNach)) BY <1>2 DEF TabelleStimmt
    <3>8. Cardinality(Da(EimerNach)) \in Nat BY <3>7, FS_CardinalityType
    <3>9. EimerNach[k] # Fehlt \/ Cardinality(Da(EimerNach)) < SPEICHER_MAX
      BY <2>2, <3>8, ZahlenAssumption DEF AmDach
    <3> QED BY <1>2, <1>3, <3>2, <3>6, <3>9, Einschreiben
  <2> QED BY <2>1, <2>2
<1> QED BY <1>1, <1>4, <1>5 DEF SpeicherStimmt

LEMMA HerkunftHaelt ==
  ASSUME IInv, NEW f \in {"chal", "reg"}, NEW q \in Quelle, NEW c \in Nat, NEW ok,
         herkunft_ok(f, q, c, ok)
  PROVE  SpeicherStimmt(eimer', nonces', nonceZahl', geraeumt')
<1>1. CASE limit_schluessel(q) = Niemand BY <1>1, SpeicherRuht DEF herkunft_ok
<1>2. CASE limit_schluessel(q) # Niemand
  <2>1. <<f, limit_schluessel(q)>> \in Eimer BY <1>2 DEF Eimer
  <2>2. nimm(<<f, limit_schluessel(q)>>, c) BY <1>2 DEF herkunft_ok
  <2> QED BY <2>1, <2>2, NimmHaelt
<1> QED BY <1>1, <1>2

LEMMA GibZurueckHaelt ==
  ASSUME IInv, NEW k \in Eimer, NEW c \in Nat, gib_zurueck(k, c)
  PROVE  SpeicherStimmt(eimer', nonces', nonceZahl', geraeumt')
<1>1. TabelleStimmt(eimer, zeit) /\ zeit \in Nat BY ZahlenAssumption DEF IInv, UhrStimmt
<1>2. UNCHANGED <<geraeumt, nonces, nonceZahl>> BY DEF gib_zurueck
<1>3. TabelleStimmt(eimer', zeit)
  <2>1. CASE eimer[k] = Fehlt BY <1>1, <2>1 DEF gib_zurueck
  <2>2. CASE eimer[k] # Fehlt
    <3> DEFINE e == eimer[k]
               m == Kleiner(Fassung[k], e.marken + (zeit - e.zuletzt) * Nachfuellung[k] + c)
    <3>1. eimer \in [Eimer -> Eintrag \cup {Fehlt}] BY <1>1 DEF TabelleStimmt
    <3>2. eimer' = [eimer EXCEPT ![k] = Gefuellt(k, m)] BY <2>2, <3>1 DEF gib_zurueck
    <3>3. e.marken \in Nat /\ e.zuletzt \in Nat /\ e.zuletzt <= zeit
      BY <1>1, <2>2, <3>1 DEF TabelleStimmt, Eintrag
    <3>4. Fassung[k] \in Nat /\ Nachfuellung[k] \in Nat BY EimerZahlen
    <3>5. zeit - e.zuletzt \in Nat BY <1>1, <3>3
    <3>6. (zeit - e.zuletzt) * Nachfuellung[k] \in Nat BY <3>4, <3>5, Produkt
    <3>7. m \in 0 .. Fassung[k] BY <3>3, <3>4, <3>6 DEF Kleiner
    <3> QED BY <1>1, <2>2, <3>2, <3>7, Einschreiben
  <2> QED BY <2>1, <2>2
<1> QED BY <1>2, <1>3 DEF SpeicherStimmt, IInv, UhrStimmt

----------------------------------------------------------------------------
(* The local variables of the threads. *)

LEMMA WeiterHaelt ==
  ASSUME FadenStimmt, NEW t \in Faden, faden[t].ort # "frei", NEW o \in Ort \ {"frei"}, Weiter(t, o)
  PROVE  faden' \in [Faden -> Arbeit \cup {Frei}]
BY DEF FadenStimmt, Weiter, Arbeit, Frei

LEMMA EndeHaelt ==
  ASSUME FadenStimmt, NEW t \in Faden, Ende(t)
  PROVE  faden' \in [Faden -> Arbeit \cup {Frei}]
BY DEF FadenStimmt, Ende

LEMMA BeginntHaelt ==
  ASSUME FadenStimmt, NEW t \in Faden, NEW p \in Paar, NEW q \in Quelle, NEW o \in Ort \ {"frei"},
         NEW seit \in Nat, Beginnt(t, p, q, o, seit)
  PROVE  faden' \in [Faden -> Arbeit \cup {Frei}]
BY ZahlenAssumption DEF FadenStimmt, Beginnt, Arbeit

(* A thread that is under way has a pair and an origin. *)
LEMMA ArbeitTyp ==
  ASSUME FadenStimmt, NEW t \in Faden, faden[t].ort # "frei"
  PROVE  faden[t] \in Arbeit
BY DEF FadenStimmt, Frei

(* A step that issues no nonce and lets nobody in. *)
LEMMA RahmenHaelt ==
  ASSUME IInv, UNCHANGED <<zeit, naechste, einlass>>,
         SpeicherStimmt(eimer', nonces', nonceZahl', geraeumt'), FadenStimmt'
  PROVE  IInv'
BY DEF IInv, UhrStimmt, SpeicherStimmt

----------------------------------------------------------------------------
(* The steps. *)

LEMMA InitIInv == Init => IInv
<1> SUFFICES ASSUME Init PROVE IInv OBVIOUS
<1>1. UhrStimmt BY ZahlenAssumption DEF Init, UhrStimmt
<1>2. TabelleStimmt(eimer, zeit)
  <2>1. Da(eimer) = {} BY DEF Init, Da
  <2>2. eimer \in [Eimer -> Eintrag \cup {Fehlt}] /\ \A k \in Eimer : eimer[k] = Fehlt BY DEF Init
  <2>3. IsFiniteSet(Da(eimer)) /\ Cardinality(Da(eimer)) <= SPEICHER_MAX
    BY <2>1, FS_EmptySet, ZahlenAssumption
  <2> QED BY <2>2, <2>3 DEF TabelleStimmt
<1>3. NoncenStimmen(nonces, nonceZahl, naechste, einlass)
  <2>1. PlaetzeHalten({})
    <3>1. \A p \in Paar : Bei({}, p) = {} BY DEF Bei
    <3>2. NONCE_PLAETZE \in Nat /\ NONCE_HERKUENFTE \in Nat BY ZahlenAssumption
    <3>3. NONCE_PLAETZE * NONCE_HERKUENFTE \in Nat BY <3>2, Produkt
    <3> QED BY <3>1, <3>3, FS_EmptySet DEF PlaetzeHalten
  <2> QED BY <2>1, FS_EmptySet, ZahlenAssumption DEF Init, NoncenStimmen
<1>4. EinlassStimmt(naechste, einlass) BY DEF Init, EinlassStimmt
<1>5. FadenStimmt BY DEF Init, FadenStimmt
<1> QED BY <1>1, <1>2, <1>3, <1>4, <1>5 DEF IInv

LEMMA ChallengeBeginntHaelt ==
  ASSUME IInv, NEW t \in Faden, NEW p \in Paar, NEW q \in Quelle, ChallengeBeginnt(t, p, q)
  PROVE  IInv'
<1>1. PICK ok \in BOOLEAN :
        /\ herkunft_ok("chal", q, MARKE, ok)
        /\ IF ok THEN Beginnt(t, p, q, "platz", 0) ELSE UNCHANGED faden
  BY DEF ChallengeBeginnt
<1>2. MARKE \in Nat BY ZahlenAssumption
<1>3. SpeicherStimmt(eimer', nonces', nonceZahl', geraeumt') BY <1>1, <1>2, HerkunftHaelt
<1>4. faden' \in [Faden -> Arbeit \cup {Frei}]
  <2>1. "platz" \in Ort \ {"frei"} BY DEF Ort
  <2> QED BY <1>1, <2>1, BeginntHaelt DEF IInv, FadenStimmt
<1>5. FadenStimmt' BY <1>4 DEF IInv, FadenStimmt, ChallengeBeginnt
<1> QED BY <1>3, <1>5, RahmenHaelt DEF ChallengeBeginnt

LEMMA RegisterBeginntHaelt ==
  ASSUME IInv, NEW t \in Faden, NEW p \in Paar, NEW q \in Quelle, RegisterBeginnt(t, p, q)
  PROVE  IInv'
<1>1. PICK ok \in BOOLEAN :
        /\ herkunft_ok("reg", q, REG_KOSTEN, ok)
        /\ IF ok THEN Beginnt(t, p, q, "offen", zeit) ELSE UNCHANGED faden
  BY DEF RegisterBeginnt
<1>2. REG_KOSTEN \in Nat /\ zeit \in Nat BY ZahlenAssumption DEF IInv, UhrStimmt
<1>3. SpeicherStimmt(eimer', nonces', nonceZahl', geraeumt') BY <1>1, <1>2, HerkunftHaelt
<1>4. faden' \in [Faden -> Arbeit \cup {Frei}]
  <2>1. "offen" \in Ort \ {"frei"} BY DEF Ort
  <2> QED BY <1>1, <1>2, <2>1, BeginntHaelt DEF IInv, FadenStimmt
<1>5. FadenStimmt' BY <1>4 DEF IInv, FadenStimmt, RegisterBeginnt
<1> QED BY <1>3, <1>5, RahmenHaelt DEF RegisterBeginnt

LEMMA HatPlatzHaelt ==
  ASSUME IInv, NEW t \in Faden, speicher_hat_platz(t)
  PROVE  IInv'
<1>1. SpeicherStimmt(eimer', nonces', nonceZahl', geraeumt')
  BY GeraeumtStimmt DEF speicher_hat_platz
<1>2. Weiter(t, "ausgeben") \/ Ende(t) BY DEF speicher_hat_platz
<1>3. faden' \in [Faden -> Arbeit \cup {Frei}]
  <2>1. "ausgeben" \in Ort \ {"frei"} /\ faden[t].ort # "frei" BY DEF Ort, speicher_hat_platz
  <2> QED BY <1>2, <2>1, WeiterHaelt, EndeHaelt DEF IInv
<1>4. FadenStimmt' BY <1>3 DEF IInv, FadenStimmt, speicher_hat_platz
<1> QED BY <1>1, <1>4, RahmenHaelt DEF speicher_hat_platz

LEMMA AusgabeHaelt ==
  ASSUME IInv, NEW t \in Faden, issue_nonce(t)
  PROVE  IInv'
<1> DEFINE p == faden[t].paar
           h == nonce_herkunft(faden[t].quelle)
           offen == Offene(NoncesNach, p, zeit)
           rest == {e \in NoncesNach : e.paar # p} \cup offen
           zahl == ZahlNach - (Cardinality(NoncesNach) - Cardinality(rest))
           weicht == Weicht(offen, h)
           neu == [paar |-> p, nr |-> naechste, ablauf |-> zeit + NONCE_TTL_SECONDS, herkunft |-> h]
<1>1. /\ faden[t].ort # "frei" /\ naechste <= AUSGABE_MAX /\ Ende(t)
      /\ UNCHANGED <<zeit, sperre, zeilen, einlass, angelegt>>
      /\ eimer' = EimerNach /\ geraeumt' = GeraeumtNach
      /\ IF weicht = {} /\ zahl >= SPEICHER_MAX
         THEN nonces' = rest /\ nonceZahl' = zahl /\ UNCHANGED naechste
         ELSE /\ nonces' = (rest \ weicht) \cup {neu}
              /\ nonceZahl' = ZahlMitNeuer(zahl, weicht)
              /\ naechste' = naechste + 1
  BY DEF issue_nonce
<1>2. faden[t] \in Arbeit BY <1>1, ArbeitTyp DEF IInv
<1>3. p \in Paar /\ faden[t].quelle \in Quelle BY <1>2 DEF Arbeit
<1>4. /\ TabelleStimmt(EimerNach, zeit) /\ GeraeumtNach \in 0 .. zeit
      /\ NoncenStimmen(NoncesNach, ZahlNach, naechste, einlass)
  BY GeraeumtStimmt DEF SpeicherStimmt
<1>5. zeit \in Nat /\ naechste \in 1 .. AUSGABE_MAX /\ naechste \in Nat
  BY <1>1, ZahlenAssumption DEF IInv, UhrStimmt
<1>6. rest \subseteq NoncesNach BY DEF Offene
<1>7. Bei(rest, p) = offen BY DEF Bei, Offene
<1>8. /\ IsFiniteSet(NoncesNach) /\ ZahlNach = Cardinality(NoncesNach)
  BY <1>4 DEF NoncenStimmen
<1>9. IsFiniteSet(rest) BY <1>6, <1>8, FS_Subset
<1>10. Cardinality(rest) \in Nat /\ Cardinality(NoncesNach) \in Nat
  BY <1>8, <1>9, FS_CardinalityType
<1>11. zahl = Cardinality(rest) BY <1>8, <1>10
<1>12. NoncenStimmen(rest, zahl, naechste, einlass) BY <1>4, <1>6, <1>11, NoncenWeniger
<1>13. neu \in Nonce /\ neu.nr = naechste /\ neu.paar = p /\ neu.herkunft = h
  <2>1. zeit + NONCE_TTL_SECONDS \in Nat BY <1>5, ZahlenAssumption
  <2> QED BY <1>3, <1>5, <2>1 DEF Nonce
<1>14. einlass[naechste] = 0 BY <1>5 DEF IInv, EinlassStimmt
<1> HIDE DEF p, h, offen, rest, zahl, weicht, neu
<1>15. FadenStimmt' BY <1>1, EndeHaelt DEF IInv, FadenStimmt
<1>16. CASE weicht = {} /\ zahl >= SPEICHER_MAX
  <2>1. SpeicherStimmt(eimer', nonces', nonceZahl', geraeumt')
    BY <1>1, <1>4, <1>12, <1>16 DEF SpeicherStimmt
  <2> QED BY <1>1, <1>15, <1>16, <2>1, RahmenHaelt
<1>17. CASE ~(weicht = {} /\ zahl >= SPEICHER_MAX)
  <2>1. weicht # {} \/ zahl < SPEICHER_MAX BY <1>10, <1>11, <1>17, ZahlenAssumption
  <2>2. weicht = Weicht(Bei(rest, p), h) BY <1>7 DEF weicht
  <2>3. NoncenStimmen((rest \ weicht) \cup {neu}, zahl - Cardinality(weicht) + 1, naechste + 1, einlass)
    BY <1>3, <1>5, <1>12, <1>13, <1>14, <2>1, <2>2, NeueNonce
  <2>4. NoncenStimmen(nonces', nonceZahl', naechste', einlass')
    BY <1>1, <1>17, <2>3 DEF ZahlMitNeuer
  <2>5. EinlassStimmt(naechste', einlass')
    BY <1>1, <1>5, <1>17 DEF IInv, EinlassStimmt
  <2>6. UhrStimmt' BY <1>1, <1>4, <1>5, <1>17, ZahlenAssumption DEF IInv, UhrStimmt
  <2> QED BY <1>1, <1>4, <1>15, <2>4, <2>5, <2>6 DEF IInv
<1> QED BY <1>16, <1>17

LEMMA AbgewiesenHaelt ==
  ASSUME IInv, NEW t \in Faden, Abgewiesen(t)
  PROVE  IInv'
<1>1. SpeicherStimmt(eimer', nonces', nonceZahl', geraeumt') BY SpeicherRuht DEF Abgewiesen
<1>2. FadenStimmt' BY EndeHaelt DEF IInv, FadenStimmt, Abgewiesen
<1> QED BY <1>1, <1>2, RahmenHaelt DEF Abgewiesen

LEMMA OffeneHaelt ==
  ASSUME IInv, NEW t \in Faden, offene_nonces(t)
  PROVE  IInv'
<1>1. SpeicherStimmt(eimer', nonces', nonceZahl', geraeumt') BY SpeicherRuht DEF offene_nonces
<1>2. PICK e \in nonces :
        faden' = [faden EXCEPT ![t].ort = "verbrauchen", ![t].nr = e.nr, ![t].seit = zeit]
  BY DEF offene_nonces, Offene
<1>3. faden[t] \in Arbeit BY ArbeitTyp DEF IInv, offene_nonces
<1>4. e.nr \in 0 .. AUSGABE_MAX /\ zeit \in Nat /\ "verbrauchen" \in Ort \ {"frei"}
  BY ZahlenAssumption DEF IInv, NoncenStimmen, Nonce, UhrStimmt, Ort
<1>5. faden' \in [Faden -> Arbeit \cup {Frei}] BY <1>2, <1>3, <1>4 DEF IInv, FadenStimmt, Arbeit
<1>6. FadenStimmt' BY <1>5 DEF IInv, FadenStimmt, offene_nonces
<1> QED BY <1>1, <1>6, RahmenHaelt DEF offene_nonces

(* The one step that lets somebody in: the nonce was there, so it had let  *)
(* nobody in; it is gone with every other entry of its number.             *)
LEMMA VerbrauchHaelt ==
  ASSUME IInv, NEW t \in Faden, verbrauche_nonce(t)
  PROVE  IInv'
<1> DEFINE treffer == {e \in nonces : e.paar = faden[t].paar /\ e.nr = faden[t].nr}
           M == nonces \ treffer
<1>1. NoncenStimmen(nonces, nonceZahl, naechste, einlass) BY DEF IInv
<1>2. IsFiniteSet(nonces) /\ nonceZahl = Cardinality(nonces) BY <1>1 DEF NoncenStimmen
<1>3. treffer \subseteq nonces /\ \A e \in treffer : treffer = {e}
  BY <1>1 DEF NoncenStimmen
<1>4. nonces' = M /\ nonceZahl' = nonceZahl - Cardinality(treffer)
  BY DEF verbrauche_nonce
<1>5. nonceZahl' = Cardinality(M)
  <2>1. CASE treffer = {}
    <3>1. M = nonces /\ Cardinality(treffer) = 0 BY <2>1, FS_EmptySet
    <3>2. Cardinality(nonces) \in Nat BY <1>2, FS_CardinalityType
    <3> QED BY <1>2, <1>4, <3>1, <3>2
  <2>2. CASE treffer # {}
    <3>1. PICK e \in nonces : treffer = {e} BY <1>3, <2>2
    <3>2. Cardinality(nonces \ {e}) = Cardinality(nonces) - 1 BY <1>2, FS_RemoveElement
    <3>3. Cardinality({e}) = 1 BY FS_Singleton
    <3> QED BY <1>2, <1>4, <3>1, <3>2, <3>3
  <2> QED BY <2>1, <2>2
<1>6. NoncenStimmen(M, nonceZahl', naechste, einlass) BY <1>1, <1>5, NoncenWeniger
<1>7. faden[t] \in Arbeit BY ArbeitTyp DEF IInv, verbrauche_nonce
<1>8. FadenStimmt'
  <2>1. faden[t].paar \in Paar /\ faden[t].quelle \in Quelle BY <1>7 DEF Arbeit
  <2>2. Beginnt(t, faden[t].paar, faden[t].quelle, "sperre", 0) \/ Ende(t) BY DEF verbrauche_nonce
  <2>3. "sperre" \in Ort \ {"frei"} BY DEF Ort
  <2>4. faden' \in [Faden -> Arbeit \cup {Frei}]
    BY <2>1, <2>2, <2>3, BeginntHaelt, EndeHaelt DEF IInv
  <2> QED BY <2>4 DEF IInv, FadenStimmt, verbrauche_nonce
<1>9. UNCHANGED <<zeit, eimer, geraeumt, naechste>> BY DEF verbrauche_nonce
<1>10. CASE UNCHANGED einlass
  <2>1. SpeicherStimmt(eimer', nonces', nonceZahl', geraeumt')
    BY <1>4, <1>6, <1>9 DEF IInv, UhrStimmt, SpeicherStimmt
  <2> QED BY <1>8, <1>9, <1>10, <2>1, RahmenHaelt
<1>11. CASE /\ \E e \in treffer : TRUE
            /\ einlass' = [einlass EXCEPT ![faden[t].nr] = @ + 1]
  <2>1. PICK e \in nonces : e.nr = faden[t].nr /\ treffer = {e} BY <1>3, <1>11
  <2>2. e.nr \in 1 .. AUSGABE_MAX /\ e.nr < naechste /\ einlass[e.nr] = 0
    BY <1>1, <2>1 DEF NoncenStimmen, Nonce
  <2>3. einlass \in [1 .. AUSGABE_MAX -> 0 .. 1] BY DEF IInv, EinlassStimmt
  <2>4. einlass' \in [1 .. AUSGABE_MAX -> 0 .. 1]
        /\ \A i \in 1 .. AUSGABE_MAX : i # e.nr => einlass'[i] = einlass[i]
    BY <1>11, <2>1, <2>2, <2>3
  <2>5. naechste \in Nat BY DEF IInv, UhrStimmt
  <2>6. EinlassStimmt(naechste', einlass')
    BY <1>9, <2>2, <2>4, <2>5 DEF IInv, EinlassStimmt
  <2>7. \A f \in M : f.nr # e.nr /\ f.nr \in 1 .. AUSGABE_MAX
    BY <1>1, <2>1 DEF NoncenStimmen, Nonce
  <2>8. \A f \in M : einlass'[f.nr] = 0 BY <1>6, <2>4, <2>7 DEF NoncenStimmen
  <2>9. NoncenStimmen(M, nonceZahl', naechste', einlass')
    BY <1>6, <1>9, <2>8 DEF NoncenStimmen
  <2>10. UhrStimmt' BY <1>9 DEF IInv, UhrStimmt
  <2>11. TabelleStimmt(eimer', zeit') BY <1>9 DEF IInv
  <2> QED BY <1>4, <1>8, <2>6, <2>9, <2>10, <2>11 DEF IInv
<1> QED BY <1>10, <1>11 DEF verbrauche_nonce

LEMMA NimmtSperreHaelt ==
  ASSUME IInv, NEW t \in Faden, NimmtSperre(t)
  PROVE  IInv'
<1>1. SpeicherStimmt(eimer', nonces', nonceZahl', geraeumt') BY SpeicherRuht DEF NimmtSperre
<1>2. faden[t] \in Arbeit BY ArbeitTyp DEF IInv, NimmtSperre
<1>3. PICK o \in {"neu", "speichern"} :
        faden' = [faden EXCEPT ![t].ort = o, ![t].vorher = [k \in NeuEimer |-> Stand(k, eimer[k])]]
  BY DEF NimmtSperre
<1>4. o \in Ort \ {"frei"} BY DEF Ort
<1>5. [k \in NeuEimer |-> Stand(k, eimer[k])] \in [NeuEimer -> Nat]
  <2> SUFFICES ASSUME NEW k \in NeuEimer PROVE Stand(k, eimer[k]) \in Nat OBVIOUS
  <2>1. k \in Eimer BY FehltNicht
  <2>2. Fassung[k] \in Nat BY <2>1, EimerZahlen
  <2>3. zeit \in Nat BY ZahlenAssumption DEF IInv, UhrStimmt
  <2>4. Stand(k, eimer[k]) \in 0 .. Fassung[k]
    BY <2>1, <2>3, StandTyp DEF IInv, TabelleStimmt
  <2> QED BY <2>2, <2>4
<1>6. faden' \in [Faden -> Arbeit \cup {Frei}]
  BY <1>2, <1>3, <1>4, <1>5 DEF IInv, FadenStimmt, Arbeit
<1>7. FadenStimmt' BY <1>6 DEF IInv, FadenStimmt, NimmtSperre
<1> QED BY <1>1, <1>7, RahmenHaelt DEF NimmtSperre

(* The next bucket a new address is charged to is a bucket.                *)
LEMMA ReiheInEimern ==
  ASSUME NEW t \in Faden, faden[t] \in Arbeit,
         ~(Cardinality(faden[t].genommen) + 1 > Len(eimer_neuer_adressen(faden[t].quelle)))
  PROVE  LET b == eimer_neuer_adressen(faden[t].quelle)[Cardinality(faden[t].genommen) + 1] IN
         b \in NeuEimer /\ b \in Eimer
<1> DEFINE reihe == eimer_neuer_adressen(faden[t].quelle)
           i == Cardinality(faden[t].genommen) + 1
<1>1. faden[t].quelle \in Quelle BY DEF Arbeit
<1>2. reihe \in Seq(NeuEimer)
  BY <1>1, MengenAssumption DEF eimer_neuer_adressen, NeuEimer, limit_schluessel48
<1>3. i \in Nat \ {0}
  <2>1. faden[t].genommen \subseteq NeuEimer BY DEF Arbeit
  <2>2. IsFiniteSet(faden[t].genommen) BY <2>1, NeuEimerEndlich, FS_Subset
  <2> QED BY <2>2, FS_CardinalityType
<1> QED BY <1>2, <1>3, FehltNicht

LEMMA NeueAdresseHaelt ==
  ASSUME IInv, NEW t \in Faden, neue_adresse_ok(t)
  PROVE  IInv'
<1> DEFINE reihe == eimer_neuer_adressen(faden[t].quelle)
           i == Cardinality(faden[t].genommen) + 1
<1>1. /\ faden[t].ort # "frei" /\ UNCHANGED <<zeit, naechste, zeilen, einlass, angelegt, sperre>>
      /\ \/ Weiter(t, "speichern") /\ UNCHANGED speicher
         \/ /\ ~(i > Len(reihe)) /\ nimm(reihe[i], MARKE)
            /\ \/ faden' = [faden EXCEPT ![t].genommen = @ \cup {reihe[i]}]
               \/ faden' = [faden EXCEPT ![t].ort = "erstatten", ![t].genommen = Geschuldet(t)]
  BY DEF neue_adresse_ok
<1>2. faden[t] \in Arbeit BY <1>1, ArbeitTyp DEF IInv
<1>3. CASE Weiter(t, "speichern") /\ UNCHANGED speicher
  <2>1. SpeicherStimmt(eimer', nonces', nonceZahl', geraeumt') BY <1>3, SpeicherRuht
  <2>2. "speichern" \in Ort \ {"frei"} BY DEF Ort
  <2>3. FadenStimmt' BY <1>1, <1>3, <2>2, WeiterHaelt DEF IInv, FadenStimmt
  <2> QED BY <1>1, <2>1, <2>3, RahmenHaelt
<1>4. CASE /\ ~(i > Len(reihe)) /\ nimm(reihe[i], MARKE)
           /\ \/ faden' = [faden EXCEPT ![t].genommen = @ \cup {reihe[i]}]
              \/ faden' = [faden EXCEPT ![t].ort = "erstatten", ![t].genommen = Geschuldet(t)]
  <2>1. reihe[i] \in NeuEimer /\ reihe[i] \in Eimer BY <1>2, <1>4, ReiheInEimern
  <2>2. MARKE \in Nat BY ZahlenAssumption
  <2>3. SpeicherStimmt(eimer', nonces', nonceZahl', geraeumt') BY <1>4, <2>1, <2>2, NimmHaelt
  <2>4. "erstatten" \in Ort \ {"frei"} BY DEF Ort
  <2>5. faden' \in [Faden -> Arbeit \cup {Frei}]
    <3>1. PICK b \in NeuEimer : b = reihe[i] BY <2>1
    <3>2. faden[t].genommen \in SUBSET NeuEimer BY <1>2 DEF Arbeit
    <3>3. CASE faden' = [faden EXCEPT ![t].genommen = @ \cup {reihe[i]}]
      <4>1. PICK G \in SUBSET NeuEimer : G = faden[t].genommen \cup {b} BY <3>2
      <4>2. faden' = [faden EXCEPT ![t] = [faden[t] EXCEPT !.genommen = G]]
        BY <3>1, <3>3, <4>1, Zenon
      <4> QED BY <1>2, <4>2 DEF IInv, FadenStimmt, Arbeit
    <3>4. CASE faden' = [faden EXCEPT ![t].ort = "erstatten", ![t].genommen = Geschuldet(t)]
      BY <1>2, <2>4, <3>4 DEF IInv, FadenStimmt, Arbeit, Geschuldet
    <3> QED BY <1>4, <3>3, <3>4
  <2>6. FadenStimmt' BY <1>1, <2>5 DEF IInv, FadenStimmt
  <2> QED BY <1>1, <2>3, <2>6, RahmenHaelt
<1> QED BY <1>1, <1>3, <1>4

LEMMA SpeichertHaelt ==
  ASSUME IInv, NEW t \in Faden, Speichert(t)
  PROVE  IInv'
<1>1. SpeicherStimmt(eimer', nonces', nonceZahl', geraeumt') BY SpeicherRuht DEF Speichert
<1>2. faden[t] \in Arbeit /\ faden[t].ort # "frei" BY ArbeitTyp DEF IInv, Speichert
<1>3. CASE /\ zeilen' = zeilen \cup {faden[t].paar}
           /\ angelegt' = [k \in NeuEimer |-> angelegt[k] + IF k \in faden[t].genommen THEN 1 ELSE 0]
           /\ Laesst(t)
  <2>1. zeilen' \subseteq Paar BY <1>2, <1>3 DEF IInv, FadenStimmt, Arbeit
  <2>2. angelegt' \in [NeuEimer -> Nat] BY <1>3 DEF IInv, FadenStimmt
  <2>3. FadenStimmt' BY <1>3, <2>1, <2>2, EndeHaelt DEF IInv, FadenStimmt, Laesst
  <2> QED BY <1>1, <2>3, RahmenHaelt DEF Speichert
<1>4. CASE Weiter(t, "erstatten") /\ UNCHANGED <<zeilen, angelegt, sperre>>
  <2>1. "erstatten" \in Ort \ {"frei"} BY DEF Ort
  <2>2. FadenStimmt' BY <1>2, <1>4, <2>1, WeiterHaelt DEF IInv, FadenStimmt
  <2> QED BY <1>1, <2>2, RahmenHaelt DEF Speichert
<1> QED BY <1>3, <1>4 DEF Speichert

LEMMA ErstattetHaelt ==
  ASSUME IInv, NEW t \in Faden, Erstattet(t)
  PROVE  IInv'
<1>1. faden[t] \in Arbeit BY ArbeitTyp DEF IInv, Erstattet
<1>2. UNCHANGED <<zeit, naechste, zeilen, einlass, angelegt>> BY DEF Erstattet
<1>3. CASE Laesst(t) /\ UNCHANGED speicher
  <2>1. SpeicherStimmt(eimer', nonces', nonceZahl', geraeumt') BY <1>3, SpeicherRuht
  <2>2. FadenStimmt' BY <1>2, <1>3, EndeHaelt DEF IInv, FadenStimmt, Laesst
  <2> QED BY <1>2, <2>1, <2>2, RahmenHaelt
<1>4. ASSUME NEW k \in faden[t].genommen, gib_zurueck(k, MARKE), UNCHANGED sperre,
             faden' = [faden EXCEPT ![t].genommen = @ \ {k}]
      PROVE  IInv'
  <2>1. k \in Eimer /\ MARKE \in Nat BY <1>1, FehltNicht, ZahlenAssumption DEF Arbeit
  <2>2. SpeicherStimmt(eimer', nonces', nonceZahl', geraeumt') BY <1>4, <2>1, GibZurueckHaelt
  <2>3. faden' \in [Faden -> Arbeit \cup {Frei}] BY <1>1, <1>4 DEF IInv, FadenStimmt, Arbeit
  <2>4. FadenStimmt' BY <1>2, <1>4, <2>3 DEF IInv, FadenStimmt
  <2> QED BY <1>2, <2>2, <2>4, RahmenHaelt
<1> QED BY <1>3, <1>4 DEF Erstattet

LEMMA MsgLimitHaelt ==
  ASSUME IInv, NEW a \in Absender, msg_limit_ok(a)
  PROVE  IInv'
<1>1. <<"msg", a>> \in Eimer /\ MARKE \in Nat BY ZahlenAssumption DEF Eimer
<1>2. SpeicherStimmt(eimer', nonces', nonceZahl', geraeumt') BY <1>1, NimmHaelt DEF msg_limit_ok
<1>3. FadenStimmt' BY DEF IInv, FadenStimmt, msg_limit_ok
<1> QED BY <1>2, <1>3, RahmenHaelt DEF msg_limit_ok

LEMMA RaeumtHaelt ==
  ASSUME IInv, raeume_speicher_auf
  PROVE  IInv'
<1>1. SpeicherStimmt(eimer', nonces', nonceZahl', geraeumt')
  BY GeraeumtStimmt DEF raeume_speicher_auf
<1>2. FadenStimmt' BY DEF IInv, FadenStimmt, raeume_speicher_auf
<1> QED BY <1>1, <1>2, RahmenHaelt DEF raeume_speicher_auf

LEMMA VergehtHaelt ==
  ASSUME IInv, Vergeht
  PROVE  IInv'
<1>1. UhrStimmt' BY ZahlenAssumption DEF IInv, UhrStimmt, Vergeht, speicher
<1>2. TabelleStimmt(eimer, zeit + 1)
  <2>1. zeit \in Nat BY ZahlenAssumption DEF IInv, UhrStimmt
  <2>2. \A k \in Eimer : eimer[k] # Fehlt => eimer[k].zuletzt \in Nat
    BY DEF IInv, TabelleStimmt, Eintrag
  <2> QED BY <2>1, <2>2 DEF IInv, TabelleStimmt
<1>3. TabelleStimmt(eimer', zeit') BY <1>2 DEF Vergeht, speicher
<1>4. FadenStimmt' BY DEF IInv, FadenStimmt, Vergeht
<1>5. NoncenStimmen(nonces', nonceZahl', naechste', einlass') /\ EinlassStimmt(naechste', einlass')
  BY DEF IInv, Vergeht, speicher
<1> QED BY <1>1, <1>3, <1>4, <1>5 DEF IInv

LEMMA RuhtHaelt ==
  ASSUME IInv, UNCHANGED vars
  PROVE  IInv'
<1>1. SpeicherStimmt(eimer', nonces', nonceZahl', geraeumt') BY SpeicherRuht DEF vars
<1>2. FadenStimmt' BY DEF IInv, FadenStimmt, vars
<1> QED BY <1>1, <1>2, RahmenHaelt DEF vars

LEMMA SchrittHaelt ==
  ASSUME IInv, [Next]_vars
  PROVE  IInv'
BY ChallengeBeginntHaelt, RegisterBeginntHaelt, HatPlatzHaelt, AusgabeHaelt, AbgewiesenHaelt,
   OffeneHaelt, VerbrauchHaelt, NimmtSperreHaelt, NeueAdresseHaelt, SpeichertHaelt, ErstattetHaelt,
   MsgLimitHaelt, RaeumtHaelt, VergehtHaelt, RuhtHaelt
   DEF Next

----------------------------------------------------------------------------
(* The theorems. *)

(* The inductive invariant holds in every reachable state: tables, threads *)
(* and histories fit each other whatever the threads of the pool, the      *)
(* timer and the clock do between two stretches under the lock.            *)
THEOREM Invariante == Spec => []IInv
<1>1. Init => IInv BY InitIInv
<1>2. IInv /\ [Next]_vars => IInv' BY SchrittHaelt
<1> QED BY <1>1, <1>2, PTL DEF Spec

(* Types: what issue_nonce, _take and the handlers leave in the tables and *)
(* in the threads' variables has the form the next call expects.           *)
THEOREM TypKorrekt == Spec => []TypeOK
<1>1. IInv => TypeOK
  <2> SUFFICES ASSUME IInv PROVE TypeOK OBVIOUS
  <2>1. zeit \in 0 .. ZEIT_MAX /\ geraeumt \in 0 .. zeit /\ naechste \in 1 .. AUSGABE_MAX + 1
    BY DEF IInv, UhrStimmt
  <2>2. eimer \in [Eimer -> Eintrag \cup {Fehlt}] BY DEF IInv, TabelleStimmt
  <2>3. nonces \subseteq Nonce /\ nonceZahl \in Nat
    BY FS_CardinalityType DEF IInv, NoncenStimmen
  <2>4. einlass \in [1 .. AUSGABE_MAX -> Nat] BY DEF IInv, EinlassStimmt
  <2> QED BY <2>1, <2>2, <2>3, <2>4 DEF IInv, FadenStimmt, TypeOK
<1> QED BY <1>1, Invariante, PTL

(* A nonce lets at most one registration in, for any number of threads     *)
(* that have seen it open (verbrauche_nonce).                              *)
THEOREM EinmalGueltig == Spec => []NonceGiltEinmal
<1>1. IInv => NonceGiltEinmal BY DEF IInv, EinlassStimmt, NonceGiltEinmal
<1> QED BY <1>1, Invariante, PTL

(* The counter _nonce_zahl is the number of entries (issue_nonce, the      *)
(* sweep and verbrauche_nonce each correct it on their own).               *)
THEOREM ZahlStimmt == Spec => []NonceZahlStimmt
<1>1. IInv => NonceZahlStimmt BY DEF IInv, NoncenStimmen, NonceZahlStimmt
<1> QED BY <1>1, Invariante, PTL

(* Both tables stay under the roof, and a pair's nonces under its places:  *)
(* the tests of speicher_hat_platz, _take and issue_nonce stand in other   *)
(* stretches than the writes of other threads.                             *)
THEOREM Daecher == Spec => []DaecherHalten
<1>1. IInv => DaecherHalten
  BY DEF IInv, NoncenStimmen, TabelleStimmt, PlaetzeHalten, Bei, DaecherHalten, NonceZahlStimmt
<1> QED BY <1>1, Invariante, PTL

----------------------------------------------------------------------------
(* Refinement: the table of buckets, swept and made anew at any time, is   *)
(* one bucket for each key that was always there.                          *)

(* What the buckets hold, those that are not in the table counted as full. *)
Guthaben == [k \in Eimer |-> Stand(k, eimer[k])]

(* The facts about the table that the steps below rest on. *)
LEMMA Tabelle ==
  ASSUME IInv
  PROVE  /\ zeit \in Nat /\ eimer \in [Eimer -> Eintrag \cup {Fehlt}]
         /\ \A k \in Eimer : eimer[k] # Fehlt =>
              /\ eimer[k].marken \in Nat /\ eimer[k].zuletzt \in Nat /\ eimer[k].voll_ab \in Nat
              /\ eimer[k].marken <= Fassung[k] /\ eimer[k].zuletzt <= zeit
              /\ VollGenug(k, eimer[k])
BY ZahlenAssumption DEF IInv, UhrStimmt, TabelleStimmt, Eintrag

LEMMA Mehr ==
  ASSUME NEW x \in Nat, NEW y \in Nat, NEW n \in Nat, x <= y
  PROVE  x * n <= y * n
OBVIOUS

(* A bucket that is swept is full. *)
LEMMA VollIstVoll ==
  ASSUME IInv, NEW k \in Eimer, eimer[k] # Fehlt, eimer[k].voll_ab <= zeit
  PROVE  Stand(k, eimer[k]) = Fassung[k]
<1> DEFINE e == eimer[k]
           y == (zeit - e.zuletzt) * Nachfuellung[k]
<1>1. /\ zeit \in Nat /\ e.marken \in Nat /\ e.zuletzt \in Nat /\ e.voll_ab \in Nat
      /\ e.zuletzt <= e.voll_ab /\ Fassung[k] <= e.marken + (e.voll_ab - e.zuletzt) * Nachfuellung[k]
  BY Tabelle DEF VollGenug
<1>2. Fassung[k] \in Nat /\ Nachfuellung[k] \in Nat BY EimerZahlen
<1>3. e.voll_ab - e.zuletzt \in Nat /\ zeit - e.zuletzt \in Nat
      /\ e.voll_ab - e.zuletzt <= zeit - e.zuletzt
  BY <1>1
<1>4. (e.voll_ab - e.zuletzt) * Nachfuellung[k] <= (zeit - e.zuletzt) * Nachfuellung[k]
  BY <1>2, <1>3, Mehr
<1>5. (e.voll_ab - e.zuletzt) * Nachfuellung[k] \in Nat /\ (zeit - e.zuletzt) * Nachfuellung[k] \in Nat
  BY <1>2, <1>3, Produkt
<1>6. Stand(k, e) = Kleiner(Fassung[k], e.marken + y) BY DEF Stand
<1>7. y \in Nat /\ Fassung[k] <= e.marken + y BY <1>1, <1>2, <1>4, <1>5
<1> HIDE DEF e, y
<1>8. Kleiner(Fassung[k], e.marken + y) = Fassung[k] BY <1>1, <1>2, <1>7 DEF Kleiner
<1> QED BY <1>6, <1>8 DEF e

(* So a sweep changes no balance. *)
LEMMA RaeumenUnsichtbar ==
  ASSUME IInv, NEW k \in Eimer
  PROVE  /\ Stand(k, EimerGeraeumt(eimer)[k]) = Stand(k, eimer[k])
         /\ Stand(k, EimerNach[k]) = Stand(k, eimer[k])
<1>1. Stand(k, EimerGeraeumt(eimer)[k]) = Stand(k, eimer[k])
  <2>1. CASE eimer[k] # Fehlt /\ eimer[k].voll_ab <= zeit
    <3>1. EimerGeraeumt(eimer)[k] = Fehlt BY <2>1 DEF EimerGeraeumt
    <3>2. Stand(k, Fehlt) = Fassung[k] BY DEF Stand
    <3> QED BY <2>1, <3>1, <3>2, VollIstVoll
  <2>2. CASE ~(eimer[k] # Fehlt /\ eimer[k].voll_ab <= zeit)
    BY <2>2 DEF EimerGeraeumt
  <2> QED BY <2>1, <2>2
<1> QED BY <1>1 DEF EimerNach

LEMMA GefuelltStand ==
  ASSUME NEW k \in Eimer, NEW m \in 0 .. Fassung[k], zeit \in Nat
  PROVE  Stand(k, Gefuellt(k, m)) = m
<1>1. Fassung[k] \in Nat /\ Nachfuellung[k] \in Nat BY EimerZahlen
<1>2. Gefuellt(k, m) \in Eintrag /\ Gefuellt(k, m).marken = m /\ Gefuellt(k, m).zuletzt = zeit
  BY GefuelltTyp
<1>3. Gefuellt(k, m) # Fehlt BY <1>2, FehltNicht
<1>4. Stand(k, Gefuellt(k, m)) = Kleiner(Fassung[k], m + (zeit - zeit) * Nachfuellung[k])
  BY <1>2, <1>3 DEF Stand
<1>5. (zeit - zeit) * Nachfuellung[k] = 0 BY <1>1
<1> QED BY <1>1, <1>4, <1>5 DEF Kleiner

----------------------------------------------------------------------------
(* Every step is a step of the ideal buckets or leaves them alone. *)

LEMMA AnfangIdeal == Init => Ideal!Init
BY DEF Init, Ideal!Init, Stand

LEMMA Unveraendert ==
  ASSUME IInv, zeit' = zeit, eimer' = eimer \/ eimer' = EimerNach \/ eimer' = EimerGeraeumt(eimer)
  PROVE  Guthaben' = Guthaben
<1>1. \A k \in Eimer : Stand(k, eimer'[k]) = Stand(k, eimer[k]) BY RaeumenUnsichtbar
<1>2. \A k \in Eimer : Stand(k, eimer[k])' = Stand(k, eimer'[k]) BY DEF Stand
<1> QED BY <1>1, <1>2 DEF Guthaben

LEMMA NimmtIdeal ==
  ASSUME IInv, zeit' = zeit, NEW k \in Eimer, NEW c \in Nat, nimm(k, c)
  PROVE  \/ Guthaben' = Guthaben
         \/ /\ Guthaben[k] >= c /\ Guthaben'[k] = Guthaben[k] - c
            /\ \A j \in Eimer \ {k} : Guthaben'[j] = Guthaben[j]
<1>1. CASE AmDach(k) BY <1>1, Unveraendert DEF nimm
<1>2. CASE ~AmDach(k)
  <2> DEFINE e == EimerNach[k]
             m == Stand(k, e) - (IF Reicht(k, c) THEN c ELSE 0)
  <2>1. TabelleStimmt(EimerNach, zeit) BY GeraeumtStimmt DEF SpeicherStimmt
  <2>2. EimerNach \in [Eimer -> Eintrag \cup {Fehlt}] /\ zeit \in Nat
    BY <2>1, Tabelle DEF TabelleStimmt
  <2>3. eimer' = [EimerNach EXCEPT ![k] = Gefuellt(k, m)] BY <1>2, <2>2 DEF nimm
  <2>4. e \in Eintrag \cup {Fehlt} /\ (e # Fehlt => e.marken <= Fassung[k] /\ e.zuletzt <= zeit)
    BY <2>1, <2>2 DEF TabelleStimmt
  <2>5. Stand(k, e) \in 0 .. Fassung[k] /\ Fassung[k] \in Nat BY <2>2, <2>4, StandTyp, EimerZahlen
  <2>6. Reicht(k, c) <=> Stand(k, e) >= c BY <1>2 DEF Reicht
  <2>7. m \in 0 .. Fassung[k] BY <2>5, <2>6
  <2>8. eimer'[k] = Gefuellt(k, m) /\ \A j \in Eimer \ {k} : eimer'[j] = EimerNach[j]
    BY <2>2, <2>3
  <2>9. \A j \in Eimer : Guthaben'[j] = Stand(j, eimer'[j]) BY DEF Guthaben, Stand
  <2>10. \A j \in Eimer : Guthaben[j] = Stand(j, EimerNach[j]) BY RaeumenUnsichtbar DEF Guthaben
  <2>11. Guthaben'[k] = m BY <2>2, <2>7, <2>8, <2>9, GefuelltStand
  <2>12. \A j \in Eimer \ {k} : Guthaben'[j] = Guthaben[j] BY <2>8, <2>9, <2>10
  <2>13. CASE Reicht(k, c) BY <2>6, <2>10, <2>11, <2>12, <2>13
  <2>14. CASE ~Reicht(k, c)
    <3>1. m = Guthaben[k] BY <2>5, <2>10, <2>14
    <3>2. \A j \in Eimer : Guthaben'[j] = Guthaben[j] BY <2>11, <2>12, <3>1
    <3> QED BY <3>2 DEF Guthaben
  <2> QED BY <2>13, <2>14
<1> QED BY <1>1, <1>2

LEMMA ErstattetIdeal ==
  ASSUME IInv, zeit' = zeit, NEW k \in Eimer, NEW c \in Nat, gib_zurueck(k, c)
  PROVE  /\ Guthaben'[k] = Ideal!Hoechstens(k, Guthaben[k] + c)
         /\ \A j \in Eimer \ {k} : Guthaben'[j] = Guthaben[j]
<1>1. zeit \in Nat /\ eimer \in [Eimer -> Eintrag \cup {Fehlt}] BY Tabelle
<1>2. Fassung[k] \in Nat /\ Nachfuellung[k] \in Nat BY EimerZahlen
<1>3. \A j \in Eimer : Guthaben'[j] = Stand(j, eimer'[j]) /\ Guthaben[j] = Stand(j, eimer[j])
  BY DEF Guthaben, Stand
<1>4. CASE eimer[k] = Fehlt
  <2>1. eimer' = eimer BY <1>4 DEF gib_zurueck
  <2>2. Guthaben[k] = Fassung[k] BY <1>3, <1>4 DEF Stand
  <2> QED BY <1>2, <1>3, <2>1, <2>2 DEF Ideal!Hoechstens
<1>5. CASE eimer[k] # Fehlt
  <2> DEFINE e == eimer[k]
             s == e.marken + (zeit - e.zuletzt) * Nachfuellung[k]
             m == Kleiner(Fassung[k], s + c)
  <2>1. eimer' = [eimer EXCEPT ![k] = Gefuellt(k, m)] BY <1>1, <1>5 DEF gib_zurueck
  <2>2. e.marken \in Nat /\ zeit - e.zuletzt \in Nat BY <1>1, <1>5, Tabelle
  <2>3. (zeit - e.zuletzt) * Nachfuellung[k] \in Nat BY <1>2, <2>2, Produkt
  <2>4. s \in Nat BY <2>2, <2>3
  <2>5. Guthaben[k] = Kleiner(Fassung[k], s) BY <1>3, <1>5 DEF Stand
  <2> HIDE DEF s
  <2>6. m \in 0 .. Fassung[k] BY <1>2, <2>4 DEF Kleiner
  <2>7. Guthaben'[k] = m BY <1>1, <1>3, <2>1, <2>6, GefuelltStand
  <2>8. \A j \in Eimer \ {k} : Guthaben'[j] = Guthaben[j] BY <1>1, <1>3, <2>1
  <2>9. m = Ideal!Hoechstens(k, Guthaben[k] + c)
    BY <1>2, <2>4, <2>5 DEF Kleiner, Ideal!Hoechstens
  <2> QED BY <2>7, <2>8, <2>9
<1> QED BY <1>4, <1>5

LEMMA VergehtIdeal ==
  ASSUME IInv, Vergeht, NEW k \in Eimer
  PROVE  Guthaben'[k] = Ideal!Hoechstens(k, Guthaben[k] + Nachfuellung[k])
<1>1. zeit \in Nat /\ zeit' = zeit + 1 /\ eimer' = eimer BY Tabelle DEF Vergeht, speicher
<1>2. Fassung[k] \in Nat /\ Nachfuellung[k] \in Nat BY EimerZahlen
<1>3. CASE eimer[k] = Fehlt
  <2>1. Guthaben'[k] = Fassung[k] /\ Guthaben[k] = Fassung[k] BY <1>1, <1>3 DEF Guthaben, Stand
  <2> QED BY <1>2, <2>1 DEF Ideal!Hoechstens
<1>4. CASE eimer[k] # Fehlt
  <2> DEFINE e == eimer[k]
             d == zeit - e.zuletzt
  <2>1. e.marken \in Nat /\ e.zuletzt \in Nat /\ d \in Nat BY <1>1, <1>4, Tabelle
  <2>2. Guthaben[k] = Kleiner(Fassung[k], e.marken + d * Nachfuellung[k])
    BY <1>4 DEF Guthaben, Stand
  <2>3. Guthaben'[k] = Kleiner(Fassung[k], e.marken + (d + 1) * Nachfuellung[k])
    <3>1. Guthaben'[k] = Kleiner(Fassung[k], e.marken + (zeit + 1 - e.zuletzt) * Nachfuellung[k])
      <4>1. Guthaben'[k] = Stand(k, eimer[k])' BY DEF Guthaben
      <4>2. Stand(k, eimer[k])' = IF eimer'[k] = Fehlt THEN Fassung[k]
              ELSE Kleiner(Fassung[k], eimer'[k].marken + (zeit' - eimer'[k].zuletzt) * Nachfuellung[k])
        BY Zenon DEF Stand
      <4>3. eimer'[k] = eimer[k] /\ zeit' = zeit + 1 BY <1>1
      <4>4. eimer'[k] # Fehlt BY <1>4, <4>3
      <4>5. Guthaben'[k] = Kleiner(Fassung[k], eimer'[k].marken
                                     + (zeit' - eimer'[k].zuletzt) * Nachfuellung[k])
        BY <4>1, <4>2, <4>4, Zenon
      <4>6. eimer'[k].marken = e.marken /\ zeit' - eimer'[k].zuletzt = zeit + 1 - e.zuletzt
        BY <1>1, <2>1
      <4> QED BY <4>5, <4>6
    <3>2. zeit + 1 - e.zuletzt = d + 1 BY <1>1, <2>1
    <3> QED BY <3>1, <3>2
  <2> HIDE DEF d
  <2>4. (d + 1) * Nachfuellung[k] = d * Nachfuellung[k] + Nachfuellung[k] BY <1>2, <2>1
  <2>5. d * Nachfuellung[k] \in Nat BY <1>2, <2>1, Produkt
  <2> QED BY <1>2, <2>1, <2>2, <2>3, <2>4, <2>5 DEF Kleiner, Ideal!Hoechstens
<1> QED BY <1>3, <1>4

(* The next-state relation of TokenBuckets, read off Guthaben. *)
LEMMA IdealerSchritt ==
  ASSUME \/ Guthaben' = Guthaben
         \/ \A k \in Eimer : Guthaben'[k] = Ideal!Hoechstens(k, Guthaben[k] + Nachfuellung[k])
         \/ \E k \in Eimer, c \in Kosten :
              /\ \/ Guthaben[k] >= c /\ Guthaben'[k] = Guthaben[k] - c
                 \/ Guthaben'[k] = Ideal!Hoechstens(k, Guthaben[k] + c)
              /\ \A j \in Eimer \ {k} : Guthaben'[j] = Guthaben[j]
  PROVE  Ideal!Next
<1>1. DOMAIN Guthaben' = Eimer BY DEF Guthaben
<1>2. CASE Guthaben' = Guthaben BY <1>2 DEF Guthaben, Ideal!Next, Ideal!Abgelehnt
<1>3. CASE \A k \in Eimer : Guthaben'[k] = Ideal!Hoechstens(k, Guthaben[k] + Nachfuellung[k])
  BY <1>1, <1>3 DEF Guthaben, Ideal!Next, Ideal!Vergeht
<1>4. ASSUME NEW k \in Eimer, NEW c \in Kosten,
             \A j \in Eimer \ {k} : Guthaben'[j] = Guthaben[j],
             \/ Guthaben[k] >= c /\ Guthaben'[k] = Guthaben[k] - c
             \/ Guthaben'[k] = Ideal!Hoechstens(k, Guthaben[k] + c)
      PROVE  Ideal!Next
  <2>1. CASE Guthaben[k] >= c /\ Guthaben'[k] = Guthaben[k] - c
    <3>1. Ideal!Nimmt(k, c) BY <1>1, <1>4, <2>1 DEF Guthaben, Ideal!Nimmt, Ideal!Setzt
    <3> QED BY <3>1 DEF Ideal!Next
  <2>2. CASE Guthaben'[k] = Ideal!Hoechstens(k, Guthaben[k] + c)
    <3>1. Ideal!Erstattet(k, c) BY <1>1, <1>4, <2>2 DEF Guthaben, Ideal!Erstattet, Ideal!Setzt
    <3> QED BY <3>1 DEF Ideal!Next
  <2> QED BY <1>4, <2>1, <2>2
<1> QED BY <1>2, <1>3, <1>4

LEMMA SchrittIdeal ==
  ASSUME IInv, [Next]_vars
  PROVE  [Ideal!Next]_Guthaben
<1>1. MARKE \in Nat /\ REG_KOSTEN \in Nat /\ MARKE \in Kosten /\ REG_KOSTEN \in Kosten
  BY ZahlenAssumption DEF Kosten
(* An attempt, at a bucket of the model. *)
<1>2. ASSUME NEW k \in Eimer, NEW c \in Kosten, nimm(k, c), zeit' = zeit
      PROVE  [Ideal!Next]_Guthaben
  <2>1. c \in Nat BY <1>1 DEF Kosten
  <2> QED BY <1>2, <2>1, NimmtIdeal, IdealerSchritt
<1>3. ASSUME NEW f \in {"chal", "reg"}, NEW q \in Quelle, NEW c \in Kosten, NEW ok,
             herkunft_ok(f, q, c, ok), zeit' = zeit
      PROVE  [Ideal!Next]_Guthaben
  <2>1. CASE limit_schluessel(q) = Niemand
    BY <1>3, <2>1, Unveraendert DEF herkunft_ok, speicher
  <2>2. CASE limit_schluessel(q) # Niemand
    <3>1. <<f, limit_schluessel(q)>> \in Eimer BY <2>2 DEF Eimer
    <3> QED BY <1>2, <1>3, <2>2, <3>1 DEF herkunft_ok
  <2> QED BY <2>1, <2>2
<1>4. ASSUME zeit' = zeit, \/ eimer' = eimer \/ eimer' = EimerNach \/ eimer' = EimerGeraeumt(eimer)
      PROVE  [Ideal!Next]_Guthaben
  BY <1>4, Unveraendert
<1>5. ASSUME NEW t \in Faden, NEW p \in Paar, NEW q \in Quelle,
             ChallengeBeginnt(t, p, q) \/ RegisterBeginnt(t, p, q)
      PROVE  [Ideal!Next]_Guthaben
  BY <1>1, <1>3, <1>5 DEF ChallengeBeginnt, RegisterBeginnt
<1>6. ASSUME NEW t \in Faden,
             \/ speicher_hat_platz(t) \/ issue_nonce(t) \/ Abgewiesen(t) \/ offene_nonces(t)
             \/ verbrauche_nonce(t) \/ NimmtSperre(t) \/ Speichert(t)
      PROVE  [Ideal!Next]_Guthaben
  BY <1>4, <1>6 DEF speicher_hat_platz, issue_nonce, Abgewiesen, offene_nonces, verbrauche_nonce,
                    NimmtSperre, Speichert, speicher
<1>7. ASSUME NEW t \in Faden, neue_adresse_ok(t)
      PROVE  [Ideal!Next]_Guthaben
  <2>1. zeit' = zeit /\ faden[t] \in Arbeit
    BY <1>7, ArbeitTyp DEF IInv, neue_adresse_ok
  <2>2. CASE UNCHANGED speicher BY <1>4, <2>1, <2>2 DEF speicher
  <2>3. CASE ~ UNCHANGED speicher
    <3> DEFINE reihe == eimer_neuer_adressen(faden[t].quelle)
               i == Cardinality(faden[t].genommen) + 1
    <3>1. nimm(reihe[i], MARKE) /\ ~(i > Len(reihe)) BY <1>7, <2>3 DEF neue_adresse_ok
    <3>2. reihe[i] \in Eimer BY <2>1, <3>1, ReiheInEimern
    <3> QED BY <1>1, <1>2, <2>1, <3>1, <3>2
  <2> QED BY <2>2, <2>3
<1>8. ASSUME NEW t \in Faden, Erstattet(t)
      PROVE  [Ideal!Next]_Guthaben
  <2>1. zeit' = zeit /\ faden[t] \in Arbeit
    BY <1>8, ArbeitTyp DEF IInv, Erstattet
  <2>2. CASE UNCHANGED speicher BY <1>4, <2>1, <2>2 DEF speicher
  <2>3. CASE ~ UNCHANGED speicher
    <3>1. PICK k \in faden[t].genommen : gib_zurueck(k, MARKE) BY <1>8, <2>3 DEF Erstattet
    <3>2. k \in Eimer BY <2>1, FehltNicht DEF Arbeit
    <3> QED BY <1>1, <2>1, <3>1, <3>2, ErstattetIdeal, IdealerSchritt
  <2> QED BY <2>2, <2>3
<1>9. ASSUME NEW a \in Absender, msg_limit_ok(a)
      PROVE  [Ideal!Next]_Guthaben
  <2>1. <<"msg", a>> \in Eimer BY DEF Eimer
  <2> QED BY <1>1, <1>2, <1>9, <2>1 DEF msg_limit_ok
<1>10. CASE raeume_speicher_auf BY <1>4, <1>10 DEF raeume_speicher_auf
<1>11. CASE Vergeht BY <1>11, VergehtIdeal, IdealerSchritt
<1>12. CASE UNCHANGED vars BY <1>4, <1>12 DEF vars, speicher
<1> QED BY <1>5, <1>6, <1>7, <1>8, <1>9, <1>10, <1>11, <1>12 DEF Next

(* RelayMemory implements TokenBuckets: whatever is swept, made anew, taken*)
(* or given back (_take, _gib_zurueck, _raeume_speicher_auf), every key    *)
(* has the tokens of a bucket that was always there.                       *)
THEOREM ImmerDaGewesen == Spec => IdealeEimer
<1>1. Init => Ideal!Init BY AnfangIdeal
<1>2. IInv /\ [Next]_vars => [Ideal!Next]_Guthaben BY SchrittIdeal
<1>3. IInv /\ [Next]_vars => [Ideal!Next]_([k \in Eimer |-> Stand(k, eimer[k])])
  BY <1>2 DEF Guthaben
<1> QED BY <1>1, <1>3, Invariante, PTL DEF Spec, IdealeEimer, Ideal!Spec

----------------------------------------------------------------------------
(* The books: what a bucket for new addresses has paid, lent and holds.    *)
(* The lock schreibsperre leaves one thread at a time to charge and refund;*)
(* sweeps, other attempts and time do not know of it.                      *)

(* Who stands under schreibsperre, and what a thread may hold.             *)
SperreStimmt ==
    \A t \in Faden :
        /\ faden[t].ort \in UnterSperre => sperre = t
        /\ faden[t].ort \notin UnterSperre \cup {"frei"} => faden[t].genommen = {}

Leiht(k, t) == faden[t].ort \in UnterSperre /\ k \in faden[t].genommen
Geliehen(k) == IF \E t \in Faden : Leiht(k, t) THEN MARKE ELSE 0

(* The books of bucket k: what it paid, lent and holds.                    *)
Bilanz(k) == MARKE * angelegt[k] + Geliehen(k) + Guthaben[k] <= Fassung[k] + zeit * Nachfuellung[k]

(* What thread t has taken, one bucket after the other, and that it finds  *)
(* in the buckets, with it, no less than before.                           *)
Reihe(t) == eimer_neuer_adressen(faden[t].quelle)
NichtWeniger(t) ==
    /\ faden[t].ort = "neu" =>
         /\ Cardinality(faden[t].genommen) <= Len(Reihe(t))
         /\ faden[t].genommen = {Reihe(t)[j] : j \in 1 .. Cardinality(faden[t].genommen)}
    /\ faden[t].ort \in UnterSperre =>
         \A k \in NeuEimer :
            /\ faden[t].vorher[k] <= Fassung[k]
            /\ faden[t].vorher[k] <= Guthaben[k] + IF k \in faden[t].genommen THEN MARKE ELSE 0

BInv == /\ IInv /\ SperreStimmt
        /\ \A k \in NeuEimer : Bilanz(k)
        /\ \A t \in Faden : NichtWeniger(t)

LEMMA GuthabenTyp ==
  ASSUME IInv
  PROVE  /\ \A k \in Eimer : /\ Guthaben[k] \in Nat /\ Fassung[k] \in Nat /\ Guthaben[k] <= Fassung[k]
                             /\ Guthaben[k] = Stand(k, eimer[k])
         /\ DOMAIN Guthaben = Eimer
<1> SUFFICES ASSUME NEW k \in Eimer
             PROVE  Stand(k, eimer[k]) \in Nat /\ Fassung[k] \in Nat /\ Stand(k, eimer[k]) <= Fassung[k]
  BY DEF Guthaben
<1>1. Fassung[k] \in Nat BY EimerZahlen
<1>2. zeit \in Nat /\ eimer[k] \in Eintrag \cup {Fehlt}
      /\ (eimer[k] # Fehlt => eimer[k].marken <= Fassung[k] /\ eimer[k].zuletzt <= zeit)
  BY Tabelle
<1>3. Stand(k, eimer[k]) \in 0 .. Fassung[k] BY <1>2, StandTyp
<1> QED BY <1>1, <1>3

(* An attempt takes its cost, if it is there, or nothing. *)
LEMMA NimmtGenau ==
  ASSUME IInv, zeit' = zeit, NEW k \in Eimer, NEW c \in Nat, nimm(k, c)
  PROVE  /\ \A j \in Eimer \ {k} : Guthaben'[j] = Guthaben[j]
         /\ Reicht(k, c) => Guthaben[k] >= c /\ Guthaben'[k] = Guthaben[k] - c
         /\ ~Reicht(k, c) => Guthaben'[k] = Guthaben[k]
<1>1. CASE AmDach(k)
  <2>1. Guthaben' = Guthaben BY <1>1, Unveraendert DEF nimm
  <2> QED BY <1>1, <2>1 DEF Reicht
<1>2. CASE ~AmDach(k)
  <2> DEFINE e == EimerNach[k]
             m == Stand(k, e) - (IF Reicht(k, c) THEN c ELSE 0)
  <2>1. TabelleStimmt(EimerNach, zeit) BY GeraeumtStimmt DEF SpeicherStimmt
  <2>2. EimerNach \in [Eimer -> Eintrag \cup {Fehlt}] /\ zeit \in Nat
    BY <2>1, Tabelle DEF TabelleStimmt
  <2>3. eimer' = [EimerNach EXCEPT ![k] = Gefuellt(k, m)] BY <1>2, <2>2 DEF nimm
  <2>4. e \in Eintrag \cup {Fehlt} /\ (e # Fehlt => e.marken <= Fassung[k] /\ e.zuletzt <= zeit)
    BY <2>1, <2>2 DEF TabelleStimmt
  <2>5. Stand(k, e) \in 0 .. Fassung[k] /\ Fassung[k] \in Nat BY <2>2, <2>4, StandTyp, EimerZahlen
  <2>6. Reicht(k, c) <=> Stand(k, e) >= c BY <1>2 DEF Reicht
  <2>7. m \in 0 .. Fassung[k] BY <2>5, <2>6
  <2>8. eimer'[k] = Gefuellt(k, m) /\ \A j \in Eimer \ {k} : eimer'[j] = EimerNach[j]
    BY <2>2, <2>3
  <2>9. \A j \in Eimer : Guthaben'[j] = Stand(j, eimer'[j]) BY DEF Guthaben, Stand
  <2>10. \A j \in Eimer : Guthaben[j] = Stand(j, EimerNach[j]) BY RaeumenUnsichtbar DEF Guthaben
  <2>11. Guthaben'[k] = m BY <2>2, <2>7, <2>8, <2>9, GefuelltStand
  <2>12. \A j \in Eimer \ {k} : Guthaben'[j] = Guthaben[j] BY <2>8, <2>9, <2>10
  <2> QED BY <2>5, <2>6, <2>10, <2>11, <2>12
<1> QED BY <1>1, <1>2

(* The buckets of one origin are different ones. *)
LEMMA ReiheVerschieden ==
  ASSUME NEW q \in Quelle
  PROVE  LET reihe == eimer_neuer_adressen(q) IN
         /\ reihe \in Seq(NeuEimer) /\ Len(reihe) \in 0 .. 2
         /\ \A i, j \in 1 .. Len(reihe) : reihe[i] = reihe[j] => i = j
<1> DEFINE reihe == eimer_neuer_adressen(q)
<1>1. PICK a : a = <<"neu", limit_schluessel48(q)>> OBVIOUS
<1>2. limit_schluessel48(q) # Niemand => a \in NeuEimer BY <1>1 DEF NeuEimer, limit_schluessel48
<1>3. q.onion => NeuOnion \in NeuEimer BY DEF NeuEimer
<1>4. q.onion => a # NeuOnion
  <2>1. q.onion => q.anschluss # "onion" BY MengenAssumption, Zenon
  <2>2. a[2] = q.anschluss /\ NeuOnion[2] = "onion" BY <1>1 DEF NeuOnion, limit_schluessel48
  <2> QED BY <2>1, <2>2
<1>5. reihe = (IF limit_schluessel48(q) = Niemand THEN <<>> ELSE <<a>>)
              \o (IF q.onion THEN <<NeuOnion>> ELSE <<>>)
  BY <1>1 DEF eimer_neuer_adressen
<1>6. CASE limit_schluessel48(q) = Niemand /\ q.onion
  <2>1. reihe = <<NeuOnion>> BY <1>5, <1>6
  <2> QED BY <1>3, <1>6, <2>1
<1>7. CASE limit_schluessel48(q) = Niemand /\ ~q.onion
  <2>1. reihe = <<>> BY <1>5, <1>7
  <2> QED BY <2>1
<1>8. CASE limit_schluessel48(q) # Niemand /\ q.onion
  <2>1. reihe = <<a>> \o <<NeuOnion>> BY <1>5, <1>8
  <2>2. a \in NeuEimer /\ NeuOnion \in NeuEimer /\ a # NeuOnion BY <1>2, <1>3, <1>4, <1>8
  <2>3. reihe \in Seq(NeuEimer) /\ Len(reihe) = 2 /\ reihe[1] = a /\ reihe[2] = NeuOnion
    BY <2>1, <2>2
  <2> QED BY <2>2, <2>3
<1>9. CASE limit_schluessel48(q) # Niemand /\ ~q.onion
  <2>1. reihe = <<a>> BY <1>5, <1>9
  <2> QED BY <1>2, <1>9, <2>1
<1> QED BY <1>6, <1>7, <1>8, <1>9

(* A step that leaves the buckets for new addresses alone, and in which no *)
(* thread enters, leaves or acts under schreibsperre.                      *)
LEMMA AussenHaelt ==
  ASSUME BInv, IInv', UNCHANGED <<zeit, sperre, angelegt>>,
         \A k \in NeuEimer : Guthaben'[k] = Guthaben[k],
         \A s \in Faden : \/ faden'[s] = faden[s]
                          \/ /\ faden[s].ort \notin UnterSperre /\ faden'[s].ort \notin UnterSperre
                             /\ faden'[s].ort # "frei" => faden'[s].genommen = {}
  PROVE  BInv'
<1>1. SperreStimmt' BY DEF BInv, SperreStimmt
<1>2. ASSUME NEW k \in NeuEimer PROVE Bilanz(k)'
  <2>1. \A s \in Faden : Leiht(k, s)' <=> Leiht(k, s) BY DEF Leiht
  <2>2. Geliehen(k)' = Geliehen(k) BY <2>1 DEF Geliehen
  <2>3. Bilanz(k) BY DEF BInv
  <2> QED BY <2>2, <2>3 DEF Bilanz
<1>3. ASSUME NEW s \in Faden PROVE NichtWeniger(s)'
  <2>1. CASE faden'[s].ort \notin UnterSperre BY <2>1 DEF NichtWeniger, UnterSperre
  <2>2. CASE faden'[s] = faden[s]
    <3>1. NichtWeniger(s) BY DEF BInv
    <3>2. Reihe(s)' = Reihe(s) BY <2>2 DEF Reihe, eimer_neuer_adressen, limit_schluessel48
    <3> QED BY <2>2, <3>1, <3>2 DEF NichtWeniger
  <2> QED BY <2>1, <2>2
<1> QED BY <1>1, <1>2, <1>3 DEF BInv

(* The other buckets are none for new addresses. *)
LEMMA AndereEimer ==
  ASSUME IInv, zeit' = zeit, NEW f \in {"msg", "chal", "reg"}, NEW x, <<f, x>> \in Eimer, NEW c \in Nat,
         nimm(<<f, x>>, c)
  PROVE  \A k \in NeuEimer : Guthaben'[k] = Guthaben[k]
<1>1. \A k \in NeuEimer : k[1] = "neu" /\ k \in Eimer BY FehltNicht DEF NeuEimer, NeuOnion
<1>2. <<f, x>> \notin NeuEimer BY <1>1
<1> QED BY <1>1, <1>2, NimmtGenau

LEMMA GleichesGuthaben ==
  ASSUME IInv, zeit' = zeit, eimer' = eimer \/ eimer' = EimerNach \/ eimer' = EimerGeraeumt(eimer)
  PROVE  \A k \in NeuEimer : Guthaben'[k] = Guthaben[k]
BY Unveraendert

LEMMA HerkunftAussen ==
  ASSUME IInv, zeit' = zeit, NEW f \in {"chal", "reg"}, NEW q \in Quelle, NEW c \in Nat, NEW ok,
         herkunft_ok(f, q, c, ok)
  PROVE  \A k \in NeuEimer : Guthaben'[k] = Guthaben[k]
<1>1. CASE limit_schluessel(q) = Niemand
  BY <1>1, GleichesGuthaben DEF herkunft_ok, speicher
<1>2. CASE limit_schluessel(q) # Niemand
  <2>1. <<f, limit_schluessel(q)>> \in Eimer BY <1>2 DEF Eimer
  <2>2. nimm(<<f, limit_schluessel(q)>>, c) BY <1>2 DEF herkunft_ok
  <2> QED BY <2>1, <2>2, AndereEimer
<1> QED BY <1>1, <1>2

(* The steps outside schreibsperre. *)
LEMMA AussenSchritte ==
  ASSUME BInv, IInv',
         \/ \E t \in Faden :
              \/ \E p \in Paar, q \in Quelle : ChallengeBeginnt(t, p, q) \/ RegisterBeginnt(t, p, q)
              \/ speicher_hat_platz(t) \/ issue_nonce(t)
              \/ Abgewiesen(t) \/ offene_nonces(t) \/ verbrauche_nonce(t)
         \/ \E a \in Absender : msg_limit_ok(a)
         \/ raeume_speicher_auf \/ UNCHANGED vars
  PROVE  BInv'
<1> USE DEF UnterSperre
<1>1. IInv BY DEF BInv
<1>2. MARKE \in Nat /\ REG_KOSTEN \in Nat BY ZahlenAssumption
<1>3. ASSUME NEW t \in Faden, faden[t].ort \notin UnterSperre,
             \/ \E p \in Paar, q \in Quelle, o \in {"platz", "offen", "sperre"}, s \in Nat : Beginnt(t, p, q, o, s)
             \/ Ende(t) \/ faden' = faden
             \/ faden[t].ort # "frei" /\ \E o \in {"ausgeben", "verbrauchen"} : Weiter(t, o)
      PROVE  \A s \in Faden : \/ faden'[s] = faden[s]
                              \/ /\ faden[s].ort \notin UnterSperre /\ faden'[s].ort \notin UnterSperre
                                 /\ faden'[s].ort # "frei" => faden'[s].genommen = {}
  <2>1. faden \in [Faden -> Arbeit \cup {Frei}] BY <1>1 DEF IInv, FadenStimmt
  <2>2. CASE \E p \in Paar, q \in Quelle, o \in {"platz", "offen", "sperre"}, s \in Nat : Beginnt(t, p, q, o, s)
    BY <1>3, <2>1, <2>2 DEF Beginnt
  <2>3. CASE Ende(t) BY <1>3, <2>1, <2>3 DEF Ende, Frei
  <2>4. CASE faden[t].ort # "frei" /\ \E o \in {"ausgeben", "verbrauchen"} : Weiter(t, o)
    <3>1. faden[t].genommen = {} BY <1>3, <2>4 DEF BInv, SperreStimmt
    <3>2. faden[t] \in Arbeit BY <1>1, <2>4, ArbeitTyp DEF IInv
    <3> QED BY <1>3, <2>1, <2>4, <3>1, <3>2 DEF Weiter, Arbeit
  <2> QED BY <1>3, <2>2, <2>3, <2>4
<1>4. ASSUME NEW t \in Faden, NEW p \in Paar, NEW q \in Quelle, NEW ok,
             NEW f \in {"chal", "reg"}, NEW c \in Nat, NEW o \in {"platz", "offen"}, NEW s \in Nat,
             herkunft_ok(f, q, c, ok), IF ok THEN Beginnt(t, p, q, o, s) ELSE UNCHANGED faden,
             faden[t].ort = "frei", UNCHANGED <<zeit, sperre, angelegt>>
      PROVE  BInv'
  <2>1. \A k \in NeuEimer : Guthaben'[k] = Guthaben[k] BY <1>1, <1>4, HerkunftAussen
  <2>2. Beginnt(t, p, q, o, s) \/ faden' = faden BY <1>4
  <2> QED BY <1>3, <1>4, <2>1, <2>2, AussenHaelt
<1>10. ASSUME NEW t \in Faden, NEW p \in Paar, NEW q \in Quelle, ChallengeBeginnt(t, p, q)
       PROVE  BInv'
  BY <1>2, <1>4, <1>10 DEF ChallengeBeginnt
<1>11. ASSUME NEW t \in Faden, NEW p \in Paar, NEW q \in Quelle, RegisterBeginnt(t, p, q)
       PROVE  BInv'
  <2>1. zeit \in Nat BY <1>1, Tabelle
  <2> QED BY <1>2, <1>4, <1>11, <2>1 DEF RegisterBeginnt
<1>5. ASSUME NEW t \in Faden, speicher_hat_platz(t) \/ issue_nonce(t)
      PROVE  BInv'
  <2>1. /\ UNCHANGED <<zeit, sperre, angelegt>>
        /\ eimer' = EimerNach \/ eimer' = EimerGeraeumt(eimer)
        /\ faden[t].ort \notin UnterSperre /\ faden[t].ort # "frei"
        /\ Ende(t) \/ Weiter(t, "ausgeben")
    BY <1>5 DEF speicher_hat_platz, issue_nonce
  <2>2. \A k \in NeuEimer : Guthaben'[k] = Guthaben[k] BY <1>1, <2>1, GleichesGuthaben
  <2> QED BY <1>3, <2>1, <2>2, AussenHaelt
<1>6. ASSUME NEW t \in Faden, Abgewiesen(t) \/ verbrauche_nonce(t)
      PROVE  BInv'
  <2>1. /\ UNCHANGED <<zeit, sperre, angelegt>> /\ eimer' = eimer
        /\ faden[t].ort \notin UnterSperre /\ faden[t].ort # "frei"
        /\ Ende(t) \/ Beginnt(t, faden[t].paar, faden[t].quelle, "sperre", 0)
    BY <1>6 DEF Abgewiesen, verbrauche_nonce, speicher
  <2>2. \A k \in NeuEimer : Guthaben'[k] = Guthaben[k] BY <1>1, <2>1, GleichesGuthaben
  <2>3. faden[t].paar \in Paar /\ faden[t].quelle \in Quelle
    BY <1>1, <2>1, ArbeitTyp DEF IInv, Arbeit
  <2> QED BY <1>3, <2>1, <2>2, <2>3, AussenHaelt
<1>7. ASSUME NEW t \in Faden, offene_nonces(t)
      PROVE  BInv'
  <2>1. /\ UNCHANGED <<zeit, sperre, angelegt>> /\ eimer' = eimer /\ faden[t].ort = "offen"
        /\ \E n : faden' = [faden EXCEPT ![t].ort = "verbrauchen", ![t].nr = n, ![t].seit = zeit]
    BY <1>7 DEF offene_nonces, speicher
  <2>2. \A k \in NeuEimer : Guthaben'[k] = Guthaben[k] BY <1>1, <2>1, GleichesGuthaben
  <2>3. faden[t] \in Arbeit /\ faden[t].genommen = {}
    BY <1>1, <2>1, ArbeitTyp DEF IInv, BInv, SperreStimmt
  <2>4. \A s \in Faden : s # t => faden'[s] = faden[s] BY <1>1, <2>1 DEF IInv, FadenStimmt
  <2>5. faden'[t].ort = "verbrauchen" /\ faden'[t].genommen = {}
    BY <1>1, <2>1, <2>3 DEF IInv, FadenStimmt, Arbeit
  <2> QED BY <2>1, <2>2, <2>4, <2>5, AussenHaelt
<1>8. ASSUME NEW a \in Absender, msg_limit_ok(a)
      PROVE  BInv'
  <2>1. <<"msg", a>> \in Eimer BY DEF Eimer
  <2>2. UNCHANGED <<zeit, sperre, angelegt, faden>> /\ nimm(<<"msg", a>>, MARKE) BY <1>8 DEF msg_limit_ok
  <2>3. \A k \in NeuEimer : Guthaben'[k] = Guthaben[k] BY <1>1, <1>2, <2>1, <2>2, AndereEimer
  <2> QED BY <2>2, <2>3, AussenHaelt
<1>9. ASSUME raeume_speicher_auf \/ UNCHANGED vars
      PROVE  BInv'
  <2>1. UNCHANGED <<zeit, sperre, angelegt, faden>> /\ (eimer' = eimer \/ eimer' = EimerGeraeumt(eimer))
    BY <1>9 DEF raeume_speicher_auf, vars, speicher
  <2>2. \A k \in NeuEimer : Guthaben'[k] = Guthaben[k] BY <1>1, <2>1, GleichesGuthaben
  <2> QED BY <2>1, <2>2, AussenHaelt
<1> QED BY <1>5, <1>6, <1>7, <1>8, <1>9, <1>10, <1>11

(* A step of the thread under schreibsperre, or that enters it: the others *)
(* neither stand there nor borrow.                                         *)
LEMMA NurEiner ==
  ASSUME BInv, NEW t \in Faden, faden[t].ort \in UnterSperre \/ sperre = Niemand,
         \A s \in Faden \ {t} : faden'[s] = faden[s]
  PROVE  /\ \A s \in Faden \ {t} : faden[s].ort \notin UnterSperre /\ faden'[s].ort \notin UnterSperre
         /\ \A k : /\ Geliehen(k) = IF Leiht(k, t) THEN MARKE ELSE 0
                   /\ Geliehen(k)' = IF Leiht(k, t)' THEN MARKE ELSE 0
<1>1. \A s \in Faden \ {t} : faden[s].ort \notin UnterSperre
  BY MengenAssumption DEF BInv, SperreStimmt
<1>2. \A s \in Faden \ {t} : faden'[s].ort \notin UnterSperre BY <1>1
<1>3. ASSUME NEW k
      PROVE  /\ Geliehen(k) = IF Leiht(k, t) THEN MARKE ELSE 0
             /\ Geliehen(k)' = IF Leiht(k, t)' THEN MARKE ELSE 0
  <2>1. (\E s \in Faden : Leiht(k, s)) <=> Leiht(k, t) BY <1>1 DEF Leiht
  <2>2. (\E s \in Faden : Leiht(k, s)') <=> Leiht(k, t)' BY <1>2 DEF Leiht
  <2> QED BY <2>1, <2>2 DEF Geliehen
<1> QED BY <1>1, <1>2, <1>3

(* What has to be shown of such a step. *)
LEMMA InnenHaelt ==
  ASSUME BInv, IInv', NEW t \in Faden, faden[t].ort \in UnterSperre \/ sperre = Niemand,
         \A s \in Faden \ {t} : faden'[s] = faden[s],
         \/ faden'[t] = Frei
         \/ faden'[t].ort \in UnterSperre /\ sperre' = t,
         \A k \in NeuEimer : Bilanz(k)', NichtWeniger(t)'
  PROVE  BInv'
<1>1. \A s \in Faden \ {t} : faden[s].ort \notin UnterSperre /\ faden'[s].ort \notin UnterSperre
  BY NurEiner
<1>2. SperreStimmt' BY <1>1 DEF BInv, SperreStimmt, UnterSperre, Frei
<1>3. \A s \in Faden \ {t} : NichtWeniger(s)' BY <1>1 DEF NichtWeniger, UnterSperre
<1> QED BY <1>2, <1>3 DEF BInv

(* The balances of bucket k before and after such a step. *)
LEMMA BilanzZahlen ==
  ASSUME BInv, NEW k \in NeuEimer
  PROVE  /\ k \in Eimer /\ Guthaben[k] \in Nat /\ Fassung[k] \in Nat /\ angelegt[k] \in Nat
         /\ Guthaben[k] <= Fassung[k] /\ MARKE * angelegt[k] \in Nat
         /\ zeit * Nachfuellung[k] \in Nat /\ MARKE \in Nat /\ Nachfuellung[k] \in Nat
         /\ MARKE * (angelegt[k] + 1) = MARKE * angelegt[k] + MARKE
         /\ (zeit + 1) * Nachfuellung[k] = zeit * Nachfuellung[k] + Nachfuellung[k]
<1>1. k \in Eimer BY FehltNicht
<1>2. PICK n : n = Nachfuellung[k] OBVIOUS
<1>3. MARKE \in Nat /\ n \in Nat /\ zeit \in Nat /\ angelegt[k] \in Nat
  BY <1>1, <1>2, EimerZahlen, Tabelle, ZahlenAssumption DEF BInv, IInv, FadenStimmt
<1>4. MARKE * angelegt[k] \in Nat /\ zeit * n \in Nat BY <1>3, Produkt
<1>5. MARKE * (angelegt[k] + 1) = MARKE * angelegt[k] + MARKE BY <1>3
<1>6. (zeit + 1) * n = zeit * n + n BY <1>3
<1> QED BY <1>1, <1>2, <1>3, <1>4, <1>5, <1>6, GuthabenTyp DEF BInv

LEMMA NimmtSperreBilanz ==
  ASSUME BInv, IInv', NEW t \in Faden, NimmtSperre(t)
  PROVE  BInv'
<1> USE DEF UnterSperre
<1>1. IInv BY DEF BInv
<1>2. faden[t] \in Arbeit /\ faden[t].ort = "sperre" /\ sperre = Niemand /\ sperre' = t
  BY <1>1, ArbeitTyp DEF IInv, NimmtSperre
<1>3. PICK o \in {"neu", "speichern"} :
        faden' = [faden EXCEPT ![t].ort = o, ![t].vorher = [k \in NeuEimer |-> Stand(k, eimer[k])]]
  BY DEF NimmtSperre
<1>4. /\ \A s \in Faden \ {t} : faden'[s] = faden[s]
      /\ faden'[t].ort = o /\ faden'[t].genommen = {} /\ faden'[t].quelle = faden[t].quelle
      /\ \A k \in NeuEimer : faden'[t].vorher[k] = Guthaben[k]
  <2>1. faden[t].genommen = {} BY <1>2 DEF BInv, SperreStimmt
  <2>2. \A k \in NeuEimer : Guthaben[k] = Stand(k, eimer[k]) BY <1>1, GuthabenTyp, FehltNicht
  <2> QED BY <1>1, <1>2, <1>3, <2>1, <2>2 DEF IInv, FadenStimmt, Arbeit
<1>5. UNCHANGED <<zeit, angelegt>> /\ \A k \in NeuEimer : Guthaben'[k] = Guthaben[k]
  BY <1>1, GleichesGuthaben DEF NimmtSperre, speicher
<1>6. ASSUME NEW k \in NeuEimer PROVE Bilanz(k)'
  <2>1. ~Leiht(k, t) /\ ~Leiht(k, t)' BY <1>2, <1>4 DEF Leiht
  <2>2. Geliehen(k)' = Geliehen(k) BY <1>2, <1>4, <2>1, NurEiner
  <2> QED BY <1>5, <2>2 DEF BInv, Bilanz
<1>7. NichtWeniger(t)'
  <2>1. Cardinality({}) = 0 BY FS_EmptySet
  <2>2. faden[t].quelle \in Quelle BY <1>2 DEF Arbeit
  <2>3. Len(Reihe(t)') \in Nat BY <1>4, <2>2, ReiheVerschieden DEF Reihe
  <2>4. \A k \in NeuEimer : Guthaben[k] \in Nat /\ Guthaben[k] <= Fassung[k] BY BilanzZahlen
  <2> QED BY <1>4, <1>5, <2>1, <2>3, <2>4 DEF NichtWeniger
<1> QED BY <1>2, <1>4, <1>6, <1>7, InnenHaelt

LEMMA SpeichertBilanz ==
  ASSUME BInv, IInv', NEW t \in Faden, Speichert(t)
  PROVE  BInv'
<1> USE DEF UnterSperre
<1>1. IInv BY DEF BInv
<1>2. faden[t] \in Arbeit /\ faden[t].ort = "speichern" /\ zeit' = zeit
  BY <1>1, ArbeitTyp DEF IInv, Speichert
<1>3. \A k \in NeuEimer : Guthaben'[k] = Guthaben[k]
  BY <1>1, GleichesGuthaben DEF Speichert, speicher
<1>4. CASE /\ angelegt' = [k \in NeuEimer |-> angelegt[k] + IF k \in faden[t].genommen THEN 1 ELSE 0]
           /\ Laesst(t)
  <2>1. faden'[t] = Frei /\ \A s \in Faden \ {t} : faden'[s] = faden[s]
    BY <1>1, <1>4 DEF IInv, FadenStimmt, Laesst, Ende
  <2>2. ASSUME NEW k \in NeuEimer PROVE Bilanz(k)'
    <3>1. ~Leiht(k, t)' BY <2>1 DEF Leiht, Frei
    <3>2. Geliehen(k)' = 0 /\ Geliehen(k) = IF k \in faden[t].genommen THEN MARKE ELSE 0
      BY <1>2, <2>1, <3>1, NurEiner DEF Leiht
    <3>3. angelegt'[k] = angelegt[k] + IF k \in faden[t].genommen THEN 1 ELSE 0 BY <1>4
    <3>4. MARKE * angelegt'[k] = MARKE * angelegt[k] + IF k \in faden[t].genommen THEN MARKE ELSE 0
      BY <3>3, BilanzZahlen
    <3>5. Bilanz(k) BY DEF BInv
    <3> QED BY <1>2, <1>3, <3>2, <3>4, <3>5, BilanzZahlen DEF Bilanz
  <2>3. NichtWeniger(t)' BY <2>1 DEF NichtWeniger, Frei
  <2> QED BY <1>2, <2>1, <2>2, <2>3, InnenHaelt
<1>5. CASE Weiter(t, "erstatten") /\ UNCHANGED <<zeilen, angelegt, sperre>>
  <2>1. /\ \A s \in Faden \ {t} : faden'[s] = faden[s]
        /\ faden'[t] = [faden[t] EXCEPT !.ort = "erstatten"]
    BY <1>1, <1>5 DEF IInv, FadenStimmt, Weiter
  <2>2. faden'[t].ort = "erstatten" /\ faden'[t].genommen = faden[t].genommen
        /\ faden'[t].vorher = faden[t].vorher
    BY <1>2, <2>1 DEF Arbeit
  <2>3. sperre' = t BY <1>2, <1>5 DEF BInv, SperreStimmt
  <2>4. ASSUME NEW k \in NeuEimer PROVE Bilanz(k)'
    <3>1. Leiht(k, t)' <=> Leiht(k, t) BY <1>2, <2>2 DEF Leiht
    <3>2. Geliehen(k)' = Geliehen(k) BY <1>2, <2>1, <3>1, NurEiner
    <3> QED BY <1>2, <1>3, <1>5, <3>2 DEF BInv, Bilanz
  <2>5. NichtWeniger(t)'
    <3>1. NichtWeniger(t) BY DEF BInv
    <3> QED BY <1>2, <1>3, <2>2, <3>1 DEF NichtWeniger
  <2> QED BY <1>2, <2>1, <2>2, <2>3, <2>4, <2>5, InnenHaelt
<1> QED BY <1>4, <1>5 DEF Speichert

LEMMA ErstattetBilanz ==
  ASSUME BInv, IInv', NEW t \in Faden, Erstattet(t)
  PROVE  BInv'
<1> USE DEF UnterSperre
<1>1. IInv BY DEF BInv
<1>2. /\ faden[t] \in Arbeit /\ faden[t].ort = "erstatten" /\ UNCHANGED <<zeit, angelegt>>
      /\ faden \in [Faden -> Arbeit \cup {Frei}]
  BY <1>1, ArbeitTyp DEF IInv, FadenStimmt, Erstattet
<1>3. CASE faden[t].genommen = {} /\ Laesst(t) /\ UNCHANGED speicher
  <2>1. faden'[t] = Frei /\ \A s \in Faden \ {t} : faden'[s] = faden[s]
    BY <1>2, <1>3 DEF Laesst, Ende
  <2>2. \A k \in NeuEimer : Guthaben'[k] = Guthaben[k]
    BY <1>1, <1>2, <1>3, GleichesGuthaben DEF speicher
  <2>3. ASSUME NEW k \in NeuEimer PROVE Bilanz(k)'
    <3>1. ~Leiht(k, t) /\ ~Leiht(k, t)' BY <1>3, <2>1 DEF Leiht, Frei
    <3>2. Geliehen(k)' = Geliehen(k) BY <1>2, <2>1, <3>1, NurEiner
    <3> QED BY <1>2, <2>2, <3>2 DEF BInv, Bilanz
  <2>4. NichtWeniger(t)' BY <2>1 DEF NichtWeniger, Frei
  <2> QED BY <1>2, <2>1, <2>3, <2>4, InnenHaelt
<1>4. ASSUME NEW b \in faden[t].genommen, gib_zurueck(b, MARKE), UNCHANGED sperre,
             faden' = [faden EXCEPT ![t].genommen = @ \ {b}]
      PROVE  BInv'
  <2>1. b \in NeuEimer /\ b \in Eimer /\ MARKE \in Nat BY <1>2, FehltNicht, ZahlenAssumption DEF Arbeit
  <2>2. /\ Guthaben'[b] = Ideal!Hoechstens(b, Guthaben[b] + MARKE)
        /\ \A k \in NeuEimer \ {b} : Guthaben'[k] = Guthaben[k]
    BY <1>1, <1>2, <1>4, <2>1, ErstattetIdeal, FehltNicht
  <2>3. /\ \A s \in Faden \ {t} : faden'[s] = faden[s]
        /\ faden'[t] = [faden[t] EXCEPT !.genommen = faden[t].genommen \ {b}]
    BY <1>2, <1>4
  <2>4. /\ faden'[t].ort = "erstatten" /\ faden'[t].genommen = faden[t].genommen \ {b}
        /\ faden'[t].vorher = faden[t].vorher /\ faden[t].vorher \in [NeuEimer -> Nat]
    BY <1>2, <2>3 DEF Arbeit
  <2>5. sperre' = t BY <1>2, <1>4 DEF BInv, SperreStimmt
  <2>6. ASSUME NEW k \in NeuEimer PROVE Bilanz(k)'
    <3>1. /\ Geliehen(k) = IF k \in faden[t].genommen THEN MARKE ELSE 0
          /\ Geliehen(k)' = IF k \in faden[t].genommen \ {b} THEN MARKE ELSE 0
      BY <1>2, <2>3, <2>4, NurEiner DEF Leiht
    <3>2. Geliehen(k)' + Guthaben'[k] <= Geliehen(k) + Guthaben[k]
      BY <2>1, <2>2, <3>1, BilanzZahlen DEF Ideal!Hoechstens
    <3>3. /\ Geliehen(k) \in Nat /\ Geliehen(k)' \in Nat /\ Guthaben'[k] \in Nat
      BY <2>1, <2>2, <3>1, BilanzZahlen DEF Ideal!Hoechstens
    <3>4. Bilanz(k) BY DEF BInv
    <3> QED BY <1>2, <3>2, <3>3, <3>4, BilanzZahlen DEF Bilanz
  <2>7. NichtWeniger(t)'
    <3> SUFFICES ASSUME NEW k \in NeuEimer
                 PROVE  /\ faden'[t].vorher[k] <= Fassung[k]
                        /\ faden'[t].vorher[k]
                             <= Guthaben'[k] + IF k \in faden'[t].genommen THEN MARKE ELSE 0
      BY <2>4 DEF NichtWeniger
    <3>1. /\ faden[t].vorher[k] <= Fassung[k] /\ faden[t].vorher[k] \in Nat
          /\ faden[t].vorher[k] <= Guthaben[k] + IF k \in faden[t].genommen THEN MARKE ELSE 0
      BY <1>2, <2>4 DEF BInv, NichtWeniger
    <3>2. CASE k = b
      BY <2>1, <2>2, <2>4, <3>1, <3>2, BilanzZahlen DEF Ideal!Hoechstens
    <3>3. CASE k # b BY <2>2, <2>4, <3>1, <3>3
    <3> QED BY <3>2, <3>3
  <2> QED BY <1>2, <2>3, <2>4, <2>5, <2>6, <2>7, InnenHaelt
<1> QED BY <1>3, <1>4 DEF Erstattet

LEMMA Anhaengen ==
  ASSUME NEW R, NEW n \in Nat
  PROVE  {R[j] : j \in 1 .. n} \cup {R[n + 1]} = {R[j] : j \in 1 .. n + 1}
<1>1. \A j : j \in 1 .. n + 1 <=> j \in 1 .. n \/ j = n + 1 OBVIOUS
<1> QED BY <1>1

LEMMA NeueAdresseBilanz ==
  ASSUME BInv, IInv', NEW t \in Faden, neue_adresse_ok(t)
  PROVE  BInv'
<1> USE DEF UnterSperre
<1> DEFINE g == faden[t].genommen
           i == Cardinality(g) + 1
           b == Reihe(t)[i]
<1>1. IInv BY DEF BInv
<1>2. /\ faden[t] \in Arbeit /\ faden[t].ort = "neu" /\ UNCHANGED <<zeit, angelegt, sperre>>
      /\ faden \in [Faden -> Arbeit \cup {Frei}]
  BY <1>1, ArbeitTyp DEF IInv, FadenStimmt, neue_adresse_ok
<1>3. /\ g \subseteq NeuEimer /\ faden[t].quelle \in Quelle /\ faden[t].vorher \in [NeuEimer -> Nat]
      /\ sperre' = t /\ MARKE \in Nat
  BY <1>2, ZahlenAssumption DEF Arbeit, BInv, SperreStimmt
<1>4. IsFiniteSet(g) /\ Cardinality(g) \in Nat
  BY <1>3, NeuEimerEndlich, FS_Subset, FS_CardinalityType
<1>5. /\ Reihe(t) \in Seq(NeuEimer) /\ Len(Reihe(t)) \in 0 .. 2
      /\ \A m, n \in 1 .. Len(Reihe(t)) : Reihe(t)[m] = Reihe(t)[n] => m = n
  BY <1>3, ReiheVerschieden DEF Reihe
<1>6. /\ Cardinality(g) <= Len(Reihe(t)) /\ g = {Reihe(t)[j] : j \in 1 .. Cardinality(g)}
      /\ \A k \in NeuEimer :
            /\ faden[t].vorher[k] <= Fassung[k]
            /\ faden[t].vorher[k] <= Guthaben[k] + IF k \in g THEN MARKE ELSE 0
  BY <1>2 DEF BInv, NichtWeniger
<1>7. CASE i > Len(Reihe(t)) /\ Weiter(t, "speichern") /\ UNCHANGED speicher
  <2>1. \A k \in NeuEimer : Guthaben'[k] = Guthaben[k]
    BY <1>1, <1>2, <1>7, GleichesGuthaben DEF speicher
  <2>2. /\ \A s \in Faden \ {t} : faden'[s] = faden[s]
        /\ faden'[t] = [faden[t] EXCEPT !.ort = "speichern"]
    BY <1>2, <1>7 DEF Weiter
  <2>3. faden'[t].ort = "speichern" /\ faden'[t].genommen = g /\ faden'[t].vorher = faden[t].vorher
    BY <1>2, <2>2 DEF Arbeit
  <2>4. ASSUME NEW k \in NeuEimer PROVE Bilanz(k)'
    <3>1. Leiht(k, t)' <=> Leiht(k, t) BY <1>2, <2>3 DEF Leiht
    <3>2. Geliehen(k)' = Geliehen(k) BY <1>2, <2>2, <3>1, NurEiner
    <3> QED BY <1>2, <2>1, <3>2 DEF BInv, Bilanz
  <2>5. NichtWeniger(t)' BY <1>6, <2>1, <2>3 DEF NichtWeniger
  <2> QED BY <1>2, <1>3, <2>2, <2>3, <2>4, <2>5, InnenHaelt
<1>8. CASE ~(i > Len(Reihe(t))) /\ nimm(b, MARKE)
  <2>1. i \in 1 .. Len(Reihe(t)) /\ b \in NeuEimer /\ b \in Eimer /\ b \notin g
    <3>1. i \in 1 .. Len(Reihe(t)) BY <1>4, <1>5, <1>8
    <3>2. b \in NeuEimer BY <1>5, <3>1
    <3>3. \A j \in 1 .. Cardinality(g) : j \in 1 .. Len(Reihe(t)) /\ j # i BY <1>4, <1>5, <3>1
    <3>4. \A j \in 1 .. Cardinality(g) : Reihe(t)[j] # b BY <1>5, <3>1, <3>3
    <3>5. b \notin g BY <1>6, <3>4
    <3> QED BY <3>1, <3>2, <3>5, FehltNicht
  <2>2. /\ \A k \in NeuEimer \ {b} : Guthaben'[k] = Guthaben[k]
        /\ Reicht(b, MARKE) => Guthaben[b] >= MARKE /\ Guthaben'[b] = Guthaben[b] - MARKE
        /\ ~Reicht(b, MARKE) => Guthaben'[b] = Guthaben[b]
    BY <1>1, <1>2, <1>3, <1>8, <2>1, NimmtGenau, FehltNicht
  <2>3. CASE Reicht(b, MARKE) /\ faden' = [faden EXCEPT ![t].genommen = @ \cup {b}]
    <3>1. /\ \A s \in Faden \ {t} : faden'[s] = faden[s]
          /\ faden'[t] = [faden[t] EXCEPT !.genommen = g \cup {b}]
      BY <1>2, <2>3
    <3>2. /\ faden'[t].ort = "neu" /\ faden'[t].genommen = g \cup {b}
          /\ faden'[t].vorher = faden[t].vorher /\ faden'[t].quelle = faden[t].quelle
      BY <1>2, <3>1 DEF Arbeit
    <3>3. ASSUME NEW k \in NeuEimer PROVE Bilanz(k)'
      <4>1. /\ Geliehen(k) = IF k \in g THEN MARKE ELSE 0
            /\ Geliehen(k)' = IF k \in g \cup {b} THEN MARKE ELSE 0
        BY <1>2, <3>1, <3>2, NurEiner DEF Leiht
      <4>2. Geliehen(k)' + Guthaben'[k] = Geliehen(k) + Guthaben[k]
        <5>1. Guthaben[k] \in Nat /\ Guthaben[b] \in Nat /\ MARKE \in Nat
          BY <1>3, <2>1, BilanzZahlen
        <5>2. CASE k = b
          <6>1. Geliehen(k) = 0 /\ Geliehen(k)' = MARKE BY <2>1, <4>1, <5>2
          <6>2. Guthaben'[k] = Guthaben[k] - MARKE BY <2>2, <2>3, <5>2
          <6> QED BY <5>1, <6>1, <6>2
        <5>3. CASE k # b
          <6>1. Geliehen(k)' = Geliehen(k) BY <4>1, <5>3
          <6>2. Guthaben'[k] = Guthaben[k] BY <2>2, <5>3
          <6> QED BY <6>1, <6>2
        <5> QED BY <5>2, <5>3
      <4>3. Geliehen(k) \in Nat /\ Geliehen(k)' \in Nat /\ Guthaben'[k] \in Nat
        BY <1>3, <2>2, <2>3, <4>1, BilanzZahlen
      <4>4. Bilanz(k) BY DEF BInv
      <4> QED BY <1>2, <4>2, <4>3, <4>4, BilanzZahlen DEF Bilanz
    <3>4. NichtWeniger(t)'
      <4>1. Reihe(t)' = Reihe(t) BY <3>2 DEF Reihe, eimer_neuer_adressen, limit_schluessel48
      <4>2. Cardinality(g \cup {b}) = i BY <1>4, <2>1, FS_AddElement
      <4>3. g \cup {b} = {Reihe(t)[j] : j \in 1 .. i}
        BY <1>4, <1>6, Anhaengen
      <4>4. ASSUME NEW k \in NeuEimer
            PROVE  faden[t].vorher[k] <= Guthaben'[k] + IF k \in g \cup {b} THEN MARKE ELSE 0
        BY <1>3, <1>6, <2>1, <2>2, <2>3, BilanzZahlen
      <4>5. PICK G : G = g \cup {b} OBVIOUS
      <4>6. faden'[t].genommen = G /\ Cardinality(G) = i /\ i <= Len(Reihe(t)')
        BY <2>1, <3>2, <4>1, <4>2, <4>5
      <4>7. faden'[t].genommen = {Reihe(t)'[j] : j \in 1 .. Cardinality(faden'[t].genommen)}
        BY <4>1, <4>3, <4>5, <4>6
      <4>8. \A k \in NeuEimer :
              /\ faden'[t].vorher[k] <= Fassung[k]
              /\ faden'[t].vorher[k] <= Guthaben'[k] + IF k \in faden'[t].genommen THEN MARKE ELSE 0
        BY <1>6, <3>2, <4>4
      <4> QED BY <4>6, <4>7, <4>8 DEF NichtWeniger
    <3> QED BY <1>2, <1>3, <3>1, <3>2, <3>3, <3>4, InnenHaelt
  <2>4. CASE /\ ~Reicht(b, MARKE)
             /\ faden' = [faden EXCEPT ![t].ort = "erstatten", ![t].genommen = Geschuldet(t)]
    <3>1. /\ \A s \in Faden \ {t} : faden'[s] = faden[s]
          /\ faden'[t] = [faden[t] EXCEPT !.ort = "erstatten", !.genommen = g]
      BY <1>2, <2>4 DEF Geschuldet
    <3>2. faden'[t].ort = "erstatten" /\ faden'[t].genommen = g /\ faden'[t].vorher = faden[t].vorher
      BY <1>2, <3>1 DEF Arbeit
    <3>3. \A k \in NeuEimer : Guthaben'[k] = Guthaben[k] BY <2>2, <2>4
    <3>4. ASSUME NEW k \in NeuEimer PROVE Bilanz(k)'
      <4>1. Leiht(k, t)' <=> Leiht(k, t) BY <1>2, <3>2 DEF Leiht
      <4>2. Geliehen(k)' = Geliehen(k) BY <1>2, <3>1, <4>1, NurEiner
      <4> QED BY <1>2, <3>3, <4>2 DEF BInv, Bilanz
    <3>5. NichtWeniger(t)' BY <1>6, <3>2, <3>3 DEF NichtWeniger
    <3> QED BY <1>2, <1>3, <3>1, <3>2, <3>4, <3>5, InnenHaelt
  <2> QED BY <1>8, <2>3, <2>4 DEF neue_adresse_ok, Reihe
<1> QED BY <1>7, <1>8 DEF neue_adresse_ok, Reihe

LEMMA VergehtBilanz ==
  ASSUME BInv, IInv', Vergeht
  PROVE  BInv'
<1>1. IInv /\ UNCHANGED <<faden, sperre, angelegt>> /\ zeit' = zeit + 1 BY DEF BInv, Vergeht
<1>2. \A k \in NeuEimer : /\ Guthaben'[k] \in Nat /\ Guthaben[k] <= Guthaben'[k]
                          /\ Guthaben'[k] <= Guthaben[k] + Nachfuellung[k]
  <2> SUFFICES ASSUME NEW k \in NeuEimer
               PROVE  /\ Guthaben'[k] \in Nat /\ Guthaben[k] <= Guthaben'[k]
                      /\ Guthaben'[k] <= Guthaben[k] + Nachfuellung[k]
    OBVIOUS
  <2>1. Guthaben'[k] = Ideal!Hoechstens(k, Guthaben[k] + Nachfuellung[k])
    BY <1>1, VergehtIdeal, BilanzZahlen
  <2> QED BY <2>1, BilanzZahlen, ZahlenAssumption DEF Ideal!Hoechstens
<1>3. SperreStimmt' BY <1>1 DEF BInv, SperreStimmt
<1>4. ASSUME NEW k \in NeuEimer PROVE Bilanz(k)'
  <2>1. Geliehen(k)' = Geliehen(k) BY <1>1 DEF Geliehen, Leiht
  <2>2. Geliehen(k) \in Nat BY ZahlenAssumption DEF Geliehen
  <2>3. zeit' * Nachfuellung[k] = zeit * Nachfuellung[k] + Nachfuellung[k] BY <1>1, BilanzZahlen
  <2>4. Bilanz(k) BY DEF BInv
  <2> QED BY <1>1, <1>2, <2>1, <2>2, <2>3, <2>4, BilanzZahlen, ZahlenAssumption DEF Bilanz
<1>5. ASSUME NEW t \in Faden PROVE NichtWeniger(t)'
  <2>1. NichtWeniger(t) /\ Reihe(t)' = Reihe(t)
    BY <1>1 DEF BInv, Reihe, eimer_neuer_adressen, limit_schluessel48
  <2>2. CASE faden[t].ort \notin UnterSperre BY <1>1, <2>2 DEF NichtWeniger, UnterSperre
  <2>3. CASE faden[t].ort \in UnterSperre
    <3>1. faden[t].vorher \in [NeuEimer -> Nat]
      BY <1>1, <2>3, ArbeitTyp DEF IInv, Arbeit, UnterSperre
    <3>2. ASSUME NEW k \in NeuEimer
          PROVE  faden[t].vorher[k] <= Guthaben'[k] + IF k \in faden[t].genommen THEN MARKE ELSE 0
      <4>1. faden[t].vorher[k] <= Guthaben[k] + IF k \in faden[t].genommen THEN MARKE ELSE 0
        BY <2>1, <2>3 DEF NichtWeniger
      <4>2. /\ faden[t].vorher[k] \in Nat /\ Guthaben[k] \in Nat /\ Guthaben'[k] \in Nat
            /\ Guthaben[k] <= Guthaben'[k] /\ MARKE \in Nat
        BY <1>2, <3>1, BilanzZahlen, ZahlenAssumption
      <4> QED BY <4>1, <4>2
    <3> QED BY <1>1, <2>1, <3>2 DEF NichtWeniger
  <2> QED BY <2>2, <2>3
<1> QED BY <1>3, <1>4, <1>5 DEF BInv

LEMMA InitBInv == Init => BInv
<1> SUFFICES ASSUME Init PROVE BInv OBVIOUS
<1>1. IInv BY InitIInv
<1>2. \A t \in Faden : faden[t].ort = "frei" BY DEF Init, Frei
<1>3. SperreStimmt /\ \A t \in Faden : NichtWeniger(t)
  BY <1>2 DEF SperreStimmt, NichtWeniger, UnterSperre
<1>4. ASSUME NEW k \in NeuEimer PROVE Bilanz(k)
  <2>1. k \in Eimer BY FehltNicht
  <2>2. Fassung[k] \in Nat /\ Guthaben[k] <= Fassung[k] /\ Guthaben[k] \in Nat BY <1>1, <2>1, GuthabenTyp
  <2>3. Geliehen(k) = 0 BY <1>2 DEF Geliehen, Leiht, UnterSperre
  <2>4. MARKE * angelegt[k] = 0 /\ zeit * Nachfuellung[k] = 0
    <3>1. PICK n \in Nat : n = Nachfuellung[k] BY <2>1, EimerZahlen
    <3>2. MARKE \in Nat /\ angelegt[k] = 0 /\ zeit = 0 BY ZahlenAssumption DEF Init
    <3> QED BY <3>1, <3>2
  <2> QED BY <2>2, <2>3, <2>4 DEF Bilanz
<1> QED BY <1>1, <1>3, <1>4 DEF BInv

LEMMA SchrittBilanz ==
  ASSUME BInv, [Next]_vars
  PROVE  BInv'
<1>1. IInv' BY SchrittHaelt DEF BInv
<1> QED BY <1>1, AussenSchritte, NimmtSperreBilanz, NeueAdresseBilanz, SpeichertBilanz,
           ErstattetBilanz, VergehtBilanz DEF Next

LEMMA BilanzInvariante == Spec => []BInv
<1>1. Init => BInv BY InitBInv
<1>2. BInv /\ [Next]_vars => BInv' BY SchrittBilanz
<1> QED BY <1>1, <1>2, PTL DEF Spec

(* New addresses are paid for (neue_adresse_ok, neue_adresse_zurueck, the  *)
(* INSERT): what a bucket has paid, lent and holds is never more than its  *)
(* capacity and refill gave it, whatever is swept in between.              *)
THEOREM Bezahlt == Spec => []MarkenBilanz
<1>1. BInv => MarkenBilanz
  <2> SUFFICES ASSUME BInv, NEW k \in NeuEimer
               PROVE  LET L == {t \in Faden : faden[t].ort \in UnterSperre /\ k \in faden[t].genommen} IN
                      MARKE * (angelegt[k] + Cardinality(L)) + Stand(k, eimer[k]) <= Fassung[k] + zeit * Nachfuellung[k]
    BY DEF MarkenBilanz
  <2> DEFINE L == {t \in Faden : faden[t].ort \in UnterSperre /\ k \in faden[t].genommen}
  <2>1. Bilanz(k) /\ Guthaben[k] = Stand(k, eimer[k]) BY BilanzZahlen, GuthabenTyp DEF BInv
  <2>2. CASE L = {}
    <3>1. Cardinality(L) = 0 BY <2>2, FS_EmptySet
    <3>2. Geliehen(k) = 0 BY <2>2 DEF Geliehen, Leiht
    <3> QED BY <2>1, <3>1, <3>2, BilanzZahlen DEF Bilanz
  <2>3. CASE L # {}
    <3>1. PICK t \in Faden : L = {t} BY <2>3 DEF BInv, SperreStimmt
    <3>2. Cardinality(L) = 1 BY <3>1, FS_Singleton
    <3>3. Geliehen(k) = MARKE BY <3>1 DEF Geliehen, Leiht
    <3> QED BY <2>1, <3>2, <3>3, BilanzZahlen DEF Bilanz
  <2> QED BY <2>2, <2>3
<1> QED BY <1>1, BilanzInvariante, PTL

(* A thread that gives back and is free afterwards has made this step.     *)
LEMMA NurErstattet ==
  ASSUME BInv, Next, NEW t \in Faden, faden[t].ort = "erstatten", faden'[t].ort = "frei"
  PROVE  Erstattet(t)
<1>1. faden \in [Faden -> Arbeit \cup {Frei}] BY DEF BInv, IInv, FadenStimmt
<1>2. faden'[t] # faden[t] OBVIOUS
<1>3. ASSUME NEW s \in Faden, NEW p, NEW q, ChallengeBeginnt(s, p, q) \/ RegisterBeginnt(s, p, q)
      PROVE  FALSE
  BY <1>1, <1>2, <1>3 DEF ChallengeBeginnt, RegisterBeginnt, Beginnt
<1>4. ASSUME NEW s \in Faden, \/ speicher_hat_platz(s) \/ issue_nonce(s) \/ Abgewiesen(s)
                              \/ offene_nonces(s) \/ verbrauche_nonce(s)
      PROVE  FALSE
  BY <1>1, <1>2, <1>4 DEF speicher_hat_platz, issue_nonce, Abgewiesen, offene_nonces,
                          verbrauche_nonce, Beginnt, Ende, Weiter
<1>5. ASSUME NEW s \in Faden, NimmtSperre(s) \/ neue_adresse_ok(s) \/ Speichert(s)
      PROVE  FALSE
  BY <1>1, <1>2, <1>5 DEF NimmtSperre, neue_adresse_ok, Speichert, Laesst, Ende, Weiter
<1>6. ASSUME NEW s \in Faden, Erstattet(s), s # t
      PROVE  FALSE
  BY <1>1, <1>2, <1>6 DEF Erstattet, Laesst, Ende
<1>7. ASSUME faden' = faden PROVE FALSE BY <1>2, <1>7
<1> QED
  BY <1>3, <1>4, <1>5, <1>6, <1>7 DEF Next, msg_limit_ok, raeume_speicher_auf, Vergeht

(* A refused or failed new address costs its origin nothing: the thread    *)
(* that leaves schreibsperre without a row leaves every bucket at least as *)
(* full as it found it, though others sweep and charge meanwhile.          *)
THEOREM AbsageUmsonst == Spec => AbsageKostetNichts
<1> DEFINE A == \A t \in Faden :
                  (faden[t].ort = "erstatten" /\ faden'[t].ort = "frei") =>
                     \A k \in NeuEimer : Stand(k, eimer[k])' >= faden[t].vorher[k]
<1>1. ASSUME BInv, Next PROVE A
  <2> SUFFICES ASSUME NEW t \in Faden, faden[t].ort = "erstatten", faden'[t].ort = "frei",
                      NEW k \in NeuEimer
               PROVE  Stand(k, eimer[k])' >= faden[t].vorher[k]
    OBVIOUS
  <2>1. faden \in [Faden -> Arbeit \cup {Frei}] /\ faden[t] \in Arbeit /\ IInv
    BY <1>1, ArbeitTyp DEF BInv, IInv, FadenStimmt
  <2>2. Erstattet(t) BY <1>1, <2>1, NurErstattet
  <2>3. faden[t].genommen = {} /\ UNCHANGED <<zeit, eimer>>
    <3>1. ASSUME NEW b, faden' = [faden EXCEPT ![t].genommen = @ \ {b}] PROVE FALSE
      <4>1. faden'[t].ort = faden[t].ort BY <2>1, <3>1 DEF Arbeit
      <4> QED BY <4>1
    <3> QED BY <2>2, <3>1 DEF Erstattet, speicher
  <2>4. Guthaben'[k] = Guthaben[k] BY <2>1, <2>3, GleichesGuthaben
  <2>5. faden[t].vorher[k] <= Guthaben[k] + 0 BY <1>1, <2>3 DEF BInv, NichtWeniger, UnterSperre
  <2>6. Guthaben[k] \in Nat /\ Guthaben'[k] = Stand(k, eimer[k])' /\ faden[t].vorher[k] \in Nat
    BY <1>1, <2>1, BilanzZahlen DEF Guthaben, Arbeit
  <2> QED BY <2>4, <2>5, <2>6
<1>2. BInv /\ [Next]_vars => [A]_vars BY <1>1
<1> QED BY <1>2, BilanzInvariante, PTL DEF Spec, AbsageKostetNichts

----------------------------------------------------------------------------
(* Whose nonces yield.                                                     *)

(* The origins of entries. *)
Herkuenfte(N) == {e.herkunft : e \in N}

(* Few entries from each of few origins are few entries. *)
LEMMA JeHerkunft ==
  ASSUME NEW O, IsFiniteSet(O), NEW n \in Nat,
         \A h \in Herkuenfte(O) : Cardinality(Von(O, h)) <= n
  PROVE  /\ IsFiniteSet(Herkuenfte(O)) /\ Cardinality(Herkuenfte(O)) \in Nat
         /\ Cardinality(O) <= Cardinality(Herkuenfte(O)) * n
<1> DEFINE H == Herkuenfte(O)
           c(h) == Cardinality(Von(O, h))
           B(h) == CHOOSE f : f \in Bijection(1 .. c(h), Von(O, h))
           D == {d \in H \X (1 .. n) : d[2] <= c(d[1])}
           F == [d \in D |-> B(d[1])[d[2]]]
           g == [e \in O |-> e.herkunft]
<1>1. g \in Surjection(O, H) BY DEF Surjection, Herkuenfte
<1>2. IsFiniteSet(H) BY <1>1, FS_Surjection
<1>3. IsFiniteSet(1 .. n) /\ Cardinality(1 .. n) = n BY FS_Interval
<1>4. IsFiniteSet(H \X (1 .. n)) /\ Cardinality(H \X (1 .. n)) = Cardinality(H) * n
  BY <1>2, <1>3, FS_Product
<1>5. IsFiniteSet(D) /\ Cardinality(D) <= Cardinality(H) * n
  <2>1. D \subseteq H \X (1 .. n) OBVIOUS
  <2> QED BY <1>4, <2>1, FS_Subset
<1>6. ASSUME NEW h \in H
      PROVE  c(h) \in 0 .. n /\ B(h) \in Bijection(1 .. c(h), Von(O, h))
  <2>1. Von(O, h) \subseteq O BY DEF Von
  <2>2. IsFiniteSet(Von(O, h)) BY <2>1, FS_Subset
  <2>3. c(h) \in Nat /\ \E f : f \in Bijection(1 .. c(h), Von(O, h))
    BY <2>2, FS_CardinalityType DEF ExistsBijection
  <2> QED BY <2>3
<1> HIDE DEF c, B
<1>7. F \in Surjection(D, O)
  <2>1. ASSUME NEW d \in D PROVE F[d] \in O
    <3>1. d[1] \in H /\ d[2] \in 1 .. c(d[1]) BY <1>6
    <3>2. B(d[1])[d[2]] \in Von(O, d[1]) BY <1>6, <3>1 DEF Bijection, Injection
    <3> QED BY <3>2 DEF Von
  <2>2. ASSUME NEW e \in O PROVE \E d \in D : F[d] = e
    <3>1. e.herkunft \in H /\ e \in Von(O, e.herkunft) BY DEF Herkuenfte, Von
    <3>2. PICK i \in 1 .. c(e.herkunft) : B(e.herkunft)[i] = e
      BY <1>6, <3>1 DEF Bijection, Surjection
    <3>3. <<e.herkunft, i>> \in D BY <1>6, <3>1
    <3> QED BY <3>2, <3>3
  <2> QED BY <2>1, <2>2 DEF Surjection
<1>8. Cardinality(O) <= Cardinality(D) BY <1>5, <1>7, FS_Surjection
<1>9. Cardinality(O) \in Nat /\ Cardinality(D) \in Nat /\ Cardinality(H) \in Nat
  BY <1>2, <1>5, FS_CardinalityType
<1>10. Cardinality(H) * n \in Nat BY <1>9, Produkt
<1> QED BY <1>2, <1>5, <1>8, <1>9, <1>10

LEMMA Verteilt == \A x, y \in Nat : x * y + y = (x + 1) * y
OBVIOUS

(* At the roof of a pair, with places left for origin h, an entry of       *)
(* another origin has NONCE_HERKUENFTE origins against it.                 *)
LEMMA DachBrauchtViele ==
  ASSUME NEW O, IsFiniteSet(O), NEW h, NEW e \in O, e.herkunft # h,
         NEW n \in Nat \ {0}, NEW m \in Nat \ {0},
         \A x \in Herkuenfte(O) : Cardinality(Von(O, x)) <= n,
         Cardinality(Von(O, h)) < n, Cardinality(O) >= n * m
  PROVE  Cardinality((Herkuenfte(O) \cup {h}) \ {e.herkunft}) >= m
<1> DEFINE V == Von(O, h)
           P == O \ V
           A == Herkuenfte(P)
<1>1. V \subseteq O /\ P \subseteq O /\ e \in P /\ \A f \in P : f.herkunft # h BY DEF Von
<1>2. IsFiniteSet(V) /\ IsFiniteSet(P) BY <1>1, FS_Subset
<1>3. Cardinality(V) \in Nat /\ Cardinality(P) \in Nat /\ Cardinality(O) \in Nat
  BY <1>2, FS_CardinalityType
<1>4. Cardinality(P) = Cardinality(O) - Cardinality(V)
  <2>1. O \cap V = V BY <1>1
  <2> QED BY <2>1, FS_Difference
<1>5. ASSUME NEW x \in A PROVE Cardinality(Von(P, x)) <= n
  <2>1. x # h /\ x \in Herkuenfte(O) BY <1>1 DEF Herkuenfte
  <2>2. Von(P, x) = Von(O, x) BY <2>1 DEF Von
  <2> QED BY <2>1, <2>2
<1>6. IsFiniteSet(A) /\ Cardinality(A) \in Nat /\ Cardinality(P) <= Cardinality(A) * n
  BY <1>2, <1>5, JeHerkunft
<1>7. Cardinality(A) >= m
  <2> SUFFICES ASSUME Cardinality(A) < m PROVE FALSE BY <1>6
  <2>1. PICK a \in Nat : a = Cardinality(A) BY <1>6
  <2>2. PICK b \in Nat : b = a + 1 /\ b <= m /\ m \in Nat /\ n \in Nat BY <1>6, <2>1
  <2>3. a * n + n = (a + 1) * n BY Verteilt
  <2>4. b * n <= m * n BY <2>2, Mehr
  <2>5. m * n = n * m /\ a * n \in Nat /\ n * m \in Nat BY Produkt
  <2> QED BY <1>3, <1>4, <1>6, <2>1, <2>2, <2>3, <2>4, <2>5
<1>8. \A x : x \in A <=> x # h /\ x \in Herkuenfte(O)
  <2>1. \A f : f \in P <=> f \in O /\ f.herkunft # h BY DEF Von
  <2> QED BY <2>1 DEF Herkuenfte
<1>9. h \notin A /\ e.herkunft \in A /\ Herkuenfte(O) \cup {h} = A \cup {h}
  <2>1. e.herkunft \in Herkuenfte(O) BY DEF Herkuenfte
  <2> QED BY <1>8, <2>1
<1> HIDE DEF A
<1>10. PICK B : B = A \cup {h} OBVIOUS
<1>11. IsFiniteSet(B) /\ Cardinality(B) = Cardinality(A) + 1
  BY <1>6, <1>9, <1>10, FS_AddElement
<1>12. e.herkunft \in B BY <1>9, <1>10
<1>13. Cardinality(B \ {e.herkunft}) = Cardinality(B) - 1 BY <1>11, <1>12, FS_RemoveElement
<1>14. Cardinality(B \ {e.herkunft}) >= m BY <1>6, <1>7, <1>11, <1>13
<1> QED BY <1>9, <1>10, <1>14

(* A thread that was about to issue a nonce and is free has issued it. *)
LEMMA NurAusgabe ==
  ASSUME IInv, Next, NEW t \in Faden, faden[t].ort = "ausgeben", faden'[t].ort = "frei"
  PROVE  issue_nonce(t)
<1>1. faden \in [Faden -> Arbeit \cup {Frei}] BY DEF IInv, FadenStimmt
<1>2. faden'[t] # faden[t] OBVIOUS
<1>3. ASSUME NEW s \in Faden, NEW p, NEW q, ChallengeBeginnt(s, p, q) \/ RegisterBeginnt(s, p, q)
      PROVE  FALSE
  BY <1>1, <1>2, <1>3 DEF ChallengeBeginnt, RegisterBeginnt, Beginnt
<1>4. ASSUME NEW s \in Faden, \/ speicher_hat_platz(s) \/ Abgewiesen(s)
                              \/ offene_nonces(s) \/ verbrauche_nonce(s)
      PROVE  FALSE
  BY <1>1, <1>2, <1>4 DEF speicher_hat_platz, Abgewiesen, offene_nonces,
                          verbrauche_nonce, Beginnt, Ende, Weiter
<1>5. ASSUME NEW s \in Faden, NimmtSperre(s) \/ neue_adresse_ok(s) \/ Speichert(s) \/ Erstattet(s)
      PROVE  FALSE
  BY <1>1, <1>2, <1>5 DEF NimmtSperre, neue_adresse_ok, Speichert, Erstattet, Laesst, Ende, Weiter
<1>6. ASSUME NEW s \in Faden, issue_nonce(s), s # t
      PROVE  FALSE
  BY <1>1, <1>2, <1>6 DEF issue_nonce, Ende
<1>7. ASSUME faden' = faden PROVE FALSE BY <1>2, <1>7
<1> QED
  BY <1>3, <1>4, <1>5, <1>6, <1>7 DEF Next, msg_limit_ok, raeume_speicher_auf, Vergeht

LEMMA AusgabeVerdraengt ==
  ASSUME IInv, NEW t \in Faden, issue_nonce(t), NEW e \in nonces \ nonces', e.ablauf > zeit
  PROVE  LET h == nonce_herkunft(faden[t].quelle)
             N == {f \in nonces : f.paar = e.paar}
         IN \/ h = e.herkunft
            \/ Cardinality(({f.herkunft : f \in N} \cup {h}) \ {e.herkunft}) >= NONCE_HERKUENFTE
<1> DEFINE p == faden[t].paar
           h == nonce_herkunft(faden[t].quelle)
           offen == Offene(NoncesNach, p, zeit)
           rest == {f \in NoncesNach : f.paar # p} \cup offen
           weicht == Weicht(offen, h)
           N == {f \in nonces : f.paar = e.paar}
<1>1. rest \ weicht \subseteq nonces'  BY DEF issue_nonce
<1>2. NoncesNach \subseteq nonces /\ e \in NoncesNach BY DEF NoncesNach, NoncesGeraeumt
<1>3. e \in rest /\ (e.paar = p => e \in offen) /\ (e.paar # p => e \notin offen) BY <1>2 DEF Offene
<1>4. e \in weicht BY <1>1, <1>3
<1>5. NoncenStimmen(nonces, nonceZahl, naechste, einlass) /\ faden[t] \in Arbeit
  BY ArbeitTyp DEF IInv, issue_nonce
<1>6. p \in Paar /\ nonces \subseteq Nonce /\ IsFiniteSet(nonces) BY <1>5 DEF Arbeit, NoncenStimmen
<1>7. NoncenStimmen(offen, Cardinality(offen), naechste, einlass)
  <2>1. offen \subseteq nonces BY <1>2 DEF Offene
  <2> QED BY <1>5, <2>1, NoncenWeniger
<1>8. /\ offen \subseteq Nonce /\ IsFiniteSet(offen) /\ Bei(offen, p) = offen
      /\ \A f \in offen : Cardinality(Von(offen, f.herkunft)) <= NONCE_PLAETZE
  <2>1. Bei(offen, p) = offen BY DEF Bei, Offene
  <2> QED BY <1>6, <1>7, <2>1 DEF NoncenStimmen, PlaetzeHalten
<1>9. NONCE_PLAETZE \in Nat \ {0} /\ NONCE_HERKUENFTE \in Nat \ {0} BY ZahlenAssumption
<1> HIDE DEF offen, weicht
<1>10. CASE Cardinality(Von(offen, h)) >= NONCE_PLAETZE
  <2>1. e = Aeltestes(Von(offen, h)) BY <1>4, <1>10 DEF weicht, Weicht
  <2>2. Von(offen, h) \subseteq offen BY DEF Von
  <2>3. Von(offen, h) # {} BY <1>9, <1>10, FS_EmptySet
  <2>4. e \in Von(offen, h) BY <1>8, <2>1, <2>2, <2>3, AeltestesDarin
  <2> QED BY <2>4 DEF Von
<1>11. CASE ~(Cardinality(Von(offen, h)) >= NONCE_PLAETZE)
  <2>1. Cardinality(offen) >= NONCE_PLAETZE * NONCE_HERKUENFTE /\ e = Aeltestes(offen)
    BY <1>4, <1>11 DEF weicht, Weicht
  <2>2. offen # {}
    <3>1. NONCE_PLAETZE * NONCE_HERKUENFTE \in Nat \ {0} BY <1>9
    <3> QED BY <2>1, <3>1, FS_EmptySet
  <2>3. e \in offen BY <1>8, <2>1, <2>2, AeltestesDarin
  <2>4. CASE e.herkunft # h
    <3>1. Cardinality(Von(offen, h)) < NONCE_PLAETZE
      <4>1. Von(offen, h) \subseteq offen BY DEF Von
      <4>2. Cardinality(Von(offen, h)) \in Nat BY <1>8, <4>1, FS_Subset, FS_CardinalityType
      <4> QED BY <1>9, <1>11, <4>2
    <3>2. \A x \in Herkuenfte(offen) : Cardinality(Von(offen, x)) <= NONCE_PLAETZE
      BY <1>8 DEF Herkuenfte
    <3>3. Cardinality((Herkuenfte(offen) \cup {h}) \ {e.herkunft}) >= NONCE_HERKUENFTE
      BY <1>8, <1>9, <2>1, <2>3, <2>4, <3>1, <3>2, DachBrauchtViele
    <3>4. PICK S, T : /\ S = (Herkuenfte(offen) \cup {h}) \ {e.herkunft}
                      /\ T = (Herkuenfte(N) \cup {h}) \ {e.herkunft}
      OBVIOUS
    <3>5. offen \subseteq N BY <1>2, <1>3, <2>3 DEF offen, Offene
    <3>6. S \subseteq T BY <3>4, <3>5 DEF Herkuenfte
    <3>7. IsFiniteSet(T)
      <4>1. IsFiniteSet(N) BY <1>6, FS_Subset
      <4>2. PICK g : g = [f \in N |-> f.herkunft] OBVIOUS
      <4>3. g \in Surjection(N, Herkuenfte(N)) BY <4>2 DEF Surjection, Herkuenfte
      <4>4. IsFiniteSet(Herkuenfte(N)) BY <4>1, <4>3, FS_Surjection
      <4>5. IsFiniteSet(Herkuenfte(N) \cup {h}) BY <4>4, FS_AddElement
      <4> QED BY <3>4, <4>5, FS_RemoveElement
    <3>8. IsFiniteSet(S) /\ Cardinality(S) <= Cardinality(T) BY <3>6, <3>7, FS_Subset
    <3>9. Cardinality(S) \in Nat /\ Cardinality(T) \in Nat BY <3>7, <3>8, FS_CardinalityType
    <3>10. Cardinality(T) >= NONCE_HERKUENFTE BY <1>9, <3>3, <3>4, <3>8, <3>9
    <3> QED BY <3>4, <3>10 DEF Herkuenfte
  <2> QED BY <2>4
<1> QED BY <1>10, <1>11

(* An origin displaces only its own nonces (issue_nonce), unless as many   *)
(* origins as a pair has room for stand against the one that yields.       *)
THEOREM FremdesBleibt == Spec => FremdesNonceBleibt
<1> DEFINE A == \A t \in Faden : \A e \in nonces \ nonces' :
         (faden[t].ort = "ausgeben" /\ faden'[t].ort = "frei" /\ e.ablauf > zeit) =>
           LET h == nonce_herkunft(faden[t].quelle)
               N == {f \in nonces : f.paar = e.paar}
           IN \/ h = e.herkunft
              \/ Cardinality(({f.herkunft : f \in N} \cup {h}) \ {e.herkunft}) >= NONCE_HERKUENFTE
<1>1. ASSUME IInv, Next PROVE A BY <1>1, NurAusgabe, AusgabeVerdraengt
<1>2. IInv /\ [Next]_vars => [A]_vars BY <1>1
<1> QED BY <1>2, Invariante, PTL DEF Spec, FremdesNonceBleibt
=============================================================================
