-------------------------- MODULE PrekeyStoreProofs -------------------------
(***************************************************************************)
(* Theorems about the one-time prekeys: first about PrekeyStore, for every *)
(* set of devices, threads and key ids, every roof and every number of     *)
(* uploads; then about PrekeySupply, for every size of the supply, every   *)
(* number of calls and every bound.                                        *)
(***************************************************************************)
EXTENDS PrekeyStore, PrekeySupply, FiniteSetTheorems, SequenceTheorems, TLAPS

----------------------------------------------------------------------------
(* The inductive invariant.                                                *)

(* Who stands inside the lock is who holds it. *)
HalterStimmt == \A t \in Thread : thread[t].ph \in UnterSperre <=> sperre = t

(* Outside of a transaction the tables are the committed ones. *)
OhneTransaktion == sperre = Keiner => Tab = fest

(* The counter lags behind the disk only between a commit and its          *)
(* correction.                                                             *)
ZahlStimmt ==
    (\A t \in Thread : thread[t].ph # "zaehle")
        => kyberZeilen = Cardinality(Kyber(fest.einmal))

TabelleGanz == \A s \in einmal : /\ s.f = zeile[s.g]
                                 /\ s.art = "kyber" => s.g \in rettung

(* What holds of a transaction before each statement. *)
LageUpsert(i) == i.ph \in {"upsert", "kyber"} =>
    /\ i.g \in Geraet /\ i.funde = {}
    /\ \A s \in i.neu : /\ s.g = i.g /\ s.f = i.f
                        /\ s.art = "kyber" => i.mitKyber
LageAnfang(i) == i.ph \in {"upsert", "loesche"} => Tab = fest
LageLoesche(i) == i.ph = "loesche" => i.g \in Geraet /\ i.funde = {}
LageKyber(i) == i.ph = "kyber" =>
    /\ Kyber(einmal) = Kyber(fest.einmal)
    /\ zeile[i.g] = i.f
    /\ i.mitKyber => i.g \in rettung
    /\ \A s \in einmal : (s.g # i.g \/ s.art = "ec") =>
         /\ s.f = zeile[s.g]
         /\ s.art = "kyber" => s.g \in rettung
LageZiehe(i) == i.ph = "ziehe" =>
    /\ zeile = fest.zeile /\ rettung = fest.rettung
    /\ einmal = fest.einmal \ i.funde /\ i.funde \subseteq fest.einmal
    /\ i.delta = -Cardinality(Kyber(i.funde))
LageCommit(i) == i.ph = "commit" =>
    /\ TabelleGanz
    /\ Cardinality(Kyber(einmal)) = kyberZeilen + i.delta
    /\ Cardinality(Kyber(einmal)) <= KYBER_OTK_MAX_GESAMT
LageZaehle(i) == i.ph = "zaehle" =>
    /\ Tab = fest
    /\ Cardinality(Kyber(einmal)) = kyberZeilen + i.delta
Lage(i) == /\ LageUpsert(i) /\ LageAnfang(i) /\ LageLoesche(i) /\ LageKyber(i)
           /\ LageZiehe(i) /\ LageCommit(i) /\ LageZaehle(i)
           /\ i.ph = "ruhe" => i.funde = {}
Lagen == \A t \in Thread : Lage(thread[t])

(* Keys carry the upload they came with; the next upload has a new name.   *)
Benannt ==
    /\ \A s \in einmal \cup fest.einmal \cup ausgegeben : s.f <= fassungen
    /\ \A t \in Thread : \A s \in thread[t].funde \cup thread[t].neu : s.f <= fassungen

(* Where a key is, it is nowhere else. *)
Getrennt ==
    /\ ausgegeben \cap (einmal \cup fest.einmal) = {}
    /\ \A t \in Thread :
         LET i == thread[t] IN
         /\ i.funde \cap (einmal \cup ausgegeben) = {}
         /\ i.ph = "antwort" => i.funde \cap fest.einmal = {}
         /\ i.ph \in {"upsert", "kyber"} => i.neu \cap ausgegeben = {}
         /\ \A u \in Thread \ {t} :
              /\ i.funde \cap thread[u].funde = {}
              /\ i.ph \in {"upsert", "kyber"} => i.neu \cap thread[u].funde = {}

IInv ==
    /\ TypeOK
    /\ HalterStimmt
    /\ OhneTransaktion
    /\ ZahlStimmt
    /\ Lagen
    /\ Benannt
    /\ Getrennt
    /\ BuendelGanz
    /\ KyberDachHaelt

----------------------------------------------------------------------------
(* Finiteness and counting.                                                *)

LEMMA SchluesselEndlich == IsFiniteSet(Schluessel)
<1> DEFINE Alle == (Geraet \X Fassung) \X ({"ec", "kyber"} \X Nummer)
           f == [x \in Alle |-> [g |-> x[1][1], f |-> x[1][2], art |-> x[2][1], nr |-> x[2][2]]]
<1>1. IsFiniteSet(Fassung)
  BY FS_Interval, SchrankenAssumption DEF Fassung
<1>2. IsFiniteSet({"ec", "kyber"})
  <2>1. {"ec", "kyber"} = {"ec"} \cup {"kyber"}
    OBVIOUS
  <2>2. IsFiniteSet({"ec"})
    BY FS_Singleton
  <2>3. IsFiniteSet({"ec"} \cup {"kyber"})
    BY <2>2, FS_AddElement
  <2>4. QED
    BY <2>1, <2>3
<1>3. IsFiniteSet(Alle)
  BY <1>1, <1>2, MengenAssumption, FS_Product, Zenon
<1>4. f \in Surjection(Alle, Schluessel)
  <2>1. f \in [Alle -> Schluessel]
    BY DEF Schluessel
  <2>2. ASSUME NEW s \in Schluessel PROVE \E x \in Alle : f[x] = s
    <3>1. <<<<s.g, s.f>>, <<s.art, s.nr>>>> \in Alle
      BY DEF Schluessel
    <3>2. f[<<<<s.g, s.f>>, <<s.art, s.nr>>>>] = s
      BY <3>1 DEF Schluessel
    <3>3. QED
      BY <3>1, <3>2
  <2>3. QED
    BY <2>1, <2>2 DEF Surjection
<1>5. QED
  BY <1>3, <1>4, FS_Surjection, Zenon

(* Every set of keys is finite, and so is its Kyber part. *)
LEMMA KyberEndlich ==
  ASSUME NEW S \in SUBSET Schluessel
  PROVE  IsFiniteSet(S) /\ IsFiniteSet(Kyber(S)) /\ Cardinality(Kyber(S)) \in Nat
<1>1. IsFiniteSet(S)
  BY SchluesselEndlich, FS_Subset
<1>2. IsFiniteSet(Kyber(S))
  BY SchluesselEndlich, FS_Subset DEF Kyber
<1>3. QED
  BY <1>1, <1>2, FS_CardinalityType

(* Counting a union without overlap, rows that leave, rows that come. *)
LEMMA ZahlDisjunkt ==
  ASSUME NEW A, NEW B, IsFiniteSet(A), IsFiniteSet(B), A \cap B = {}
  PROVE  Cardinality(A \cup B) = Cardinality(A) + Cardinality(B)
<1>1. Cardinality(A \cup B) = Cardinality(A) + Cardinality(B) - Cardinality(A \cap B)
  BY FS_Union
<1>2. Cardinality(A \cap B) = 0
  BY FS_EmptySet
<1>3. Cardinality(A) \in Nat /\ Cardinality(B) \in Nat
  BY FS_CardinalityType
<1>4. QED
  BY <1>1, <1>2, <1>3

LEMMA KyberOhne ==
  ASSUME NEW S \in SUBSET Schluessel, NEW D \in SUBSET S
  PROVE  Cardinality(Kyber(S \ D)) = Cardinality(Kyber(S)) - Cardinality(Kyber(D))
<1>1. /\ Kyber(S) = Kyber(S \ D) \cup Kyber(D)
      /\ Kyber(S \ D) \cap Kyber(D) = {}
  BY DEF Kyber
<1>2. /\ IsFiniteSet(Kyber(S \ D)) /\ Cardinality(Kyber(S \ D)) \in Nat
      /\ IsFiniteSet(Kyber(D)) /\ Cardinality(Kyber(D)) \in Nat
  BY KyberEndlich
<1>3. Cardinality(Kyber(S)) = Cardinality(Kyber(S \ D)) + Cardinality(Kyber(D))
  BY <1>1, <1>2, ZahlDisjunkt
<1>4. QED
  BY <1>2, <1>3

LEMMA KyberMit ==
  ASSUME NEW S \in SUBSET Schluessel, NEW D \in SUBSET Schluessel, Kyber(S) \cap Kyber(D) = {}
  PROVE  Cardinality(Kyber(S \cup D)) = Cardinality(Kyber(S)) + Cardinality(Kyber(D))
<1>1. Kyber(S \cup D) = Kyber(S) \cup Kyber(D)
  BY DEF Kyber
<1>2. /\ IsFiniteSet(Kyber(S)) /\ Cardinality(Kyber(S)) \in Nat
      /\ IsFiniteSet(Kyber(D)) /\ Cardinality(Kyber(D)) \in Nat
  BY KyberEndlich
<1>3. QED
  BY <1>1, <1>2, ZahlDisjunkt

LEMMA KyberLeer == Cardinality(Kyber({})) = 0
  BY FS_EmptySet DEF Kyber

----------------------------------------------------------------------------
LEMMA InitIInv == Init => IInv
  BY KeinerAssumption, SchrankenAssumption, KyberLeer
  DEF Init, IInv, TypeOK, HalterStimmt, OhneTransaktion, ZahlStimmt, Lagen, Lage, Benannt,
      Getrennt, BuendelGanz, KyberDachHaelt, LageUpsert, LageAnfang, LageLoesche,
      LageKyber, LageZiehe, LageCommit, LageZaehle, Ruht, Faden, Stelle, UnterSperre, Tab

----------------------------------------------------------------------------
(* What the steps share: the thread that acts holds the lock or finds it   *)
(* free, so every other thread stands outside of it.                       *)

LEMMA AndereDraussen ==
  ASSUME IInv, NEW t \in Thread, sperre = t \/ sperre = Keiner
  PROVE  \A u \in Thread \ {t} : thread[u].ph \in {"ruhe", "antwort"}
  BY KeinerAssumption DEF IInv, HalterStimmt, TypeOK, Faden, Stelle, UnterSperre

LEMMA FadenWechsel ==
  ASSUME IInv, NEW t \in Thread, sperre = t \/ sperre = Keiner,
         NEW i \in Faden, thread' = [thread EXCEPT ![t] = i], Lage(i)',
         sperre' = IF i.ph \in UnterSperre THEN t ELSE Keiner
  PROVE  Lagen' /\ HalterStimmt' /\ thread' \in [Thread -> Faden]
         /\ sperre' \in Thread \cup {Keiner}
<1>1. \A u \in Thread \ {t} : thread[u].ph \in {"ruhe", "antwort"}
  BY AndereDraussen
<1>2. thread \in [Thread -> Faden]
  BY DEF IInv, TypeOK
<1>3. \A u \in Thread : thread'[u] = IF u = t THEN i ELSE thread[u]
  BY <1>2
<1>4. HalterStimmt'
  BY <1>1, <1>3, KeinerAssumption DEF HalterStimmt, UnterSperre, Stelle
<1>5. ASSUME NEW u \in Thread, u # t PROVE Lage(thread[u])'
  <2>1. thread'[u] = thread[u] /\ thread[u].ph \in {"ruhe", "antwort"}
    BY <1>1, <1>3, <1>5
  <2>2. thread[u].ph = "ruhe" => thread[u].funde = {}
    BY DEF IInv, Lagen, Lage
  <2>3. QED
    BY <2>1, <2>2
    DEF Lage, LageUpsert, LageAnfang, LageLoesche, LageKyber, LageZiehe, LageCommit, LageZaehle
<1>6. Lage(thread[t])'
  BY <1>3
<1>7. QED
  BY <1>2, <1>4, <1>5, <1>6, KeinerAssumption DEF Lagen

(* The counter matches the disk if nobody stands before its correction. *)
LEMMA ZahlBleibt ==
  ASSUME IInv, NEW t \in Thread, sperre = t \/ sperre = Keiner, thread[t].ph # "zaehle"
  PROVE  kyberZeilen = Cardinality(Kyber(fest.einmal))
<1>1. \A u \in Thread : thread[u].ph # "zaehle"
  BY AndereDraussen
<1>2. QED
  BY <1>1 DEF IInv, ZahlStimmt

----------------------------------------------------------------------------
(* One lemma per action. *)

LEMMA RegisterHaelt ==
  ASSUME IInv, NEW t \in Thread, NEW g \in Geraet, BeginneRegister(t, g)
  PROVE  IInv'
<1> PICK f : f = fassungen + 1
  OBVIOUS
<1>0. PICK ec \in SUBSET Nummer, ky \in SUBSET Nummer, mitKyber \in BOOLEAN :
        /\ ky # {} => mitKyber
        /\ Weiter(t, [ph |-> "upsert", g |-> g, f |-> f, mitKyber |-> mitKyber,
                      neu |-> Einmalschluessel(g, f, ec, ky),
                      offen |-> {}, funde |-> {}, delta |-> 0])
  BY DEF BeginneRegister
<1> DEFINE neu == Einmalschluessel(g, f, ec, ky)
           i == [ph |-> "upsert", g |-> g, f |-> f, mitKyber |-> mitKyber,
                 neu |-> neu, offen |-> {}, funde |-> {}, delta |-> 0]
<1>1. /\ thread[t].ph = "ruhe" /\ sperre = Keiner /\ sperre' = t
      /\ fassungen' = f /\ f \in Fassung
      /\ UNCHANGED <<tab, fest, kyberZeilen, ausgegeben>>
  BY SchrankenAssumption DEF BeginneRegister, Sperre, IInv, TypeOK, Fassung
<1>2. thread' = [thread EXCEPT ![t] = i]
  BY <1>0 DEF Weiter
<1>3. \A s \in neu : /\ s \in Schluessel /\ s.g = g /\ s.f = f
                     /\ s.art = "kyber" => mitKyber
  BY <1>0, <1>1 DEF Schluessel, Einmalschluessel
<1>4. i \in Faden
  BY <1>1, <1>3 DEF Faden, Stelle, Fassung
<1>5. Lage(i)'
  <2>1. Tab' = fest'
    BY <1>1 DEF IInv, OhneTransaktion, Tab, tab
  <2>2. QED
    BY <2>1, <1>3
    DEF Lage, LageUpsert, LageAnfang, LageLoesche, LageKyber, LageZiehe, LageCommit, LageZaehle
<1>6. /\ Lagen' /\ HalterStimmt' /\ thread' \in [Thread -> Faden]
      /\ sperre' \in Thread \cup {Keiner}
  <2>1. i.ph \in UnterSperre
    BY DEF UnterSperre, Stelle
  <2>2. QED
    BY <1>1, <1>2, <1>4, <1>5, <2>1, FadenWechsel
<1>7. TypeOK'
  BY <1>1, <1>6 DEF IInv, TypeOK, tab, Fassung
<1>8. OhneTransaktion' /\ ZahlStimmt' /\ BuendelGanz' /\ KyberDachHaelt'
  BY <1>1, ZahlBleibt, KeinerAssumption
  DEF IInv, OhneTransaktion, ZahlStimmt, BuendelGanz, KyberDachHaelt, tab
<1>9. \A u \in Thread : thread'[u] = IF u = t THEN i ELSE thread[u]
  BY <1>2 DEF IInv, TypeOK
<1>10. Benannt'
  <2>1. fassungen \in Nat /\ fassungen' \in Nat /\ fassungen < fassungen'
    BY <1>1 DEF IInv, TypeOK
  <2>2. \A s \in einmal \cup fest.einmal \cup ausgegeben : s.f \in Nat /\ s.f <= fassungen
    BY DEF IInv, TypeOK, Benannt, Schluessel, Fassung
  <2>3. \A u \in Thread : \A s \in thread[u].funde \cup thread[u].neu : s.f \in Nat /\ s.f <= fassungen
    BY DEF IInv, TypeOK, Benannt, Schluessel, Fassung, Faden
  <2>4. \A s \in i.funde \cup i.neu : s.f <= fassungen'
    BY <1>1, <1>3, <2>1
  <2>5. QED
    BY <1>1, <1>9, <2>1, <2>2, <2>3, <2>4 DEF Benannt, tab
<1>11. Getrennt'
  <2>1. \A s \in neu : s \notin ausgegeben /\ \A u \in Thread : s \notin thread[u].funde
    BY <1>1, <1>3 DEF IInv, TypeOK, Benannt
  <2>2. i.funde = {} /\ i.neu = neu /\ i.ph = "upsert"
    OBVIOUS
  <2>3. \A u \in Thread \ {t} : thread[u].ph \in {"ruhe", "antwort"}
    BY <1>1, AndereDraussen
  <2>4. QED
    BY <1>1, <1>9, <2>1, <2>2, <2>3 DEF IInv, Getrennt, tab
<1>12. QED
  BY <1>6, <1>7, <1>8, <1>10, <1>11 DEF IInv

LEMMA RuhtOffen ==
  /\ Ruht \in Faden
  /\ Ruht.ph = "ruhe" /\ Ruht.funde = {} /\ Ruht.neu = {} /\ Ruht.delta = 0
  BY SchrankenAssumption DEF Ruht, Faden, Stelle

(* A call that enters the lock and has stored nothing yet. *)
LEMMA BetretenHaelt ==
  ASSUME IInv, NEW t \in Thread, NEW i \in Faden, Weiter(t, i),
         thread[t].ph = "ruhe", Sperre(t),
         i.ph \in {"loesche", "ziehe"}, i.ph = "loesche" => i.g \in Geraet,
         i.funde = {}, i.neu = {}, i.delta = 0,
         UNCHANGED <<tab, fest, kyberZeilen, fassungen, ausgegeben>>
  PROVE  IInv'
<1>1. /\ sperre = Keiner /\ sperre' = t
      /\ UNCHANGED <<zeile, rettung, einmal, fest, kyberZeilen, fassungen, ausgegeben>>
  BY DEF Sperre, tab
<1>2. thread' = [thread EXCEPT ![t] = i]
  BY DEF Weiter
<1>3. Lage(i)'
  <2>1. Tab' = fest' /\ Tab = fest
    BY <1>1 DEF IInv, OhneTransaktion, Tab
  <2>2. zeile = fest.zeile /\ rettung = fest.rettung /\ einmal = fest.einmal
    BY <2>1 DEF Tab
  <2>3. -Cardinality(Kyber(i.funde)) = 0
    BY KyberLeer
  <2>4. QED
    BY <1>1, <2>1, <2>2, <2>3
    DEF Lage, LageUpsert, LageAnfang, LageLoesche, LageKyber, LageZiehe, LageCommit, LageZaehle
<1>4. /\ Lagen' /\ HalterStimmt' /\ thread' \in [Thread -> Faden]
      /\ sperre' \in Thread \cup {Keiner}
  <2>1. i.ph \in UnterSperre
    BY DEF UnterSperre, Stelle
  <2>2. QED
    BY <1>1, <1>2, <1>3, <2>1, FadenWechsel
<1>5. TypeOK'
  BY <1>1, <1>4 DEF IInv, TypeOK
<1>6. OhneTransaktion' /\ ZahlStimmt' /\ BuendelGanz' /\ KyberDachHaelt'
  BY <1>1, ZahlBleibt, KeinerAssumption
  DEF IInv, OhneTransaktion, ZahlStimmt, BuendelGanz, KyberDachHaelt
<1>7. \A u \in Thread : thread'[u] = IF u = t THEN i ELSE thread[u]
  BY <1>2 DEF IInv, TypeOK
<1>8. Benannt' /\ Getrennt'
  BY <1>1, <1>7 DEF IInv, Benannt, Getrennt
<1>9. QED
  BY <1>4, <1>5, <1>6, <1>8 DEF IInv

LEMMA LoeschenHaelt ==
  ASSUME IInv, NEW t \in Thread, NEW g \in Geraet, BeginneLoeschen(t, g)
  PROVE  IInv'
<1> PICK i : i = [Ruht EXCEPT !.ph = "loesche", !.g = g]
  OBVIOUS
<1>1. /\ i.ph = "loesche" /\ i.g \in Geraet
      /\ i.funde = {} /\ i.neu = {} /\ i.delta = 0
  BY RuhtOffen DEF Faden, Stelle
<1>2. i \in Faden
  BY RuhtOffen DEF Faden, Stelle
<1>3. /\ Weiter(t, i) /\ thread[t].ph = "ruhe" /\ Sperre(t)
      /\ UNCHANGED <<tab, fest, kyberZeilen, fassungen, ausgegeben>>
  BY DEF BeginneLoeschen
<1>4. QED
  BY <1>1, <1>2, <1>3, BetretenHaelt

LEMMA AusgabeHaelt ==
  ASSUME IInv, NEW t \in Thread, BeginneAusgabe(t)
  PROVE  IInv'
<1> PICK i : i = [Ruht EXCEPT !.ph = "ziehe", !.offen = {g \in Geraet : zeile[g] # 0}]
  OBVIOUS
<1>1. i.ph = "ziehe" /\ i.funde = {} /\ i.neu = {} /\ i.delta = 0
  BY RuhtOffen DEF Faden, Stelle
<1>2. i \in Faden
  BY RuhtOffen DEF Faden, Stelle
<1>3. /\ Weiter(t, i) /\ thread[t].ph = "ruhe" /\ Sperre(t)
      /\ UNCHANGED <<tab, fest, kyberZeilen, fassungen, ausgegeben>>
  BY DEF BeginneAusgabe
<1>4. QED
  BY <1>1, <1>2, <1>3, BetretenHaelt

(* A statement inside a transaction: it may store keys of its upload and   *)
(* take keys out of the table into its answer, and nothing else moves.     *)
LEMMA AnweisungHaelt ==
  ASSUME IInv, NEW t \in Thread, NEW a, a = thread[t], NEW i \in Faden, Weiter(t, i),
         a.ph \in VorCommit, i.ph \in VorCommit, i.neu = a.neu,
         i.ph \in {"upsert", "kyber"} => a.ph \in {"upsert", "kyber"},
         zeile' \in [Geraet -> 0 .. FASSUNG_MAX], rettung' \subseteq Geraet,
         einmal' \subseteq einmal \cup (IF a.ph \in {"upsert", "kyber"} THEN a.neu ELSE {}),
         i.funde \subseteq a.funde \cup einmal, i.funde \cap einmal' = {},
         Lage(i)',
         UNCHANGED <<fest, kyberZeilen, sperre, fassungen, ausgegeben>>
  PROVE  IInv'
<1>1. sperre = t /\ sperre' = t /\ i.ph \in UnterSperre
  BY DEF IInv, HalterStimmt, VorCommit, UnterSperre, Stelle
<1>2. thread' = [thread EXCEPT ![t] = i]
  BY DEF Weiter
<1>3. /\ Lagen' /\ HalterStimmt' /\ thread' \in [Thread -> Faden]
      /\ sperre' \in Thread \cup {Keiner}
  BY <1>1, <1>2, FadenWechsel
<1>4. a \in Faden /\ a.neu \subseteq Schluessel
  BY DEF IInv, TypeOK, Faden
<1>5. TypeOK'
  BY <1>3, <1>4 DEF IInv, TypeOK
<1>6. kyberZeilen = Cardinality(Kyber(fest.einmal))
  <2>1. thread[t].ph # "zaehle"
    BY DEF VorCommit
  <2>2. QED
    BY <1>1, <2>1, ZahlBleibt
<1>7. OhneTransaktion' /\ ZahlStimmt' /\ BuendelGanz' /\ KyberDachHaelt'
  BY <1>1, <1>6, KeinerAssumption
  DEF IInv, OhneTransaktion, ZahlStimmt, BuendelGanz, KyberDachHaelt
<1>8. \A u \in Thread : thread'[u] = IF u = t THEN i ELSE thread[u]
  BY <1>2 DEF IInv, TypeOK
<1>9. Benannt'
  <2>1. \A s \in einmal' : s \in einmal \/ s \in a.neu
    OBVIOUS
  <2>2. \A s \in i.funde \cup i.neu : s \in a.funde \/ s \in einmal \/ s \in a.neu
    OBVIOUS
  <2>3. QED
    BY <1>8, <2>1, <2>2 DEF IInv, Benannt
<1>10. \A u \in Thread \ {t} : thread[u].ph \in {"ruhe", "antwort"}
  BY <1>1, AndereDraussen
<1>11. Getrennt'
  <2>1. ausgegeben \cap (einmal' \cup fest.einmal) = {}
    BY DEF IInv, Getrennt
  <2>2. ASSUME NEW u \in Thread, u # t
        PROVE  /\ thread[u].funde \cap einmal' = {}
               /\ thread[u].funde \cap i.funde = {}
               /\ i.ph \in {"upsert", "kyber"} => i.neu \cap thread[u].funde = {}
    BY <2>2 DEF IInv, Getrennt
  <2>3. /\ i.funde \cap ausgegeben = {}
        /\ i.ph \in {"upsert", "kyber"} => i.neu \cap ausgegeben = {}
    BY DEF IInv, Getrennt
  <2>4. i.ph # "antwort"
    BY DEF VorCommit
  <2>5. QED
    BY <1>8, <1>10, <2>1, <2>2, <2>3, <2>4 DEF IInv, Getrennt
<1>12. QED
  BY <1>3, <1>5, <1>7, <1>9, <1>11 DEF IInv

LEMMA UpsertHaelt ==
  ASSUME IInv, NEW t \in Thread, Upsert(t)
  PROVE  IInv'
<1> PICK a : a = thread[t]
  OBVIOUS
<1> PICK i : i = [a EXCEPT !.ph = "kyber"]
  OBVIOUS
<1>1. /\ a \in Faden /\ a.ph = "upsert" /\ a.g \in Geraet /\ a.funde = {}
      /\ \A s \in a.neu : s.g = a.g /\ s.f = a.f /\ (s.art = "kyber" => a.mitKyber)
      /\ Tab = fest
  BY DEF Upsert, IInv, TypeOK, Lagen, Lage, LageUpsert, LageAnfang
<1>2. /\ i \in Faden /\ i.ph = "kyber" /\ i.g = a.g /\ i.f = a.f /\ i.neu = a.neu
      /\ i.mitKyber = a.mitKyber /\ i.funde = {}
  BY <1>1 DEF Faden, Stelle
<1>3. /\ Weiter(t, i)
      /\ zeile' = [zeile EXCEPT ![a.g] = a.f]
      /\ rettung' = IF a.mitKyber THEN rettung \cup {a.g} ELSE rettung \ {a.g}
      /\ einmal' = (einmal \ Ec(Des(a.g, einmal))) \cup Ec(a.neu)
      /\ UNCHANGED <<fest, kyberZeilen, sperre, fassungen, ausgegeben>>
  BY DEF Upsert
<1>4. zeile' \in [Geraet -> 0 .. FASSUNG_MAX] /\ rettung' \subseteq Geraet
  BY <1>1, <1>3 DEF IInv, TypeOK, Faden
<1>5. einmal' \subseteq einmal \cup a.neu
  BY <1>3 DEF Ec
<1>6. Lage(i)'
  <2>1. zeile = fest.zeile /\ rettung = fest.rettung /\ einmal = fest.einmal
    BY <1>1 DEF Tab
  <2>2. Kyber(einmal') = Kyber(fest.einmal)
    BY <1>3, <2>1 DEF Kyber, Ec, Des
  <2>3. zeile'[i.g] = i.f /\ (i.mitKyber => i.g \in rettung')
    BY <1>1, <1>2, <1>3 DEF IInv, TypeOK
  <2>4. ASSUME NEW s \in einmal', s.g # i.g \/ s.art = "ec"
        PROVE  s.f = zeile'[s.g] /\ (s.art = "kyber" => s.g \in rettung')
    <3>1. CASE s \in Ec(a.neu)
      BY <1>1, <1>2, <2>3, <3>1 DEF Ec
    <3>2. CASE s \notin Ec(a.neu)
      <4>1. s \in einmal /\ s.g # a.g /\ s.g \in Geraet
        BY <1>2, <1>3, <2>4, <3>2 DEF Ec, Des, IInv, TypeOK, Schluessel
      <4>2. s.f = zeile[s.g] /\ (s.art = "kyber" => s.g \in rettung)
        BY <2>1, <4>1 DEF IInv, BuendelGanz
      <4>3. QED
        BY <1>3, <4>1, <4>2 DEF IInv, TypeOK
    <3>3. QED
      BY <3>1, <3>2
  <2>5. QED
    BY <1>1, <1>2, <1>3, <2>2, <2>3, <2>4
    DEF Lage, LageUpsert, LageAnfang, LageLoesche, LageKyber, LageZiehe, LageCommit, LageZaehle
<1>7. /\ a.ph \in VorCommit /\ i.ph \in VorCommit /\ a.ph \in {"upsert", "kyber"}
      /\ einmal' \subseteq einmal \cup (IF a.ph \in {"upsert", "kyber"} THEN a.neu ELSE {})
      /\ i.funde \subseteq a.funde \cup einmal /\ i.funde \cap einmal' = {}
  BY <1>1, <1>2, <1>5 DEF VorCommit
<1>8. QED
  BY <1>2, <1>3, <1>4, <1>6, <1>7, AnweisungHaelt

LEMMA ErsetzeHaelt ==
  ASSUME IInv, NEW t \in Thread, ErsetzeKyber(t)
  PROVE  IInv'
<1> PICK a : a = thread[t]
  OBVIOUS
<1> PICK alt : alt = Kyber(Des(a.g, einmal))
  OBVIOUS
<1>0. PICK T \in Gekuerzt(Kyber(a.neu), Platz(Cardinality(alt))) :
        /\ einmal' = (einmal \ alt) \cup T
        /\ Weiter(t, [a EXCEPT !.ph = "commit", !.delta = Cardinality(T) - Cardinality(alt)])
  BY DEF ErsetzeKyber
<1> PICK d : d = Cardinality(T) - Cardinality(alt)
  OBVIOUS
<1> PICK i : i = [a EXCEPT !.ph = "commit", !.delta = d]
  OBVIOUS
<1>1. /\ a \in Faden /\ a.ph = "kyber" /\ a.g \in Geraet /\ a.funde = {}
      /\ a.neu \subseteq Schluessel
      /\ \A s \in a.neu : s.g = a.g /\ s.f = a.f /\ (s.art = "kyber" => a.mitKyber)
      /\ LageKyber(a)
  BY DEF ErsetzeKyber, IInv, TypeOK, Lagen, Lage, LageUpsert, Faden
<1>2. /\ alt \subseteq einmal /\ Kyber(alt) = alt /\ einmal \in SUBSET Schluessel
      /\ T \subseteq a.neu /\ T \subseteq Schluessel /\ Kyber(T) = T
      /\ Cardinality(T) <= Platz(Cardinality(alt))
  BY <1>0, <1>1 DEF Kyber, Des, Gekuerzt, IInv, TypeOK
<1>3. Cardinality(T) \in Nat /\ Cardinality(alt) \in Nat /\ Cardinality(Kyber(einmal)) \in Nat
  <2>1. alt \subseteq Schluessel
    BY <1>2
  <2>2. QED
    BY <1>2, <2>1, KyberEndlich
<1>4. i \in Faden /\ i.ph = "commit" /\ i.neu = a.neu /\ i.funde = {}
      /\ i.delta = Cardinality(T) - Cardinality(alt)
  <2>1. d \in Int
    BY <1>3
  <2>2. i \in Faden /\ i.ph = "commit" /\ i.neu = a.neu /\ i.funde = a.funde /\ i.delta = d
    BY <1>1, <2>1 DEF Faden, Stelle
  <2>3. QED
    BY <1>1, <2>2
<1>5. /\ Weiter(t, i)
      /\ UNCHANGED <<zeile, rettung, fest, kyberZeilen, sperre, fassungen, ausgegeben>>
  BY <1>0 DEF ErsetzeKyber
<1>6. sperre = t /\ kyberZeilen = Cardinality(Kyber(einmal))
  <2>1. sperre = t
    BY <1>1 DEF IInv, HalterStimmt, UnterSperre, Stelle
  <2>2. kyberZeilen = Cardinality(Kyber(fest.einmal))
    BY <1>1, <2>1, ZahlBleibt
  <2>3. QED
    BY <1>1, <2>1, <2>2 DEF LageKyber
<1>7. Cardinality(Kyber(einmal')) = kyberZeilen - Cardinality(alt) + Cardinality(T)
  <2>1. Cardinality(Kyber(einmal \ alt)) = Cardinality(Kyber(einmal)) - Cardinality(alt)
    BY <1>2, KyberOhne
  <2>2. Kyber(einmal \ alt) \cap Kyber(T) = {}
    BY <1>1, <1>2 DEF Kyber, Des
  <2>3. Cardinality(Kyber((einmal \ alt) \cup T))
          = Cardinality(Kyber(einmal \ alt)) + Cardinality(T)
    <3>1. einmal \ alt \in SUBSET Schluessel
      BY <1>2
    <3>2. QED
      BY <1>2, <2>2, <3>1, KyberMit
  <2>4. QED
    BY <1>0, <1>3, <1>6, <2>1, <2>3
<1>8. Cardinality(Kyber(einmal')) <= KYBER_OTK_MAX_GESAMT
  <2>1. kyberZeilen <= KYBER_OTK_MAX_GESAMT /\ kyberZeilen \in Nat
    BY <1>1, <1>6 DEF IInv, KyberDachHaelt, LageKyber, TypeOK
  <2>2. QED
    BY <1>2, <1>3, <1>7, <2>1, SchrankenAssumption DEF Platz
<1>9. TabelleGanz'
  <2>1. ASSUME NEW s \in einmal' PROVE s.f = zeile[s.g] /\ (s.art = "kyber" => s.g \in rettung)
    <3>1. CASE s \in T
      BY <1>1, <1>2, <3>1 DEF LageKyber
    <3>2. CASE s \in einmal \ alt
      <4>1. s.g # a.g \/ s.art = "ec"
        BY <1>2, <3>2 DEF Kyber, Des, Schluessel
      <4>2. QED
        BY <1>1, <3>2, <4>1 DEF LageKyber
    <3>3. QED
      BY <1>0, <3>1, <3>2
  <2>2. QED
    BY <1>5, <2>1 DEF TabelleGanz
<1>10. Lage(i)'
  <2>1. Cardinality(Kyber(einmal')) = kyberZeilen' + i.delta
    BY <1>3, <1>4, <1>5, <1>7 DEF IInv, TypeOK
  <2>2. QED
    BY <1>4, <1>8, <1>9, <2>1
    DEF Lage, LageUpsert, LageAnfang, LageLoesche, LageKyber, LageZiehe, LageCommit, LageZaehle
<1>11. /\ a.ph \in VorCommit /\ i.ph \in VorCommit /\ i.ph \notin {"upsert", "kyber"}
       /\ einmal' \subseteq einmal \cup (IF a.ph \in {"upsert", "kyber"} THEN a.neu ELSE {})
       /\ i.funde \subseteq a.funde \cup einmal /\ i.funde \cap einmal' = {}
       /\ zeile' \in [Geraet -> 0 .. FASSUNG_MAX] /\ rettung' \subseteq Geraet
  BY <1>0, <1>1, <1>2, <1>4, <1>5 DEF VorCommit, IInv, TypeOK
<1>12. QED
  BY <1>4, <1>5, <1>10, <1>11, AnweisungHaelt

LEMMA LoescheHaelt ==
  ASSUME IInv, NEW t \in Thread, Loesche(t)
  PROVE  IInv'
<1> PICK a : a = thread[t]
  OBVIOUS
<1> PICK weg : weg = Des(a.g, einmal)
  OBVIOUS
<1> PICK d : d = -Cardinality(Kyber(weg))
  OBVIOUS
<1> PICK i : i = [a EXCEPT !.ph = "commit", !.delta = d]
  OBVIOUS
<1>1. /\ a \in Faden /\ a.ph = "loesche" /\ a.g \in Geraet /\ a.funde = {} /\ Tab = fest
  BY DEF Loesche, IInv, TypeOK, Lagen, Lage, LageLoesche, LageAnfang
<1>2. weg \in SUBSET einmal /\ einmal \in SUBSET Schluessel
  BY DEF Des, IInv, TypeOK
<1>3. Cardinality(Kyber(weg)) \in Nat /\ Cardinality(Kyber(einmal)) \in Nat
  <2>1. weg \in SUBSET Schluessel
    BY <1>2
  <2>2. QED
    BY <1>2, <2>1, KyberEndlich
<1>4. i \in Faden /\ i.ph = "commit" /\ i.neu = a.neu /\ i.funde = {}
      /\ i.delta = -Cardinality(Kyber(weg))
  <2>1. d \in Int
    BY <1>3
  <2>2. i \in Faden /\ i.ph = "commit" /\ i.neu = a.neu /\ i.funde = a.funde /\ i.delta = d
    BY <1>1, <2>1 DEF Faden, Stelle
  <2>3. QED
    BY <1>1, <2>2
<1>5. /\ Weiter(t, i)
      /\ zeile' = [zeile EXCEPT ![a.g] = 0] /\ rettung' = rettung \ {a.g}
      /\ einmal' = einmal \ weg
      /\ UNCHANGED <<fest, kyberZeilen, sperre, fassungen, ausgegeben>>
  BY DEF Loesche
<1>6. sperre = t /\ kyberZeilen = Cardinality(Kyber(einmal)) /\ kyberZeilen \in Nat
  <2>1. sperre = t
    BY <1>1 DEF IInv, HalterStimmt, UnterSperre, Stelle
  <2>2. kyberZeilen = Cardinality(Kyber(fest.einmal))
    BY <1>1, <2>1, ZahlBleibt
  <2>3. QED
    BY <1>1, <1>3, <2>1, <2>2 DEF Tab
<1>7. Cardinality(Kyber(einmal')) = kyberZeilen - Cardinality(Kyber(weg))
  BY <1>2, <1>5, <1>6, KyberOhne
<1>8. Cardinality(Kyber(einmal')) <= KYBER_OTK_MAX_GESAMT
  <2>1. kyberZeilen <= KYBER_OTK_MAX_GESAMT
    BY <1>1, <1>6 DEF IInv, KyberDachHaelt, Tab
  <2>2. QED
    BY <1>3, <1>6, <1>7, <2>1, SchrankenAssumption
<1>9. TabelleGanz'
  <2>1. ASSUME NEW s \in einmal'
        PROVE s.f = zeile'[s.g] /\ (s.art = "kyber" => s.g \in rettung')
    <3>1. s \in einmal /\ s.g # a.g /\ s.g \in Geraet
      BY <1>2, <1>5 DEF Des, Schluessel
    <3>2. s.f = zeile[s.g] /\ (s.art = "kyber" => s.g \in rettung)
      BY <1>1, <3>1 DEF IInv, BuendelGanz, Tab
    <3>3. QED
      BY <1>5, <3>1, <3>2 DEF IInv, TypeOK
  <2>2. QED
    BY <2>1 DEF TabelleGanz
<1>10. Lage(i)'
  <2>1. Cardinality(Kyber(einmal')) = kyberZeilen' + i.delta
    BY <1>3, <1>4, <1>5, <1>6, <1>7
  <2>2. QED
    BY <1>4, <1>8, <1>9, <2>1
    DEF Lage, LageUpsert, LageAnfang, LageLoesche, LageKyber, LageZiehe, LageCommit, LageZaehle
<1>11. /\ a.ph \in VorCommit /\ i.ph \in VorCommit /\ i.ph \notin {"upsert", "kyber"}
       /\ einmal' \subseteq einmal \cup (IF a.ph \in {"upsert", "kyber"} THEN a.neu ELSE {})
       /\ i.funde \subseteq a.funde \cup einmal /\ i.funde \cap einmal' = {}
  BY <1>1, <1>4, <1>5 DEF VorCommit
<1>12. zeile' \in [Geraet -> 0 .. FASSUNG_MAX] /\ rettung' \subseteq Geraet
  BY <1>1, <1>5, SchrankenAssumption DEF IInv, TypeOK
<1>13. QED
  BY <1>4, <1>5, <1>10, <1>11, <1>12, AnweisungHaelt

LEMMA ZieheHaelt ==
  ASSUME IInv, NEW t \in Thread, Ziehe(t)
  PROVE  IInv'
<1> PICK a : a = thread[t]
  OBVIOUS
<1>01. PICK g \in a.offen :
        \E ec \in EinerAus(Ec(Des(g, einmal))),
           ky \in EinerAus(IF g \in rettung THEN Kyber(Des(g, einmal)) ELSE {}) :
          /\ einmal' = einmal \ (ec \cup ky)
          /\ Weiter(t, [a EXCEPT !.offen = a.offen \ {g},
                                 !.funde = a.funde \cup ec \cup ky,
                                 !.delta = a.delta - Cardinality(ky)])
  BY DEF Ziehe
<1>0. PICK ec \in EinerAus(Ec(Des(g, einmal))),
           ky \in EinerAus(IF g \in rettung THEN Kyber(Des(g, einmal)) ELSE {}) :
          /\ einmal' = einmal \ (ec \cup ky)
          /\ Weiter(t, [a EXCEPT !.offen = a.offen \ {g},
                                 !.funde = a.funde \cup ec \cup ky,
                                 !.delta = a.delta - Cardinality(ky)])
  BY <1>01
<1> PICK D : D = ec \cup ky
  OBVIOUS
<1> PICK d : d = a.delta - Cardinality(ky)
  OBVIOUS
<1> PICK o : o = a.offen \ {g}
  OBVIOUS
<1> PICK fu : fu = a.funde \cup ec \cup ky
  OBVIOUS
<1> PICK i : i = [a EXCEPT !.offen = o, !.funde = fu, !.delta = d]
  OBVIOUS
<1>1. /\ a \in Faden /\ a.ph = "ziehe" /\ LageZiehe(a)
      /\ a.funde \cap einmal = {} /\ a.funde \in SUBSET Schluessel
      /\ einmal \in SUBSET Schluessel
  BY DEF Ziehe, IInv, TypeOK, Lagen, Lage, Getrennt, Faden
<1>2. ec \subseteq Ec(einmal) /\ ky \subseteq Kyber(einmal)
  BY <1>0 DEF EinerAus, Ec, Kyber, Des
<1>3. /\ D \in SUBSET einmal /\ D \in SUBSET Schluessel
      /\ Kyber(D) = ky /\ a.funde \cap D = {}
  BY <1>1, <1>2 DEF Ec, Kyber
<1>4. Cardinality(ky) \in Nat /\ Cardinality(Kyber(a.funde)) \in Nat
  BY <1>1, <1>3, KyberEndlich
<1>5. /\ i \in Faden /\ i.ph = "ziehe" /\ i.neu = a.neu /\ i.funde = a.funde \cup D
      /\ i.delta = a.delta - Cardinality(ky)
  <2>1. d \in Int /\ o \in SUBSET Geraet /\ fu \in SUBSET Schluessel
    BY <1>1, <1>3, <1>4 DEF Faden
  <2>2. i \in Faden /\ i.ph = "ziehe" /\ i.neu = a.neu /\ i.funde = fu /\ i.delta = d
    BY <1>1, <2>1 DEF Faden, Stelle
  <2>3. QED
    BY <2>2
<1>6. /\ Weiter(t, i) /\ einmal' = einmal \ D
      /\ UNCHANGED <<zeile, rettung, fest, kyberZeilen, sperre, fassungen, ausgegeben>>
  BY <1>0 DEF Ziehe
<1>7. i.delta = -Cardinality(Kyber(i.funde))
  <2>1. Kyber(a.funde) \cap Kyber(D) = {}
    BY <1>3 DEF Kyber
  <2>2. Cardinality(Kyber(a.funde \cup D)) = Cardinality(Kyber(a.funde)) + Cardinality(Kyber(D))
    BY <1>1, <1>3, <2>1, KyberMit
  <2>3. a.delta = -Cardinality(Kyber(a.funde))
    BY <1>1 DEF LageZiehe
  <2>4. i.delta = -Cardinality(Kyber(a.funde \cup D))
    BY <1>3, <1>4, <1>5, <2>2, <2>3
  <2>5. QED
    BY <1>5, <2>4
<1>8. Lage(i)'
  <2>1. /\ zeile' = fest'.zeile /\ rettung' = fest'.rettung
        /\ einmal' = fest'.einmal \ i.funde /\ i.funde \subseteq fest'.einmal
    <3>1. /\ zeile = fest.zeile /\ rettung = fest.rettung
          /\ einmal = fest.einmal \ a.funde /\ a.funde \subseteq fest.einmal
      BY <1>1 DEF LageZiehe
    <3>2. fest.einmal \ (a.funde \cup D) = einmal \ D /\ a.funde \cup D \subseteq fest.einmal
      BY <1>3, <3>1
    <3>3. QED
      BY <1>5, <1>6, <3>1, <3>2
  <2>2. QED
    BY <1>5, <1>7, <2>1
    DEF Lage, LageUpsert, LageAnfang, LageLoesche, LageKyber, LageZiehe, LageCommit, LageZaehle
<1>9. /\ a.ph \in VorCommit /\ i.ph \in VorCommit /\ i.ph \notin {"upsert", "kyber"}
      /\ einmal' \subseteq einmal \cup (IF a.ph \in {"upsert", "kyber"} THEN a.neu ELSE {})
      /\ i.funde \subseteq a.funde \cup einmal /\ i.funde \cap einmal' = {}
      /\ zeile' \in [Geraet -> 0 .. FASSUNG_MAX] /\ rettung' \subseteq Geraet
  BY <1>1, <1>3, <1>5, <1>6 DEF VorCommit, IInv, TypeOK
<1>10. QED
  BY <1>5, <1>6, <1>8, <1>9, AnweisungHaelt

LEMMA GezogenHaelt ==
  ASSUME IInv, NEW t \in Thread, Gezogen(t)
  PROVE  IInv'
<1> PICK a : a = thread[t]
  OBVIOUS
<1> PICK i : i = [a EXCEPT !.ph = "commit"]
  OBVIOUS
<1>1. /\ a \in Faden /\ a.ph = "ziehe" /\ LageZiehe(a) /\ a.funde \cap einmal = {}
      /\ fest.einmal \in SUBSET Schluessel
  BY DEF Gezogen, IInv, TypeOK, Lagen, Lage, Getrennt
<1>2. /\ i \in Faden /\ i.ph = "commit" /\ i.neu = a.neu /\ i.funde = a.funde
      /\ i.delta = a.delta
  BY <1>1 DEF Faden, Stelle
<1>3. /\ Weiter(t, i)
      /\ UNCHANGED <<zeile, rettung, einmal, fest, kyberZeilen, sperre, fassungen, ausgegeben>>
  BY DEF Gezogen, tab
<1>4. sperre = t /\ kyberZeilen = Cardinality(Kyber(fest.einmal)) /\ kyberZeilen \in Nat
  <2>1. sperre = t
    BY <1>1 DEF IInv, HalterStimmt, UnterSperre, Stelle
  <2>2. QED
    BY <1>1, <2>1, ZahlBleibt DEF IInv, TypeOK
<1>5. Cardinality(Kyber(einmal)) = kyberZeilen - Cardinality(Kyber(a.funde))
  <2>1. a.funde \in SUBSET fest.einmal /\ einmal = fest.einmal \ a.funde
    BY <1>1 DEF LageZiehe
  <2>2. QED
    BY <1>1, <1>4, <2>1, KyberOhne
<1>6. Cardinality(Kyber(a.funde)) \in Nat
  BY <1>1, KyberEndlich DEF Faden
<1>7. Lage(i)'
  <2>1. Cardinality(Kyber(einmal)) = kyberZeilen + i.delta
    BY <1>1, <1>2, <1>4, <1>5, <1>6 DEF LageZiehe
  <2>2. Cardinality(Kyber(einmal)) <= KYBER_OTK_MAX_GESAMT
    BY <1>4, <1>5, <1>6, SchrankenAssumption DEF IInv, KyberDachHaelt
  <2>3. TabelleGanz
    BY <1>1 DEF TabelleGanz, LageZiehe, IInv, BuendelGanz
  <2>4. QED
    BY <1>2, <1>3, <2>1, <2>2, <2>3
    DEF Lage, LageUpsert, LageAnfang, LageLoesche, LageKyber, LageZiehe, LageCommit, LageZaehle,
        TabelleGanz
<1>8. /\ a.ph \in VorCommit /\ i.ph \in VorCommit /\ i.ph \notin {"upsert", "kyber"}
      /\ einmal' \subseteq einmal \cup (IF a.ph \in {"upsert", "kyber"} THEN a.neu ELSE {})
      /\ i.funde \subseteq a.funde \cup einmal /\ i.funde \cap einmal' = {}
      /\ zeile' \in [Geraet -> 0 .. FASSUNG_MAX] /\ rettung' \subseteq Geraet
  BY <1>1, <1>2, <1>3 DEF VorCommit, IInv, TypeOK
<1>9. QED
  BY <1>2, <1>3, <1>7, <1>8, AnweisungHaelt

(* The steps that end a transaction. *)
LEMMA CommitHaelt ==
  ASSUME IInv, NEW t \in Thread, Commit(t)
  PROVE  IInv'
<1> PICK a : a = thread[t]
  OBVIOUS
<1> PICK i : i = [a EXCEPT !.ph = "zaehle"]
  OBVIOUS
<1>1. a \in Faden /\ a.ph = "commit" /\ LageCommit(a)
  BY DEF Commit, IInv, TypeOK, Lagen, Lage
<1>2. /\ i \in Faden /\ i.ph = "zaehle" /\ i.neu = a.neu /\ i.funde = a.funde
      /\ i.delta = a.delta
  BY <1>1 DEF Faden, Stelle
<1>3. /\ Weiter(t, i) /\ fest' = Tab
      /\ UNCHANGED <<zeile, rettung, einmal, kyberZeilen, sperre, fassungen, ausgegeben>>
  BY DEF Commit, tab
<1>4. sperre = t /\ i.ph \in UnterSperre
  BY <1>1, <1>2 DEF IInv, HalterStimmt, UnterSperre, Stelle
<1>5. Lage(i)'
  <2>1. Tab' = fest' /\ Cardinality(Kyber(einmal')) = kyberZeilen' + i.delta
    BY <1>1, <1>2, <1>3 DEF LageCommit, Tab
  <2>2. QED
    BY <1>2, <2>1
    DEF Lage, LageUpsert, LageAnfang, LageLoesche, LageKyber, LageZiehe, LageCommit, LageZaehle
<1>6. /\ Lagen' /\ HalterStimmt' /\ thread' \in [Thread -> Faden]
      /\ sperre' \in Thread \cup {Keiner}
  BY <1>2, <1>3, <1>4, <1>5, FadenWechsel DEF Weiter
<1>7. TypeOK'
  BY <1>3, <1>6 DEF IInv, TypeOK, Tab
<1>8. \A u \in Thread : thread'[u] = IF u = t THEN i ELSE thread[u]
  BY <1>3 DEF IInv, TypeOK, Weiter
<1>9. OhneTransaktion' /\ ZahlStimmt'
  BY <1>2, <1>3, <1>4, <1>8, KeinerAssumption DEF OhneTransaktion, ZahlStimmt
<1>10. fest'.einmal = einmal /\ fest'.zeile = zeile /\ fest'.rettung = rettung
  BY <1>3 DEF Tab
<1>11. BuendelGanz' /\ KyberDachHaelt'
  BY <1>1, <1>3, <1>10 DEF LageCommit, TabelleGanz, BuendelGanz, KyberDachHaelt
<1>12. Benannt'
  BY <1>2, <1>3, <1>8, <1>10 DEF IInv, Benannt
<1>13. Getrennt'
  <2>1. ausgegeben' \cap (einmal' \cup fest'.einmal) = {}
    BY <1>3, <1>10 DEF IInv, Getrennt
  <2>2. \A u \in Thread : thread'[u].funde = thread[u].funde
    BY <1>2, <1>8
  <2>3. \A u \in Thread \ {t} : thread[u].ph \in {"ruhe", "antwort"}
    BY <1>4, AndereDraussen
  <2>4. \A u \in Thread : thread'[u].ph \notin {"upsert", "kyber"}
    BY <1>2, <1>8, <2>3
  <2>5. QED
    BY <1>3, <1>10, <2>1, <2>2, <2>4 DEF IInv, Getrennt
<1>14. QED
  BY <1>6, <1>7, <1>9, <1>11, <1>12, <1>13 DEF IInv

LEMMA FehlerHaelt ==
  ASSUME IInv, NEW t \in Thread, Fehler(t)
  PROVE  IInv'
<1>1. /\ Weiter(t, Ruht) /\ thread[t].ph \in VorCommit
      /\ zeile' = fest.zeile /\ rettung' = fest.rettung /\ einmal' = fest.einmal
      /\ sperre' = Keiner
      /\ UNCHANGED <<fest, kyberZeilen, fassungen, ausgegeben>>
  BY DEF Fehler
<1>2. sperre = t /\ kyberZeilen = Cardinality(Kyber(fest.einmal))
  <2>1. sperre = t
    BY <1>1 DEF IInv, HalterStimmt, UnterSperre, Stelle, VorCommit
  <2>2. thread[t].ph # "zaehle"
    BY <1>1 DEF VorCommit
  <2>3. QED
    BY <2>1, <2>2, ZahlBleibt
<1>3. Lage(Ruht)'
  BY RuhtOffen
  DEF Lage, LageUpsert, LageAnfang, LageLoesche, LageKyber, LageZiehe, LageCommit, LageZaehle
<1>4. /\ Lagen' /\ HalterStimmt' /\ thread' \in [Thread -> Faden]
      /\ sperre' \in Thread \cup {Keiner}
  <2>1. Ruht.ph \notin UnterSperre
    BY RuhtOffen DEF UnterSperre, Stelle
  <2>2. QED
    BY <1>1, <1>2, <1>3, <2>1, RuhtOffen, FadenWechsel DEF Weiter
<1>5. TypeOK'
  BY <1>1, <1>4 DEF IInv, TypeOK
<1>6. \A u \in Thread : thread'[u] = IF u = t THEN Ruht ELSE thread[u]
  BY <1>1 DEF IInv, TypeOK, Weiter
<1>7. OhneTransaktion' /\ ZahlStimmt' /\ BuendelGanz' /\ KyberDachHaelt'
  <2>1. fest = [zeile |-> fest.zeile, rettung |-> fest.rettung, einmal |-> fest.einmal]
    BY DEF IInv, TypeOK
  <2>2. QED
    BY <1>1, <1>2, <2>1
    DEF IInv, OhneTransaktion, ZahlStimmt, BuendelGanz, KyberDachHaelt, Tab
<1>8. Benannt'
  BY <1>1, <1>6, RuhtOffen DEF IInv, Benannt
<1>9. Getrennt'
  <2>1. \A u \in Thread \ {t} : thread[u].ph \in {"ruhe", "antwort"} /\ thread'[u] = thread[u]
    BY <1>2, <1>6, AndereDraussen
  <2>2. \A u \in Thread \ {t} : thread[u].funde \cap fest.einmal = {}
    BY <2>1 DEF IInv, Getrennt, Lagen, Lage
  <2>3. QED
    BY <1>1, <1>6, <2>1, <2>2, RuhtOffen DEF IInv, Getrennt
<1>10. QED
  BY <1>4, <1>5, <1>7, <1>8, <1>9 DEF IInv

LEMMA ZaehleHaelt ==
  ASSUME IInv, NEW t \in Thread, Zaehle(t)
  PROVE  IInv'
<1> PICK a : a = thread[t]
  OBVIOUS
<1> PICK i : i = IF a.funde = {} THEN Ruht ELSE [Ruht EXCEPT !.ph = "antwort", !.funde = a.funde]
  OBVIOUS
<1>1. a \in Faden /\ a.ph = "zaehle" /\ LageZaehle(a)
  BY DEF Zaehle, IInv, TypeOK, Lagen, Lage
<1>2. /\ i \in Faden /\ i.neu = {} /\ i.funde = a.funde
      /\ i.ph = IF a.funde = {} THEN "ruhe" ELSE "antwort"
  BY <1>1, RuhtOffen DEF Faden, Stelle
<1>3. /\ Weiter(t, i) /\ sperre' = Keiner
      /\ kyberZeilen' = IF kyberZeilen + a.delta < 0 THEN 0 ELSE kyberZeilen + a.delta
      /\ UNCHANGED <<zeile, rettung, einmal, fest, fassungen, ausgegeben>>
  BY DEF Zaehle, tab
<1>4. sperre = t /\ i.ph \notin UnterSperre /\ i.ph \in {"ruhe", "antwort"}
  BY <1>1, <1>2 DEF IInv, HalterStimmt, UnterSperre, Stelle
<1>5. kyberZeilen' = Cardinality(Kyber(fest.einmal)) /\ kyberZeilen' \in Nat
  <2>1. Cardinality(Kyber(einmal)) \in Nat
    BY KyberEndlich DEF IInv, TypeOK
  <2>2. Cardinality(Kyber(einmal)) = kyberZeilen + a.delta /\ einmal = fest.einmal
    BY <1>1 DEF LageZaehle, Tab
  <2>3. QED
    BY <1>3, <2>1, <2>2
<1>6. Lage(i)'
  BY <1>2
  DEF Lage, LageUpsert, LageAnfang, LageLoesche, LageKyber, LageZiehe, LageCommit, LageZaehle
<1>7. /\ Lagen' /\ HalterStimmt' /\ thread' \in [Thread -> Faden]
      /\ sperre' \in Thread \cup {Keiner}
  BY <1>2, <1>3, <1>4, <1>6, FadenWechsel DEF Weiter
<1>8. TypeOK'
  BY <1>3, <1>5, <1>7 DEF IInv, TypeOK
<1>9. \A u \in Thread : thread'[u] = IF u = t THEN i ELSE thread[u]
  BY <1>3 DEF IInv, TypeOK, Weiter
<1>10. OhneTransaktion' /\ ZahlStimmt' /\ BuendelGanz' /\ KyberDachHaelt'
  <2>1. Tab' = fest'
    BY <1>1, <1>3 DEF LageZaehle, Tab
  <2>2. QED
    BY <1>3, <1>5, <2>1
    DEF IInv, OhneTransaktion, ZahlStimmt, BuendelGanz, KyberDachHaelt
<1>11. Benannt'
  BY <1>2, <1>3, <1>9 DEF IInv, Benannt
<1>12. Getrennt'
  <2>1. a.funde \cap fest.einmal = {}
    BY <1>1 DEF LageZaehle, Tab, IInv, Getrennt
  <2>2. \A u \in Thread : thread'[u].funde = thread[u].funde
    BY <1>2, <1>9
  <2>3. \A u \in Thread \ {t} : thread[u].ph \in {"ruhe", "antwort"}
    BY <1>4, AndereDraussen
  <2>4. \A u \in Thread : thread'[u].ph \notin {"upsert", "kyber"}
    BY <1>4, <1>9, <2>3
  <2>5. ASSUME NEW u \in Thread, thread'[u].ph = "antwort"
        PROVE  thread[u].funde \cap fest.einmal = {}
    BY <1>9, <2>1, <2>5 DEF IInv, Getrennt
  <2>6. QED
    BY <1>3, <2>2, <2>4, <2>5 DEF IInv, Getrennt
<1>13. QED
  BY <1>7, <1>8, <1>10, <1>11, <1>12 DEF IInv

(* An answer leaves outside of the lock, whoever holds it. *)
LEMMA AntworteHaelt ==
  ASSUME IInv, NEW t \in Thread, Antworte(t)
  PROVE  IInv'
<1>1. /\ thread[t].ph = "antwort" /\ thread' = [thread EXCEPT ![t] = Ruht]
      /\ ausgegeben' = ausgegeben \cup thread[t].funde
      /\ UNCHANGED <<zeile, rettung, einmal, fest, kyberZeilen, sperre, fassungen>>
  BY DEF Antworte, Weiter, tab
<1>2. \A u \in Thread : thread'[u] = IF u = t THEN Ruht ELSE thread[u]
  BY <1>1 DEF IInv, TypeOK
<1>3. TypeOK'
  BY <1>1, RuhtOffen DEF IInv, TypeOK, Faden
<1>4. HalterStimmt'
  BY <1>1, <1>2, RuhtOffen DEF IInv, HalterStimmt, UnterSperre, Stelle
<1>5. Lagen'
  <2>1. Lage(Ruht)'
    BY RuhtOffen
    DEF Lage, LageUpsert, LageAnfang, LageLoesche, LageKyber, LageZiehe, LageCommit, LageZaehle
  <2>2. ASSUME NEW u \in Thread, u # t PROVE Lage(thread[u])'
    <3>1. thread'[u] = thread[u] /\ Lage(thread[u])
      BY <1>2, <2>2 DEF IInv, Lagen
    <3>2. QED
      BY <1>1, <3>1
      DEF Lage, LageUpsert, LageAnfang, LageLoesche, LageKyber, LageZiehe, LageCommit,
          LageZaehle, Tab, TabelleGanz
  <2>3. QED
    BY <1>2, <2>1, <2>2 DEF Lagen
<1>6. OhneTransaktion' /\ BuendelGanz' /\ KyberDachHaelt'
  BY <1>1 DEF IInv, OhneTransaktion, BuendelGanz, KyberDachHaelt, Tab
<1>7. ZahlStimmt'
  BY <1>1, <1>2 DEF IInv, ZahlStimmt
<1>8. Benannt'
  BY <1>1, <1>2, RuhtOffen DEF IInv, Benannt
<1>9. Getrennt'
  <2>1. ausgegeben' \cap (einmal \cup fest.einmal) = {}
    BY <1>1 DEF IInv, Getrennt
  <2>2. ASSUME NEW u \in Thread, u # t
        PROVE  /\ thread[u].funde \cap (einmal \cup ausgegeben') = {}
               /\ thread[u].ph \in {"upsert", "kyber"} => thread[u].neu \cap ausgegeben' = {}
    BY <1>1, <2>2 DEF IInv, Getrennt
  <2>3. QED
    BY <1>1, <1>2, <2>1, <2>2, RuhtOffen DEF IInv, Getrennt
<1>10. QED
  BY <1>3, <1>4, <1>5, <1>6, <1>7, <1>8, <1>9 DEF IInv

LEMMA NeustartHaelt ==
  ASSUME IInv, Neustart
  PROVE  IInv'
<1>1. /\ zeile' = fest.zeile /\ rettung' = fest.rettung /\ einmal' = fest.einmal
      /\ kyberZeilen' = Cardinality(Kyber(fest.einmal))
      /\ sperre' = Keiner /\ thread' = [t \in Thread |-> Ruht]
      /\ UNCHANGED <<fest, fassungen, ausgegeben>>
  BY DEF Neustart
<1>2. fest = [zeile |-> fest.zeile, rettung |-> fest.rettung, einmal |-> fest.einmal]
  BY DEF IInv, TypeOK
<1>3. Cardinality(Kyber(fest.einmal)) \in Nat
  BY KyberEndlich DEF IInv, TypeOK
<1>4. TypeOK'
  BY <1>1, <1>3, RuhtOffen DEF IInv, TypeOK
<1>5. \A t \in Thread : thread'[t] = Ruht
  BY <1>1
<1>6. HalterStimmt' /\ OhneTransaktion' /\ ZahlStimmt' /\ BuendelGanz' /\ KyberDachHaelt'
  BY <1>1, <1>2, <1>5, RuhtOffen, KeinerAssumption
  DEF IInv, HalterStimmt, OhneTransaktion, ZahlStimmt, BuendelGanz, KyberDachHaelt, Tab,
      UnterSperre, Stelle
<1>7. Lagen'
  <2>1. Lage(Ruht)'
    BY RuhtOffen
    DEF Lage, LageUpsert, LageAnfang, LageLoesche, LageKyber, LageZiehe, LageCommit, LageZaehle
  <2>2. QED
    BY <1>5, <2>1 DEF Lagen
<1>8. Benannt' /\ Getrennt'
  BY <1>1, <1>5, RuhtOffen DEF IInv, Benannt, Getrennt
<1>9. QED
  BY <1>4, <1>6, <1>7, <1>8 DEF IInv

----------------------------------------------------------------------------
LEMMA SchrittHaelt ==
  ASSUME IInv, [Next]_vars
  PROVE  IInv'
<1>1. CASE UNCHANGED vars
  <2>1. UNCHANGED <<zeile, rettung, einmal, fest, kyberZeilen, sperre, thread, fassungen,
                    ausgegeben>>
    BY <1>1 DEF vars, tab
  <2>2. QED
    BY <2>1
    DEF IInv, TypeOK, HalterStimmt, OhneTransaktion, ZahlStimmt, Lagen, Lage, Benannt,
        Getrennt, BuendelGanz, KyberDachHaelt, LageUpsert, LageAnfang, LageLoesche,
        LageKyber, LageZiehe, LageCommit, LageZaehle, Tab, TabelleGanz
<1>2. ASSUME NEW t \in Thread, NEW g \in Geraet, BeginneRegister(t, g) PROVE IInv'
  BY <1>2, RegisterHaelt
<1>3. ASSUME NEW t \in Thread, NEW g \in Geraet, BeginneLoeschen(t, g) PROVE IInv'
  BY <1>3, LoeschenHaelt
<1>4. ASSUME NEW t \in Thread, BeginneAusgabe(t) PROVE IInv'
  BY <1>4, AusgabeHaelt
<1>5. ASSUME NEW t \in Thread, Upsert(t) PROVE IInv'
  BY <1>5, UpsertHaelt
<1>6. ASSUME NEW t \in Thread, ErsetzeKyber(t) PROVE IInv'
  BY <1>6, ErsetzeHaelt
<1>7. ASSUME NEW t \in Thread, Loesche(t) PROVE IInv'
  BY <1>7, LoescheHaelt
<1>8. ASSUME NEW t \in Thread, Ziehe(t) PROVE IInv'
  BY <1>8, ZieheHaelt
<1>9. ASSUME NEW t \in Thread, Gezogen(t) PROVE IInv'
  BY <1>9, GezogenHaelt
<1>10. ASSUME NEW t \in Thread, Commit(t) PROVE IInv'
  BY <1>10, CommitHaelt
<1>11. ASSUME NEW t \in Thread, Fehler(t) PROVE IInv'
  BY <1>11, FehlerHaelt
<1>12. ASSUME NEW t \in Thread, Zaehle(t) PROVE IInv'
  BY <1>12, ZaehleHaelt
<1>13. ASSUME NEW t \in Thread, Antworte(t) PROVE IInv'
  BY <1>13, AntworteHaelt
<1>14. CASE Neustart
  BY <1>14, NeustartHaelt
<1>15. QED
  BY <1>1, <1>2, <1>3, <1>4, <1>5, <1>6, <1>7, <1>8, <1>9, <1>10, <1>11, <1>12, <1>13, <1>14
  DEF Next

(* The inductive invariant holds in every reachable state.                 *)
THEOREM Invariante == Spec => []IInv
<1>1. IInv /\ [Next]_vars => IInv'
  BY SchrittHaelt
<1>2. QED
  BY InitIInv, <1>1, PTL DEF Spec

(* Tables, counter, lock and the threads' local variables keep their types;*)
(* the Kyber counter in particular never goes below zero.                  *)
THEOREM TypOK == Spec => []TypeOK
<1>1. IInv => TypeOK
  BY DEF IInv
<1>2. QED
  BY Invariante, <1>1, PTL

(* Whatever transactions interleave, fail or are cut off by a crash: what  *)
(* the disk holds of a device is from one upload (register, 3208-3288).    *)
THEOREM BuendelBleibtGanz == Spec => []BuendelGanz
<1>1. IInv => BuendelGanz
  BY DEF IInv
<1>2. QED
  BY Invariante, <1>1, PTL

(* get_prekey hands a one-time key out at most once, because it answers    *)
(* only after its deletions are committed (3352-3455).                     *)
THEOREM JederSchluesselEinmal == Spec => []NurEinmalAusgegeben
<1>1. IInv => NurEinmalAusgegeben
  BY DEF IInv, Getrennt, NurEinmalAusgegeben
<1>2. QED
  BY Invariante, <1>1, PTL

(* Nobody who takes the lock finds a wrong _kyber_zeilen.                  *)
THEOREM KyberStandImmer == Spec => []KyberStandStimmt
<1>1. IInv => KyberStandStimmt
  <2>1. SUFFICES ASSUME IInv, sperre = Keiner
                 PROVE  kyberZeilen = Cardinality(Kyber(einmal))
    BY DEF KyberStandStimmt
  <2>2. \A t \in Thread : thread[t].ph # "zaehle"
    BY <2>1, KeinerAssumption DEF IInv, HalterStimmt, UnterSperre, Stelle
  <2>3. einmal = fest.einmal
    BY <2>1 DEF IInv, OhneTransaktion, Tab
  <2>4. QED
    BY <2>1, <2>2, <2>3 DEF IInv, ZahlStimmt
<1>2. QED
  BY Invariante, <1>1, PTL

(* The roof KYBER_OTK_MAX_GESAMT holds on the disk.                        *)
THEOREM KyberDachImmer == Spec => []KyberDachHaelt
<1>1. IInv => KyberDachHaelt
  BY DEF IInv
<1>2. QED
  BY Invariante, <1>1, PTL

(* Counter and roof of the Kyber keys together. *)
THEOREM KyberBuch == Spec => []KyberBuchStimmt
<1>1. KyberStandStimmt /\ KyberDachHaelt => KyberBuchStimmt
  BY DEF KyberBuchStimmt
<1>2. QED
  BY <1>1, KyberStandImmer, KyberDachImmer, PTL

----------------------------------------------------------------------------
(* PrekeySupply: the app, the relay and the peers. *)

(* Some numbers have a smallest one. *)
LEMMA KleinsteZahl ==
  ASSUME NEW I \in SUBSET Nat, I # {}
  PROVE  \E m \in I : \A n \in I : m <= n
<1>1. \E R : IsWellFoundedOn(R, Nat) /\ \A x, y \in Nat : x < y => <<x, y>> \in R
  <2>1. IsWellFoundedOn(OpToRel(<, Nat), Nat) BY NatLessThanWellFounded
  <2>2. \A x, y \in Nat : x < y => <<x, y>> \in OpToRel(<, Nat) BY DEF OpToRel
  <2> QED BY <2>1, <2>2, Zenon
<1>2. PICK R : IsWellFoundedOn(R, Nat) /\ \A x, y \in Nat : x < y => <<x, y>> \in R
  BY <1>1, Zenon
<1>3. IsWellFoundedOn(R, Nat) /\ I \subseteq Nat BY <1>2
<1>4. PICK m \in I : \A n \in I : ~ (<<n, m>> \in R) BY <1>3, WFMin, Zenon
<1>5. \A n \in I : ~ (n < m) BY <1>2, <1>3, <1>4, Zenon
<1> QED BY <1>3, <1>5

(* The largest of some keys, 0 if there is none. *)
LEMMA GroessteIst ==
  ASSUME NEW n \in Nat, NEW S \in SUBSET (0 .. n)
  PROVE  /\ Groesste(S) \in {0} \cup S /\ Groesste(S) \in 0 .. n
         /\ \A l \in S : l <= Groesste(S)
<1>1. PICK I : I = {u \in Nat : \A l \in S : l <= u} OBVIOUS
<1>2. n \in I /\ I \in SUBSET Nat BY <1>1
<1>3. PICK m \in I : \A u \in I : m <= u BY <1>2, KleinsteZahl
<1>4. m \in Nat /\ \A l \in S : l <= m BY <1>1, <1>3
<1>5. m \in {0} \cup S
  <2>1. SUFFICES ASSUME m \notin S, m # 0 PROVE FALSE OBVIOUS
  <2>2. m - 1 \in Nat /\ \A l \in S : l <= m - 1 BY <1>4, <2>1
  <2>3. m - 1 \in I BY <1>1, <2>2
  <2> QED BY <1>3, <1>4, <2>3
<1>6. PICK g : g = Groesste(S) OBVIOUS
<1>7. g \in {0} \cup S /\ \A l \in S : l <= g BY <1>4, <1>5, <1>6 DEF Groesste
<1> QED BY <1>6, <1>7

(* A refill: numbers above all others are added, and only keys with        *)
(* HOECHSTZAHL newer ones go.                                              *)
Neueste(A) == {k \in A : Cardinality({l \in A : l > k}) < HOECHSTZAHL}
Ergaenzt(L, h, L1, h1) == h1 \in {h, h + VORRAT} /\ L1 = Neueste(L \cup (h + 1 .. h1))

LEMMA FaelligWahr ==
  ASSUME NEW f \in Faellig
  PROVE  f \in BOOLEAN
BY Zenon DEF Faellig

(* The signed prekey is renewed only when it is due. *)
Erneuert(s, s1, faellig) == s1 \in {s, s + 1} /\ (s1 # s => faellig = TRUE)

LEMMA AbHoch ==
  ASSUME NEW L, NEW h \in Nat, L \subseteq 1 .. h
  PROVE  Groesste({h} \cup L) = h
<1>1. PICK S : S = {h} \cup L OBVIOUS
<1>2. S \in SUBSET (0 .. h) /\ h \in S
  <2>1. \A l \in L : l \in 0 .. h OBVIOUS
  <2> QED BY <1>1, <2>1
<1>3. PICK m : m = Groesste(S) OBVIOUS
<1>4. m \in 0 .. h /\ h <= m BY <1>2, <1>3, GroessteIst
<1> QED BY <1>1, <1>3, <1>4

LEMMA ErgaenzungIst ==
  ASSUME NEW L, NEW h \in Nat, NEW neu \in {0, VORRAT}
  PROVE  Ergaenzt(L, h, OhneAlte(L \cup (h + 1 .. h + neu)), h + neu)
<1>1. VORRAT \in Nat \ {0} BY VorratAnnahme
<1>2. PICK A, h1 : A = L \cup (h + 1 .. h + neu) /\ h1 = h + neu OBVIOUS
<1>3. OhneAlte(A) = Neueste(A) BY DEF OhneAlte, Neueste
<1>4. h1 \in {h, h + VORRAT} BY <1>1, <1>2
<1>5. Ergaenzt(L, h, OhneAlte(A), h1) BY <1>2, <1>3, <1>4 DEF Ergaenzt
<1> QED BY <1>2, <1>5

LEMMA AufgefuelltFrisch ==
  ASSUME NEW L, NEW h \in Nat, NEW s \in Nat, NEW faellig \in Faellig,
         L \subseteq 1 .. h
  PROVE  \E L1, h1, s1 :
           /\ Aufgefuellt([lokal |-> L, hoch |-> h, spk |-> s], TRUE, faellig)
                = [lokal |-> L1, hoch |-> h1, spk |-> s1]
           /\ Ergaenzt(L, h, L1, h1) /\ h1 = h + VORRAT
           /\ Erneuert(s, s1, faellig)
<1>1. VORRAT \in Nat \ {0}
  BY VorratAnnahme
<1>2. PICK g : g = [lokal |-> L, hoch |-> h, spk |-> s] OBVIOUS
<1>3. g.lokal = L /\ g.hoch = h /\ g.spk = s BY <1>2
<1>4. PICK s1 : s1 = IF faellig THEN s + 1 ELSE s OBVIOUS
<1>5. Erneuert(s, s1, faellig) BY <1>4, FaelligWahr DEF Erneuert
<1>6. PICK neu : neu = IF TRUE \/ Cardinality(g.lokal) < UNTERGRENZE THEN VORRAT ELSE 0
  OBVIOUS
<1>7. neu \in {0, VORRAT} /\ neu = VORRAT BY <1>6
<1>8. PICK L1, h1 : L1 = OhneAlte(L \cup (h + 1 .. h + neu)) /\ h1 = h + neu OBVIOUS
<1>9. Ergaenzt(L, h, L1, h1) /\ h1 = h + VORRAT
  <2>1. Ergaenzt(L, h, OhneAlte(L \cup (h + 1 .. h + neu)), h + neu)
    BY <1>7, ErgaenzungIst
  <2> QED BY <1>7, <1>8, <2>1
<1>10. Aufgefuellt(g, TRUE, faellig) =
         [lokal |-> OhneAlte(L \cup (h + 1 .. h + neu)),
          hoch |-> IF neu = 0 THEN h ELSE h + neu,
          spk |-> IF faellig THEN s + 1 ELSE s]
  <2>1. Groesste({h} \cup L) = h BY AbHoch
  <2> QED BY <1>3, <1>6, <2>1, Zenon DEF Aufgefuellt
<1>11. (IF neu = 0 THEN h ELSE h + neu) = h1 BY <1>1, <1>7, <1>8
<1>12. Aufgefuellt(g, TRUE, faellig) = [lokal |-> L1, hoch |-> h1, spk |-> s1]
  BY <1>4, <1>8, <1>10, <1>11, Zenon
<1> QED BY <1>2, <1>5, <1>9, <1>12, Zenon

(* At the start only a small supply is refilled. *)
BeimStart(L, h, h1) == h1 = h \/ Cardinality(L) < UNTERGRENZE

LEMMA AufgefuelltStart ==
  ASSUME NEW L, NEW h \in Nat, NEW s \in Nat, NEW faellig \in Faellig,
         L \subseteq 1 .. h
  PROVE  \E L1, h1, s1 :
           /\ Aufgefuellt([lokal |-> L, hoch |-> h, spk |-> s], FALSE, faellig)
                = [lokal |-> L1, hoch |-> h1, spk |-> s1]
           /\ Ergaenzt(L, h, L1, h1) /\ BeimStart(L, h, h1)
           /\ Erneuert(s, s1, faellig)
<1>1. VORRAT \in Nat \ {0}
  BY VorratAnnahme
<1>2. PICK g : g = [lokal |-> L, hoch |-> h, spk |-> s] OBVIOUS
<1>3. g.lokal = L /\ g.hoch = h /\ g.spk = s BY <1>2
<1>4. PICK s1 : s1 = IF faellig THEN s + 1 ELSE s OBVIOUS
<1>5. Erneuert(s, s1, faellig) BY <1>4, FaelligWahr DEF Erneuert
<1>6. PICK neu : neu = IF FALSE \/ Cardinality(g.lokal) < UNTERGRENZE THEN VORRAT ELSE 0
  OBVIOUS
<1>7. neu \in {0, VORRAT} BY <1>6
<1>8. PICK L1, h1 : L1 = OhneAlte(L \cup (h + 1 .. h + neu)) /\ h1 = h + neu OBVIOUS
<1>9. Ergaenzt(L, h, L1, h1)
  <2>1. Ergaenzt(L, h, OhneAlte(L \cup (h + 1 .. h + neu)), h + neu)
    BY <1>7, ErgaenzungIst
  <2> QED BY <1>8, <2>1
<1>13. BeimStart(L, h, h1)
  <2>1. neu # 0 => Cardinality(L) < UNTERGRENZE BY <1>3, <1>6
  <2>2. neu = 0 => h1 = h BY <1>8
  <2> QED BY <2>1, <2>2 DEF BeimStart
<1>10. Aufgefuellt(g, FALSE, faellig) =
         [lokal |-> OhneAlte(L \cup (h + 1 .. h + neu)),
          hoch |-> IF neu = 0 THEN h ELSE h + neu,
          spk |-> IF faellig THEN s + 1 ELSE s]
  <2>1. Groesste({h} \cup L) = h BY AbHoch
  <2> QED BY <1>3, <1>6, <2>1, Zenon DEF Aufgefuellt
<1>11. (IF neu = 0 THEN h ELSE h + neu) = h1 BY <1>1, <1>7, <1>8
<1>12. Aufgefuellt(g, FALSE, faellig) = [lokal |-> L1, hoch |-> h1, spk |-> s1]
  BY <1>4, <1>8, <1>10, <1>11, Zenon
<1> QED BY <1>2, <1>5, <1>9, <1>12, <1>13, Zenon

(* What a refill may do to keys L below h: number new ones, and let old    *)
(* ones go that are not among the newest HOECHSTZAHL numbers.              *)
Gewachsen(L, h, L1, h1) ==
    /\ h1 \in Nat /\ h <= h1
    /\ L1 \subseteq L \cup (h + 1 .. h1)
    /\ \A k \in L \cup (h + 1 .. h1) : k > h1 - HOECHSTZAHL => k \in L1

LEMMA GleichGewachsen ==
  ASSUME NEW L, NEW h \in Nat, L \subseteq 1 .. h
  PROVE  Gewachsen(L, h, L, h)
BY DEF Gewachsen

LEMMA WeiterGewachsen ==
  ASSUME NEW L, NEW h \in Nat, NEW L1, NEW h1, NEW L2, NEW h2,
         L \subseteq 1 .. h, Gewachsen(L, h, L1, h1), Gewachsen(L1, h1, L2, h2)
  PROVE  Gewachsen(L, h, L2, h2)
<1>1. HOECHSTZAHL \in Nat BY VorratAnnahme
<1>2. h1 \in Nat /\ h2 \in Nat /\ h <= h1 /\ h1 <= h2 BY DEF Gewachsen
<1>3. L2 \subseteq L \cup (h + 1 .. h2) BY <1>2 DEF Gewachsen
<1>4. ASSUME NEW k \in L \cup (h + 1 .. h2), k > h2 - HOECHSTZAHL PROVE k \in L2
  <2>1. k \in Int BY <1>2
  <2>2. CASE k <= h1
    <3>1. k \in L \cup (h + 1 .. h1) /\ k > h1 - HOECHSTZAHL BY <1>1, <1>2, <1>4, <2>1, <2>2
    <3>2. k \in L1 BY <3>1 DEF Gewachsen
    <3> QED BY <1>4, <3>2 DEF Gewachsen
  <2>3. CASE k > h1
    <3>1. k \in h1 + 1 .. h2 BY <1>2, <1>4, <2>1, <2>3
    <3> QED BY <1>4, <3>1 DEF Gewachsen
  <2> QED BY <1>2, <2>1, <2>2, <2>3
<1> QED BY <1>2, <1>3, <1>4 DEF Gewachsen

(* Few keys are newer than one of the newest. *)
LEMMA WenigeNeuere ==
  ASSUME NEW h \in Nat, NEW k \in 0 .. h, NEW T, T \subseteq k + 1 .. h
  PROVE  IsFiniteSet(T) /\ Cardinality(T) \in Nat /\ Cardinality(T) <= h - k
<1>1. k + 1 \in Int /\ h \in Int /\ k \in Int OBVIOUS
<1>2. IsFiniteSet(k + 1 .. h) /\ Cardinality(k + 1 .. h) = IF k + 1 > h THEN 0 ELSE h - (k + 1) + 1
  BY <1>1, FS_Interval
<1>3. Cardinality(k + 1 .. h) = h - k BY <1>1, <1>2
<1> QED BY <1>2, <1>3, FS_Subset, FS_CardinalityType

LEMMA ErgaenztWaechst ==
  ASSUME NEW L, NEW h \in Nat, NEW L1, NEW h1,
         L \subseteq 1 .. h, Ergaenzt(L, h, L1, h1)
  PROVE  Gewachsen(L, h, L1, h1) /\ L1 \subseteq 1 .. h1
<1>1. HOECHSTZAHL \in Nat /\ VORRAT \in Nat
  BY VorratAnnahme
<1>2. PICK A : A = L \cup (h + 1 .. h1) OBVIOUS
<1>3. /\ h1 \in Nat /\ h <= h1
      /\ L1 = {k \in A : Cardinality({l \in A : l > k}) < HOECHSTZAHL}
  BY <1>1, <1>2 DEF Ergaenzt, Neueste
<1>4. A \subseteq 1 .. h1 BY <1>2, <1>3
<1>5. ASSUME NEW k \in A, k > h1 - HOECHSTZAHL PROVE k \in L1
  <2>1. PICK T : T = {l \in A : l > k} OBVIOUS
  <2>2. k \in 1 .. h1 /\ T \subseteq k + 1 .. h1
    <3>1. k \in 1 .. h1 BY <1>4
    <3>2. \A l \in T : l \in 1 .. h1 /\ l > k BY <1>4, <2>1
    <3>3. \A l \in T : l \in k + 1 .. h1 BY <1>3, <3>1, <3>2
    <3> QED BY <3>1, <3>3
  <2>3. k \in 0 .. h1 BY <1>3, <2>2
  <2>4. Cardinality(T) \in Nat /\ Cardinality(T) <= h1 - k
    BY <1>3, <2>2, <2>3, WenigeNeuere
  <2>5. Cardinality(T) < HOECHSTZAHL BY <1>1, <1>3, <1>5, <2>2, <2>4
  <2> QED BY <1>3, <2>1, <2>5
<1>6. L1 \subseteq A BY <1>3
<1> QED BY <1>2, <1>3, <1>4, <1>5, <1>6 DEF Gewachsen

(* What _meldeAn does up to its request, with the keys L below h. *)
NeuerAnruf(fuer) ==
    [ph |-> "unterwegs", ids |-> {k \in lokal' : k > gemeldetBis}, spk |-> spk',
     bis |-> IF gemeldetBis = -1 THEN 0 ELSE gemeldetBis, fuer |-> fuer, alter |-> 0]
Meldet(a, L, h, anrufe, fuer) ==
    /\ anlauf[a].ph = "frei" /\ neben' = Gezaehlt(a) /\ weite' = weite
    /\ \/ /\ lokal' = L /\ hoch' = h
          /\ gemeldetBis = -1 \/ \E k \in L : k > gemeldetBis
          /\ anlauf' = [anrufe EXCEPT ![a] = NeuerAnruf(fuer)]
       \/ /\ gemeldetBis # -1 /\ \A k \in L : k <= gemeldetBis
          /\ Ergaenzt(L, h, lokal', hoch') /\ hoch' = h + VORRAT
          /\ anlauf' = [Gealtert EXCEPT ![a] = NeuerAnruf(fuer)]

LEMMA MeldeAnIst ==
  ASSUME NEW L, NEW h \in Nat, NEW s \in Nat, NEW g, NEW a, NEW anrufe,
         NEW faellig \in Faellig, NEW fuer,
         L \subseteq 1 .. h, g = [lokal |-> L, hoch |-> h, spk |-> s],
         MeldeAn(a, g, anrufe, faellig, fuer),
         gemeldetBis \in Nat \cup {-1}
  PROVE  Meldet(a, L, h, anrufe, fuer) /\ Erneuert(s, spk', faellig)
<1>1. g.lokal = L /\ g.hoch = h /\ g.spk = s OBVIOUS
<1>2. PICK bis : bis = gemeldetBis OBVIOUS
<1>3. bis \in Nat \cup {-1} BY <1>2
<1>4. L \subseteq Nat \ {0} OBVIOUS
<1> DEFINE leer == bis # -1 /\ \A k \in L : k <= bis
<1>5. Neue(g) = {k \in L : k > bis}
  <2>1. CASE bis = -1
    <3>1. \A k \in L : k > bis BY <1>4, <2>1
    <3>2. L = {k \in L : k > bis} BY <3>1
    <3>3. Neue(g) = L BY <1>1, <1>2, <2>1 DEF Neue, Nie
    <3> QED BY <3>2, <3>3
  <2>2. CASE bis # -1 BY <1>1, <1>2, <2>2 DEF Neue, Nie
  <2> QED BY <2>1, <2>2
<1>6. leer <=> gemeldetBis # Nie /\ Neue(g) = {}
  <2>1. \A k \in L : k <= bis <=> ~(k > bis) BY <1>3, <1>4
  <2>2. (\A k \in L : k <= bis) <=> Neue(g) = {} BY <1>5, <2>1
  <2> QED BY <1>2, <2>2 DEF Nie
<1>7. PICK mit : mit = IF leer THEN Aufgefuellt(g, TRUE, faellig) ELSE g OBVIOUS
<1>8. /\ anlauf[a].ph = "frei"
      /\ anlauf' = [IF leer THEN Gealtert ELSE anrufe EXCEPT ![a] =
            [ph |-> "unterwegs", ids |-> Neue(mit), spk |-> mit.spk,
             bis |-> IF gemeldetBis = Nie THEN 0 ELSE gemeldetBis, fuer |-> fuer, alter |-> 0]]
      /\ WirdBestand(mit)
  <2>1. PICK jetzt : jetzt <=> leer OBVIOUS
  <2>2. (gemeldetBis # Nie /\ Neue(g) = {}) = leer BY <1>6, Zenon
  <2> HIDE DEF leer
  <2> QED BY <1>7, <2>2, Zenon DEF MeldeAn
<1>9. lokal' = mit.lokal /\ hoch' = mit.hoch /\ spk' = mit.spk BY <1>8 DEF WirdBestand
<1>13. neben' = Gezaehlt(a) /\ weite' = weite BY Zenon DEF MeldeAn
<1>10. ASSUME Neue(mit) = {k \in lokal' : k > bis}
       PROVE  /\ anlauf[a].ph = "frei"
              /\ anlauf' = [IF leer THEN Gealtert ELSE anrufe EXCEPT ![a] = NeuerAnruf(fuer)]
  <2>1. {k \in lokal' : k > bis} = {k \in lokal' : k > gemeldetBis} BY <1>2
  <2>2. (IF gemeldetBis = Nie THEN 0 ELSE gemeldetBis) = IF gemeldetBis = -1 THEN 0 ELSE gemeldetBis
    BY DEF Nie
  <2> HIDE DEF leer
  <2> QED BY <1>8, <1>9, <1>10, <2>1, <2>2, Zenon DEF NeuerAnruf
<1>11. CASE leer
  <2>1. PICK L1, h1, s1 : /\ Aufgefuellt([lokal |-> L, hoch |-> h, spk |-> s], TRUE, faellig)
                               = [lokal |-> L1, hoch |-> h1, spk |-> s1]
                          /\ Ergaenzt(L, h, L1, h1) /\ h1 = h + VORRAT
                          /\ Erneuert(s, s1, faellig)
    BY AufgefuelltFrisch, Zenon
  <2>2. h1 = h + VORRAT BY <2>1
  <2>3. mit = [lokal |-> L1, hoch |-> h1, spk |-> s1]
    BY <1>7, <1>11, <2>1, Zenon
  <2>4. lokal' = L1 /\ hoch' = h1 /\ mit.lokal = L1 /\ spk' = s1
    BY <1>9, <2>3
  <2>5. Neue(mit) = {k \in lokal' : k > bis}
    BY <1>2, <1>11, <2>4 DEF Neue, Nie
  <2>6. Ergaenzt(L, h, lokal', hoch') /\ hoch' = h + VORRAT /\ Erneuert(s, spk', faellig)
    BY <2>1, <2>2, <2>4
  <2>7. gemeldetBis # -1 /\ \A k \in L : k <= gemeldetBis BY <1>2, <1>11
  <2>8. anlauf[a].ph = "frei" /\ anlauf' = [Gealtert EXCEPT ![a] = NeuerAnruf(fuer)]
    <3> HIDE DEF leer
    <3> QED BY <1>10, <1>11, <2>5, Zenon
  <2> QED BY <1>13, <2>6, <2>7, <2>8, Zenon DEF Meldet
<1>12. CASE ~leer
  <2>1. mit = g BY <1>7, <1>12
  <2>2. lokal' = L /\ hoch' = h /\ spk' = s /\ Erneuert(s, spk', faellig)
    BY <1>1, <1>9, <2>1 DEF Erneuert
  <2>3. Neue(mit) = {k \in lokal' : k > bis} BY <1>5, <2>1, <2>2
  <2>4. gemeldetBis = -1 \/ \E k \in L : k > gemeldetBis BY <1>2, <1>3, <1>4, <1>12
  <2>5. anlauf[a].ph = "frei" /\ anlauf' = [anrufe EXCEPT ![a] = NeuerAnruf(fuer)]
    <3> HIDE DEF leer
    <3> QED BY <1>10, <1>12, <2>3, Zenon
  <2> QED BY <1>13, <2>2, <2>4, <2>5, Zenon DEF Meldet
<1> QED BY <1>11, <1>12

LEMMA MeldetWaechst ==
  ASSUME NEW L, NEW h \in Nat, NEW a, NEW anrufe, NEW fuer,
         L \subseteq 1 .. h, Meldet(a, L, h, anrufe, fuer)
  PROVE  Gewachsen(L, h, lokal', hoch') /\ lokal' \subseteq 1 .. hoch'
<1>1. CASE lokal' = L /\ hoch' = h
  <2>1. Gewachsen(L, h, L, h) BY GleichGewachsen
  <2> QED BY <1>1, <2>1
<1>2. CASE Ergaenzt(L, h, lokal', hoch')
  <2>1. PICK L1, h1 : L1 = lokal' /\ h1 = hoch' OBVIOUS
  <2>2. Ergaenzt(L, h, L1, h1) BY <1>2, <2>1
  <2>3. Gewachsen(L, h, L1, h1) /\ L1 \subseteq 1 .. h1 BY <2>2, ErgaenztWaechst
  <2> QED BY <2>1, <2>3
<1>3. (lokal' = L /\ hoch' = h) \/ Ergaenzt(L, h, lokal', hoch') BY DEF Meldet
<1> QED BY <1>1, <1>2, <1>3

----------------------------------------------------------------------------
(* What a step does to the keys and the signed prekey on the device. *)
GeraetSchritt ==
    /\ Gewachsen(lokal, hoch, lokal', hoch') /\ lokal' \subseteq 1 .. hoch'
    /\ spk' \in {spk, spk + 1} /\ spk' \in 1 .. SPK_MAX + 1

LEMMA VorratZahlen ==
  ASSUME BestandTypeOK
  PROVE  /\ hoch \in Nat /\ lokal \subseteq 1 .. hoch /\ spk \in Nat
         /\ spk \in 1 .. SPK_MAX + 1 /\ gemeldetBis \in Nat \cup {-1}
         /\ Bestand = [lokal |-> lokal, hoch |-> hoch, spk |-> spk]
<1>1. gemeldetBis \in Nat \cup {-1} BY DEF BestandTypeOK, Nie
<1>2. hoch \in Nat /\ lokal \subseteq 1 .. hoch /\ spk \in 1 .. SPK_MAX + 1 BY DEF BestandTypeOK
<1> QED BY <1>1, <1>2 DEF Bestand

LEMMA FaelligIst ==
  ASSUME BestandTypeOK, NEW f \in Faellig, NEW s1, Erneuert(spk, s1, f)
  PROVE  s1 \in {spk, spk + 1} \cap (1 .. SPK_MAX + 1) /\ s1 \in Nat
<1>1. SPK_MAX \in Nat /\ spk \in 1 .. SPK_MAX + 1
  BY VorratZahlen, VorratSchranken
<1>2. s1 \in {spk, spk + 1} /\ (s1 # spk => f = TRUE) BY DEF Erneuert
<1>3. f = TRUE => spk <= SPK_MAX BY Zenon DEF Faellig
<1>4. s1 = spk + 1 => spk <= SPK_MAX BY <1>1, <1>2, <1>3
<1> QED BY <1>1, <1>2, <1>4

LEMMA VerbindeIst ==
  ASSUME BestandTypeOK, Verbinde
  PROVE  /\ GeraetSchritt
         /\ verbindung = "getrennt" /\ verbindung' = "meldet"
         /\ \E a \in Anlauf : Meldet(a, lokal, hoch, anlauf, "verbinden")
         /\ UNCHANGED <<gemeldetBis, vermerk, knapp, bekannt, pool, relaySpk,
                        gezogen, offen, verbraucht, stoerungen>>
<1>1. PICK a \in Anlauf, f \in Faellig : MeldeAn(a, Bestand, anlauf, f, "verbinden")
  BY Zenon DEF Verbinde
<1>2. f \in Faellig OBVIOUS
<1>3. /\ hoch \in Nat /\ lokal \subseteq 1 .. hoch /\ spk \in Nat
      /\ spk \in 1 .. SPK_MAX + 1 /\ gemeldetBis \in Nat \cup {-1}
      /\ Bestand = [lokal |-> lokal, hoch |-> hoch, spk |-> spk]
  BY VorratZahlen
<1>4. Meldet(a, lokal, hoch, anlauf, "verbinden") /\ Erneuert(spk, spk', f)
  <2>1. PICK L, h, s : L = lokal /\ h = hoch /\ s = spk OBVIOUS
  <2>2. h \in Nat /\ L \subseteq 1 .. h /\ s \in Nat BY <1>3, <2>1
  <2>3. MeldeAn(a, [lokal |-> L, hoch |-> h, spk |-> s], anlauf, f, "verbinden")
    BY <1>1, <1>3, <2>1, Zenon
  <2>4. f \in Faellig /\ gemeldetBis \in Nat \cup {-1} BY <1>2, <1>3
  <2>5. Meldet(a, L, h, anlauf, "verbinden") /\ Erneuert(s, spk', f)
    BY <2>2, <2>3, <2>4, MeldeAnIst, Zenon
  <2> QED BY <2>1, <2>5
<1>5. Gewachsen(lokal, hoch, lokal', hoch') /\ lokal' \subseteq 1 .. hoch'
  BY <1>3, <1>4, MeldetWaechst
<1>6. GeraetSchritt
  <2>1. PICK s1 : s1 = spk' OBVIOUS
  <2>2. s1 \in {spk, spk + 1} \cap (1 .. SPK_MAX + 1) BY <1>4, <2>1, FaelligIst
  <2> QED BY <1>5, <2>1, <2>2 DEF GeraetSchritt
<1> QED
  BY <1>4, <1>6, Zenon DEF Verbinde, meta, relay, peers

LEMMA FuelleNachIst ==
  ASSUME BestandTypeOK, FuelleNachUndMelde
  PROVE  /\ GeraetSchritt
         /\ verbindung = "online" /\ verbindung' = "online" /\ knapp /\ knapp' = FALSE
         /\ \E a \in Anlauf : \E L1, h1 : /\ Ergaenzt(lokal, hoch, L1, h1) /\ h1 = hoch + VORRAT
                                          /\ Meldet(a, L1, h1, Gealtert, "nachschub")
         /\ UNCHANGED <<gemeldetBis, vermerk, bekannt, pool, relaySpk,
                        gezogen, offen, verbraucht, stoerungen>>
<1>1. PICK a \in Anlauf, f \in Faellig :
        MeldeAn(a, Aufgefuellt(Bestand, TRUE, f), Gealtert, FALSE, "nachschub")
  BY Zenon DEF FuelleNachUndMelde
<1>2. f \in Faellig OBVIOUS
<1>3. /\ hoch \in Nat /\ lokal \subseteq 1 .. hoch /\ spk \in Nat
      /\ spk \in 1 .. SPK_MAX + 1 /\ gemeldetBis \in Nat \cup {-1}
      /\ Bestand = [lokal |-> lokal, hoch |-> hoch, spk |-> spk]
  BY VorratZahlen
<1>4. FALSE \in Faellig BY Zenon DEF Faellig
<1>5. PICK L1, h1, s1 :
        /\ Aufgefuellt([lokal |-> lokal, hoch |-> hoch, spk |-> spk], TRUE, f)
             = [lokal |-> L1, hoch |-> h1, spk |-> s1]
        /\ Ergaenzt(lokal, hoch, L1, h1) /\ h1 = hoch + VORRAT
        /\ Erneuert(spk, s1, f)
  <2>1. PICK L, h, s : L = lokal /\ h = hoch /\ s = spk OBVIOUS
  <2>2. h \in Nat /\ L \subseteq 1 .. h /\ s \in Nat BY <1>3, <2>1
  <2>3. \E L1, h1, s1 :
          /\ Aufgefuellt([lokal |-> L, hoch |-> h, spk |-> s], TRUE, f)
               = [lokal |-> L1, hoch |-> h1, spk |-> s1]
          /\ Ergaenzt(L, h, L1, h1) /\ h1 = h + VORRAT
          /\ Erneuert(s, s1, f)
    BY <1>2, <2>2, AufgefuelltFrisch, Zenon
  <2> QED BY <2>1, <2>3, Zenon
<1>6. Ergaenzt(lokal, hoch, L1, h1) /\ hoch \in Nat /\ lokal \subseteq 1 .. hoch
  BY <1>3, <1>5, Zenon
<1>7. Aufgefuellt(Bestand, TRUE, f) = [lokal |-> L1, hoch |-> h1, spk |-> s1]
  BY <1>3, <1>5, Zenon
<1>8. MeldeAn(a, [lokal |-> L1, hoch |-> h1, spk |-> s1], Gealtert, FALSE, "nachschub")
  BY <1>1, <1>7, Zenon
<1>9. h1 = hoch + VORRAT /\ h1 \in Nat /\ s1 \in Nat /\ s1 \in {spk, spk + 1} \cap (1 .. SPK_MAX + 1)
  <2>1. VORRAT \in Nat BY VorratAnnahme
  <2>2. s1 \in {spk, spk + 1} \cap (1 .. SPK_MAX + 1) /\ s1 \in Nat BY <1>5, FaelligIst
  <2>3. h1 = hoch + VORRAT BY <1>5, Zenon
  <2>4. hoch \in Nat BY <1>3
  <2>5. h1 \in Nat BY <2>1, <2>3, <2>4
  <2> QED BY <2>2, <2>3, <2>5
<1>10. Gewachsen(lokal, hoch, L1, h1) /\ L1 \subseteq 1 .. h1 BY <1>6, ErgaenztWaechst
<1>11. Meldet(a, L1, h1, Gealtert, "nachschub") /\ Erneuert(s1, spk', FALSE)
  BY <1>3, <1>4, <1>8, <1>9, <1>10, MeldeAnIst, Zenon
<1>12. Gewachsen(L1, h1, lokal', hoch') /\ lokal' \subseteq 1 .. hoch'
  BY <1>9, <1>10, <1>11, MeldetWaechst
<1>13. Gewachsen(lokal, hoch, lokal', hoch')
  <2>1. PICK L2, h2 : L2 = lokal' /\ h2 = hoch' OBVIOUS
  <2>2. Gewachsen(L1, h1, L2, h2) BY <1>12, <2>1
  <2>3. Gewachsen(lokal, hoch, L2, h2) BY <1>3, <1>10, <2>2, WeiterGewachsen
  <2> QED BY <2>1, <2>3
<1>14. GeraetSchritt
  <2>1. spk' = s1 BY <1>11 DEF Erneuert
  <2> QED BY <1>9, <1>12, <1>13, <2>1 DEF GeraetSchritt
<1> QED
  BY <1>5, <1>9, <1>11, <1>14, Zenon
     DEF FuelleNachUndMelde, meta, relay, peers

LEMMA AbsturzIst ==
  ASSUME BestandTypeOK, Absturz
  PROVE  /\ GeraetSchritt
         /\ \E L1, h1 : /\ lokal' = L1 /\ hoch' = h1
                        /\ Ergaenzt(lokal, hoch, L1, h1) /\ BeimStart(lokal, hoch, h1)
<1>1. PICK f \in Faellig : WirdBestand(Aufgefuellt(Bestand, FALSE, f))
  BY Zenon DEF Absturz
<1>2. f \in Faellig OBVIOUS
<1>3. /\ hoch \in Nat /\ lokal \subseteq 1 .. hoch /\ spk \in Nat
      /\ spk \in 1 .. SPK_MAX + 1 /\ gemeldetBis \in Nat \cup {-1}
      /\ Bestand = [lokal |-> lokal, hoch |-> hoch, spk |-> spk]
  BY VorratZahlen
<1>5. PICK L1, h1, s1 :
        /\ Aufgefuellt([lokal |-> lokal, hoch |-> hoch, spk |-> spk], FALSE, f)
             = [lokal |-> L1, hoch |-> h1, spk |-> s1]
        /\ Ergaenzt(lokal, hoch, L1, h1) /\ BeimStart(lokal, hoch, h1)
        /\ Erneuert(spk, s1, f)
  <2>1. PICK L, h, s : L = lokal /\ h = hoch /\ s = spk OBVIOUS
  <2>2. h \in Nat /\ L \subseteq 1 .. h /\ s \in Nat BY <1>3, <2>1
  <2>3. \E L1, h1, s1 :
          /\ Aufgefuellt([lokal |-> L, hoch |-> h, spk |-> s], FALSE, f)
               = [lokal |-> L1, hoch |-> h1, spk |-> s1]
          /\ Ergaenzt(L, h, L1, h1) /\ BeimStart(L, h, h1)
          /\ Erneuert(s, s1, f)
    BY <1>2, <2>2, AufgefuelltStart, Zenon
  <2> QED BY <2>1, <2>3, Zenon
<1>7. WirdBestand([lokal |-> L1, hoch |-> h1, spk |-> s1])
  BY <1>1, <1>3, <1>5, Zenon
<1>8. lokal' = L1 /\ hoch' = h1 /\ spk' = s1 BY <1>7 DEF WirdBestand
<1>9. Gewachsen(lokal, hoch, L1, h1) /\ L1 \subseteq 1 .. h1 BY <1>3, <1>5, ErgaenztWaechst
<1>10. s1 \in {spk, spk + 1} \cap (1 .. SPK_MAX + 1) BY <1>5, FaelligIst
<1>11. GeraetSchritt BY <1>8, <1>9, <1>10 DEF GeraetSchritt
<1> QED BY <1>5, <1>8, <1>11

----------------------------------------------------------------------------
(* Types. *)
Anruf(h, s) ==
    [ph : {"frei", "unterwegs", "angenommen"}, ids : SUBSET (1 .. h),
     spk : 0 .. s, bis : 0 .. h, alter : 0 .. NONCE_FRISCH + 1,
     fuer : {"verbinden", "nachschub", "ueberholt", "niemand"}]

AppTyp(h, s) ==
    /\ gemeldetBis \in {-1} \cup (0 .. h)
    /\ vermerk \in (0 .. s) \X (0 .. h)
RelayTyp(h, s) == pool \subseteq 1 .. h /\ relaySpk \in 0 .. s
PeerTyp(h) == /\ gezogen \in Seq(1 .. h) /\ offen \subseteq DOMAIN gezogen
              /\ verbraucht \subseteq 1 .. h
GeraetTyp == /\ hoch \in Nat /\ lokal \subseteq 1 .. hoch /\ spk \in 1 .. SPK_MAX + 1
SonstTyp == /\ verbindung \in {"getrennt", "meldet", "login", "online"}
            /\ knapp \in BOOLEAN /\ bekannt \in BOOLEAN /\ stoerungen \in 0 .. STOERUNG_MAX

LEMMA TypTeile ==
  BestandTypeOK <=>
    /\ GeraetTyp /\ AppTyp(hoch, spk) /\ RelayTyp(hoch, spk) /\ PeerTyp(hoch)
    /\ anlauf \in [Anlauf -> Anruf(hoch, spk)] /\ SonstTyp
BY DEF BestandTypeOK, Nie, GeraetTyp, AppTyp, RelayTyp, PeerTyp, SonstTyp, Anruf

LEMMA FreiTyp ==
  ASSUME NEW h \in Nat, NEW s \in Nat
  PROVE  Frei \in Anruf(h, s)
BY VorratAnnahme DEF Frei, Anruf

LEMMA FolgeWaechst ==
  ASSUME NEW h \in Nat, NEW h1 \in Nat, h <= h1, NEW q \in Seq(1 .. h)
  PROVE  q \in Seq(1 .. h1)
<1>1. 1 .. h \subseteq 1 .. h1 OBVIOUS
<1> QED BY <1>1

LEMMA AnrufWaechst ==
  ASSUME NEW h \in Nat, NEW h1 \in Nat, NEW s \in Nat, NEW s1 \in Nat, h <= h1, s <= s1,
         NEW r \in Anruf(h, s)
  PROVE  r \in Anruf(h1, s1)
<1>1. 1 .. h \subseteq 1 .. h1 /\ 0 .. h \subseteq 0 .. h1 /\ 0 .. s \subseteq 0 .. s1 OBVIOUS
<1> QED BY <1>1 DEF Anruf

LEMMA GeraetSchrittTyp ==
  ASSUME BestandTypeOK, GeraetSchritt
  PROVE  /\ hoch \in Nat /\ hoch' \in Nat /\ hoch <= hoch'
         /\ spk \in Nat /\ spk' \in Nat /\ spk <= spk'
         /\ GeraetTyp'
<1>1. SPK_MAX \in Nat BY VorratSchranken
<1>2. hoch \in Nat /\ spk \in Nat BY VorratZahlen
<1>3. hoch' \in Nat /\ hoch <= hoch' BY <1>2 DEF GeraetSchritt, Gewachsen
<1>4. spk' \in {spk, spk + 1} /\ spk' \in 1 .. SPK_MAX + 1 /\ lokal' \subseteq 1 .. hoch'
  BY DEF GeraetSchritt
<1> QED BY <1>1, <1>2, <1>3, <1>4 DEF GeraetTyp

LEMMA UebrigesWaechst ==
  ASSUME BestandTypeOK, hoch' \in Nat, hoch <= hoch', spk' \in Nat, spk <= spk',
         UNCHANGED <<gemeldetBis, vermerk, gezogen, offen, verbraucht>>
  PROVE  AppTyp(hoch, spk)' /\ PeerTyp(hoch)'
<1>1. hoch \in Nat /\ spk \in Nat BY VorratZahlen
<1>2. 1 .. hoch \subseteq 1 .. hoch' /\ 0 .. hoch \subseteq 0 .. hoch' /\ 0 .. spk \subseteq 0 .. spk'
  BY <1>1
<1>3. AppTyp(hoch, spk) /\ PeerTyp(hoch) BY TypTeile
<1>4. AppTyp(hoch, spk)' BY <1>1, <1>2, <1>3 DEF AppTyp
<1>5. gezogen \in Seq(1 .. hoch')
  <2>1. PICK h, h1 : h = hoch /\ h1 = hoch' OBVIOUS
  <2>2. gezogen \in Seq(1 .. h) BY <1>3, <2>1 DEF PeerTyp
  <2> QED BY <1>1, <2>1, <2>2, FolgeWaechst
<1>6. PeerTyp(hoch)' BY <1>2, <1>3, <1>5 DEF PeerTyp
<1> QED BY <1>4, <1>6

LEMMA PoolWaechst ==
  ASSUME BestandTypeOK, hoch' \in Nat, hoch <= hoch', spk' \in Nat, spk <= spk',
         UNCHANGED <<pool, relaySpk>>
  PROVE  RelayTyp(hoch, spk)'
<1>1. hoch \in Nat /\ spk \in Nat BY VorratZahlen
<1>2. 1 .. hoch \subseteq 1 .. hoch' /\ 0 .. spk \subseteq 0 .. spk' BY <1>1
<1>3. RelayTyp(hoch, spk) BY TypTeile
<1> QED BY <1>2, <1>3 DEF RelayTyp

(* The record of a call, field by field. *)
LEMMA AnrufFelder ==
  ASSUME NEW r, NEW h, NEW s, r \in Anruf(h, s)
  PROVE  /\ r.ids \in SUBSET (1 .. h) /\ r.spk \in 0 .. s /\ r.bis \in 0 .. h
         /\ r.alter \in 0 .. NONCE_FRISCH + 1
         /\ r.ph \in {"frei", "unterwegs", "angenommen"}
         /\ r.fuer \in {"verbinden", "nachschub", "ueberholt", "niemand"}
BY DEF Anruf

LEMMA AnrufAlter ==
  ASSUME NEW h, NEW s, NEW r \in Anruf(h, s), r.alter <= NONCE_FRISCH
  PROVE  [r EXCEPT !.alter = @ + 1] \in Anruf(h, s)
<1>1. NONCE_FRISCH \in Nat BY VorratAnnahme
<1>2. r.alter + 1 \in 0 .. NONCE_FRISCH + 1 BY <1>1 DEF Anruf
<1> QED BY <1>2 DEF Anruf

(* The calls under way after a refill. *)
LEMMA GealtertTyp ==
  ASSUME NEW h, NEW s, anlauf \in [Anlauf -> Anruf(h, s)]
  PROVE  Gealtert \in [Anlauf -> Anruf(h, s)]
<1>1. ASSUME NEW a \in Anlauf
      PROVE  (IF anlauf[a].ph = "unterwegs" /\ Gilt(a)
                THEN [anlauf[a] EXCEPT !.alter = @ + 1] ELSE anlauf[a]) \in Anruf(h, s)
  <2>1. PICK r : r = anlauf[a] OBVIOUS
  <2>2. r \in Anruf(h, s) BY <2>1
  <2>3. Gilt(a) <=> r.alter <= NONCE_FRISCH BY <2>1 DEF Gilt
  <2> QED BY <2>1, <2>2, <2>3, AnrufAlter
<1> QED BY <1>1 DEF Gealtert

(* The calls with the new one of a: the others as they were, or aged. *)
MitNeuem(a, fuer) ==
    \E anrufe \in {anlauf, Gealtert} : anlauf' = [anrufe EXCEPT ![a] = NeuerAnruf(fuer)]

LEMMA MeldetMitNeuem ==
  ASSUME NEW a, NEW L, NEW h, NEW fuer, NEW anrufe,
         anrufe \in {anlauf, Gealtert}, Meldet(a, L, h, anrufe, fuer)
  PROVE  anlauf[a].ph = "frei" /\ MitNeuem(a, fuer)
BY Zenon DEF Meldet, MitNeuem

(* A call of _meldeAn starts with the typed keys at hand. *)
LEMMA MeldetTyp ==
  ASSUME BestandTypeOK, GeraetSchritt, NEW a \in Anlauf, NEW fuer,
         MitNeuem(a, fuer), fuer \in {"verbinden", "nachschub"}
  PROVE  anlauf' \in [Anlauf -> Anruf(hoch', spk')]
<1>1. /\ hoch \in Nat /\ hoch' \in Nat /\ hoch <= hoch'
      /\ spk \in Nat /\ spk' \in Nat /\ spk <= spk' /\ lokal' \subseteq 1 .. hoch'
  BY GeraetSchrittTyp DEF GeraetTyp
<1>2. PICK anrufe, r : /\ anrufe \in {anlauf, Gealtert} /\ r = NeuerAnruf(fuer)
                       /\ anlauf' = [anrufe EXCEPT ![a] = r]
  BY DEF MitNeuem
<1>4. r \in Anruf(hoch', spk')
  <2>1. {k \in lokal' : k > gemeldetBis} \in SUBSET (1 .. hoch') BY <1>1
  <2>2. gemeldetBis \in {-1} \cup (0 .. hoch) BY TypTeile DEF AppTyp
  <2>3. (IF gemeldetBis = -1 THEN 0 ELSE gemeldetBis) \in 0 .. hoch' BY <1>1, <2>2
  <2>4. 0 \in 0 .. NONCE_FRISCH + 1 BY VorratAnnahme
  <2>5. spk' \in 0 .. spk' BY <1>1
  <2> QED BY <1>2, <2>1, <2>3, <2>4, <2>5 DEF Anruf, NeuerAnruf
<1>5. anrufe \in [Anlauf -> Anruf(hoch, spk)]
  <2>1. anlauf \in [Anlauf -> Anruf(hoch, spk)] BY TypTeile
  <2>2. PICK h, s : h = hoch /\ s = spk OBVIOUS
  <2>3. Gealtert \in [Anlauf -> Anruf(h, s)] BY <2>1, <2>2, GealtertTyp
  <2> QED BY <1>2, <2>1, <2>2, <2>3
<1>6. \A b \in Anlauf : anrufe[b] \in Anruf(hoch', spk')
  <2>1. TAKE b \in Anlauf
  <2>2. PICK h1, h2, s1, s2 : h1 = hoch /\ h2 = hoch' /\ s1 = spk /\ s2 = spk' OBVIOUS
  <2>3. anrufe[b] \in Anruf(h1, s1) BY <1>5, <2>2
  <2>4. anrufe[b] \in Anruf(h2, s2) BY <1>1, <2>2, <2>3, AnrufWaechst
  <2> QED BY <2>2, <2>4
<1> QED BY <1>2, <1>4, <1>5, <1>6

LEMMA GeraetBleibt ==
  ASSUME BestandTypeOK, UNCHANGED <<lokal, hoch, spk>>
  PROVE  GeraetTyp' /\ hoch \in Nat /\ spk \in Nat /\ hoch' = hoch /\ spk' = spk
<1>1. GeraetTyp /\ hoch \in Nat /\ spk \in Nat BY TypTeile, VorratZahlen
<1> QED BY <1>1 DEF GeraetTyp

LEMMA MeldendTyp ==
  ASSUME BestandTypeOK, GeraetSchritt, NEW fuer,
         \E a \in Anlauf : MitNeuem(a, fuer), fuer \in {"verbinden", "nachschub"},
         UNCHANGED <<gemeldetBis, vermerk, gezogen, offen, verbraucht, pool, relaySpk,
                     bekannt, stoerungen>>,
         verbindung' \in {"meldet", "online"}, knapp' \in BOOLEAN
  PROVE  BestandTypeOK'
<1>1. /\ hoch \in Nat /\ hoch' \in Nat /\ hoch <= hoch'
      /\ spk \in Nat /\ spk' \in Nat /\ spk <= spk' /\ GeraetTyp'
  BY GeraetSchrittTyp
<1>2. AppTyp(hoch, spk)' /\ PeerTyp(hoch)' BY <1>1, UebrigesWaechst
<1>3. RelayTyp(hoch, spk)' BY <1>1, PoolWaechst
<1>4. anlauf' \in [Anlauf -> Anruf(hoch', spk')]
  <2>1. PICK a \in Anlauf : MitNeuem(a, fuer) OBVIOUS
  <2> QED BY <2>1, MeldetTyp
<1>5. SonstTyp' BY TypTeile DEF SonstTyp
<1>6. (anlauf \in [Anlauf -> Anruf(hoch, spk)])' BY <1>4 DEF Anruf
<1> QED BY <1>1, <1>2, <1>3, <1>5, <1>6, TypTeile, PTL

LEMMA VerbindeTyp ==
  ASSUME BestandTypeOK, Verbinde
  PROVE  BestandTypeOK'
<1>1. /\ GeraetSchritt /\ verbindung' = "meldet"
      /\ \E a \in Anlauf : Meldet(a, lokal, hoch, anlauf, "verbinden")
      /\ UNCHANGED <<gemeldetBis, vermerk, knapp, bekannt, pool, relaySpk,
                     gezogen, offen, verbraucht, stoerungen>>
  BY VerbindeIst
<1>2. knapp' \in BOOLEAN BY <1>1, TypTeile DEF SonstTyp
<1>3. PICK f : f = "verbinden" OBVIOUS
<1>4. \E a \in Anlauf : MitNeuem(a, f)
  <2>1. PICK a, L, h, anrufe :
          a \in Anlauf /\ anrufe = anlauf /\ Meldet(a, L, h, anrufe, f)
    BY <1>1, <1>3
  <2> QED BY <2>1, MeldetMitNeuem
<1> QED BY <1>1, <1>2, <1>3, <1>4, MeldendTyp

LEMMA FuelleNachTyp ==
  ASSUME BestandTypeOK, FuelleNachUndMelde
  PROVE  BestandTypeOK'
<1>1. /\ GeraetSchritt /\ verbindung' = "online" /\ knapp' = FALSE
      /\ \E a \in Anlauf : \E L1, h1 : /\ Ergaenzt(lokal, hoch, L1, h1) /\ h1 = hoch + VORRAT
                                       /\ Meldet(a, L1, h1, Gealtert, "nachschub")
      /\ UNCHANGED <<gemeldetBis, vermerk, bekannt, pool, relaySpk,
                     gezogen, offen, verbraucht, stoerungen>>
  BY FuelleNachIst
<1>2. knapp' \in BOOLEAN BY <1>1
<1>3. PICK f : f = "nachschub" OBVIOUS
<1>4. \E a \in Anlauf : MitNeuem(a, f)
  <2>1. PICK a, L, h, anrufe :
          a \in Anlauf /\ anrufe = Gealtert /\ Meldet(a, L, h, anrufe, f)
    BY <1>1, <1>3
  <2> QED BY <2>1, MeldetMitNeuem
<1> QED BY <1>1, <1>2, <1>3, <1>4, MeldendTyp

(* A step that leaves the keys of the device alone. *)
LEMMA TypOhneGeraet ==
  ASSUME BestandTypeOK, UNCHANGED <<lokal, hoch, spk>>,
         \A a \in Anlauf : anlauf'[a] \in Anruf(hoch, spk),
         \E f : anlauf' = [a \in Anlauf |-> f[a]],
         gemeldetBis' \in {-1} \cup (0 .. hoch), vermerk' \in (0 .. spk) \X (0 .. hoch),
         pool' \subseteq 1 .. hoch, relaySpk' \in 0 .. spk,
         verbindung' \in {"getrennt", "meldet", "login", "online"}, knapp' \in BOOLEAN,
         bekannt' \in BOOLEAN, stoerungen' \in 0 .. STOERUNG_MAX,
         UNCHANGED <<gezogen, offen, verbraucht>>
  PROVE  BestandTypeOK'
<1>1. GeraetTyp' /\ hoch \in Nat /\ spk \in Nat /\ hoch' = hoch /\ spk' = spk BY GeraetBleibt
<1>2. AppTyp(hoch, spk)' /\ RelayTyp(hoch, spk)' /\ SonstTyp'
  BY <1>1 DEF AppTyp, RelayTyp, SonstTyp
<1>3. PeerTyp(hoch)' BY <1>1, TypTeile DEF PeerTyp
<1>4. (anlauf \in [Anlauf -> Anruf(hoch, spk)])'
  <2>1. Anruf(hoch, spk)' = Anruf(hoch, spk) BY <1>1 DEF Anruf
  <2>2. anlauf' \in [Anlauf -> Anruf(hoch, spk)] OBVIOUS
  <2> QED BY <2>1, <2>2
<1> QED BY <1>1, <1>2, <1>3, <1>4, TypTeile, PTL

LEMMA TypFlach ==
  ASSUME BestandTypeOK
  PROVE  /\ hoch \in Nat /\ spk \in Nat /\ spk >= 1 /\ lokal \subseteq 1 .. hoch
         /\ gemeldetBis \in {-1} \cup (0 .. hoch) /\ vermerk \in (0 .. spk) \X (0 .. hoch)
         /\ anlauf \in [Anlauf -> Anruf(hoch, spk)]
         /\ pool \subseteq 1 .. hoch /\ relaySpk \in 0 .. spk
         /\ verbindung \in {"getrennt", "meldet", "login", "online"} /\ knapp \in BOOLEAN
         /\ bekannt \in BOOLEAN /\ stoerungen \in 0 .. STOERUNG_MAX
         /\ gezogen \in Seq(1 .. hoch) /\ offen \subseteq DOMAIN gezogen
         /\ verbraucht \subseteq 1 .. hoch
<1>1. hoch \in Nat /\ spk \in Nat BY VorratZahlen
<1> QED BY <1>1, TypTeile DEF GeraetTyp, AppTyp, RelayTyp, PeerTyp, SonstTyp

LEMMA StandTyp ==
  ASSUME BestandTypeOK
  PROVE  Stand(Bestand) = <<spk, Groesste(lokal)>>
         /\ Groesste(lokal) \in 0 .. hoch /\ \A l \in lokal : l <= Groesste(lokal)
<1>1. lokal \in SUBSET (0 .. hoch) /\ hoch \in Nat
  <2>1. hoch \in Nat /\ lokal \subseteq 1 .. hoch BY TypFlach
  <2> QED BY <2>1
<1>2. Groesste(lokal) \in 0 .. hoch /\ \A l \in lokal : l <= Groesste(lokal)
  <2>1. PICK h, L : h = hoch /\ L = lokal OBVIOUS
  <2>2. h \in Nat /\ L \in SUBSET (0 .. h) BY <1>1, <2>1
  <2>3. Groesste(L) \in 0 .. h /\ \A l \in L : l <= Groesste(L)
    BY <2>2, GroessteIst
  <2> QED BY <2>1, <2>3
<1>3. Stand(Bestand) = <<spk, Groesste(lokal)>>
  BY DEF Stand, Bestand
<1> QED BY <1>2, <1>3

(* The mark after an answer. *)
LEMMA MarkeTyp ==
  ASSUME BestandTypeOK, NEW b \in 0 .. hoch
  PROVE  /\ Groesste({b} \cup lokal) \in 0 .. hoch
         /\ \A l \in lokal : l <= Groesste({b} \cup lokal)
<1>1. PICK h, S : h = hoch /\ S = {b} \cup lokal OBVIOUS
<1>2. h \in Nat /\ S \in SUBSET (0 .. h) /\ lokal \subseteq S
  <2>1. hoch \in Nat /\ lokal \subseteq 1 .. hoch BY TypFlach
  <2> QED BY <1>1, <2>1
<1>3. Groesste(S) \in 0 .. h /\ \A l \in S : l <= Groesste(S)
  BY <1>2, GroessteIst
<1> QED BY <1>1, <1>2, <1>3

(* A call with another field. *)
LEMMA AnrufPh ==
  ASSUME NEW h, NEW s, NEW r \in Anruf(h, s), NEW p \in {"frei", "unterwegs", "angenommen"}
  PROVE  [r EXCEPT !.ph = p] \in Anruf(h, s)
BY DEF Anruf

LEMMA AnrufFuer ==
  ASSUME NEW h, NEW s, NEW r \in Anruf(h, s),
         NEW p \in {"verbinden", "nachschub", "ueberholt", "niemand"}
  PROVE  [r EXCEPT !.fuer = p] \in Anruf(h, s)
BY DEF Anruf

(* One call of _meldeAn takes another value. *)
LEMMA SetzeTyp ==
  ASSUME BestandTypeOK, NEW a \in Anlauf, NEW r, Setze(a, r), r \in Anruf(hoch, spk)
  PROVE  /\ \A b \in Anlauf : anlauf'[b] \in Anruf(hoch, spk)
         /\ \E f : anlauf' = [b \in Anlauf |-> f[b]]
<1>1. anlauf \in [Anlauf -> Anruf(hoch, spk)] BY TypFlach
<1>2. anlauf' = [anlauf EXCEPT ![a] = r] BY DEF Setze
<1>3. anlauf' \in [Anlauf -> Anruf(hoch, spk)] BY <1>1, <1>2
<1>4. anlauf' = [b \in Anlauf |-> anlauf'[b]] BY <1>3
<1>5. PICK f : f = anlauf' OBVIOUS
<1>6. anlauf' = [b \in Anlauf |-> f[b]] BY <1>4, <1>5
<1> QED BY <1>3, <1>6

LEMMA AnlaufBleibt ==
  ASSUME BestandTypeOK, UNCHANGED anlauf
  PROVE  /\ \A b \in Anlauf : anlauf'[b] \in Anruf(hoch, spk)
         /\ \E f : anlauf' = [b \in Anlauf |-> f[b]]
<1>1. anlauf \in [Anlauf -> Anruf(hoch, spk)] BY TypFlach
<1>2. anlauf' = [b \in Anlauf |-> anlauf[b]] BY <1>1
<1>3. PICK f : f = anlauf OBVIOUS
<1>4. anlauf' = [b \in Anlauf |-> f[b]] BY <1>2, <1>3
<1> QED BY <1>1, <1>4

LEMMA OhneAnmeldungTyp ==
  ASSUME BestandTypeOK, VerbindeOhneAnmeldung
  PROVE  BestandTypeOK'
<1>1. UNCHANGED <<lokal, hoch, spk, gemeldetBis, vermerk, knapp, anlauf, bekannt, pool,
                  relaySpk, gezogen, offen, verbraucht, stoerungen>> /\ verbindung' = "login"
  BY DEF VerbindeOhneAnmeldung, geraet, meta, relay, peers
<1> QED BY <1>1, TypFlach, AnlaufBleibt, TypOhneGeraet

LEMMA LoginTyp ==
  ASSUME BestandTypeOK, Login
  PROVE  BestandTypeOK'
<1>1. UNCHANGED <<lokal, hoch, spk, bekannt, pool, relaySpk,
                  gezogen, offen, verbraucht, stoerungen>>
  BY DEF Login, geraet, relay, peers
<1>2. /\ verbindung' \in {"getrennt", "meldet", "login", "online"} /\ knapp' \in BOOLEAN
      /\ gemeldetBis' \in {-1} \cup (0 .. hoch) /\ vermerk' \in (0 .. spk) \X (0 .. hoch)
  <2>1. CASE bekannt
    <3>1. verbindung' = "online" /\ knapp' \in BOOLEAN
          /\ gemeldetBis' = gemeldetBis /\ vermerk' = vermerk
      BY <2>1 DEF Login, meta
    <3> QED BY <3>1, TypFlach
  <2>2. CASE ~bekannt
    <3>1. verbindung' = "getrennt" /\ knapp' = knapp
          /\ gemeldetBis' = -1 /\ vermerk' = <<0, 0>>
      BY <2>2 DEF Login, Nie, OhneVermerk
    <3>2. 0 \in 0 .. spk /\ 0 \in 0 .. hoch BY TypFlach
    <3> QED BY <3>1, <3>2, TypFlach
  <2> QED BY <2>1, <2>2
<1>3. UNCHANGED anlauf BY DEF Login
<1> QED BY <1>1, <1>2, <1>3, AnlaufBleibt, TypFlach, TypOhneGeraet

LEMMA NimmtTyp ==
  ASSUME BestandTypeOK, NEW a \in Anlauf, RelayNimmt(a)
  PROVE  BestandTypeOK'
<1>1. /\ UNCHANGED <<lokal, hoch, spk, gemeldetBis, vermerk, verbindung, knapp,
                     gezogen, offen, verbraucht, stoerungen>>
      /\ Setze(a, [anlauf[a] EXCEPT !.ph = "angenommen"])
      /\ bekannt' = TRUE /\ pool' = anlauf[a].ids /\ relaySpk' = anlauf[a].spk
  BY DEF RelayNimmt, geraet, meta, peers
<1>2. PICK r : r = anlauf[a] OBVIOUS
<1>3. r \in Anruf(hoch, spk) BY <1>2, TypFlach
<1>4. r.ids \in SUBSET (1 .. hoch) /\ r.spk \in 0 .. spk BY <1>3, AnrufFelder
<1>5. [r EXCEPT !.ph = "angenommen"] \in Anruf(hoch, spk) BY <1>3, AnrufPh
<1>6. PICK q : q = [r EXCEPT !.ph = "angenommen"] OBVIOUS
<1>7. /\ \A b \in Anlauf : anlauf'[b] \in Anruf(hoch, spk)
      /\ \E f : anlauf' = [b \in Anlauf |-> f[b]]
  BY <1>1, <1>2, <1>5, <1>6, SetzeTyp
<1> QED BY <1>1, <1>2, <1>4, <1>7, TypFlach, TypOhneGeraet

(* A step of a call that ends with the request taken back or done with. *)
LEMMA EndeTyp ==
  ASSUME BestandTypeOK, NEW a \in Anlauf, NEW r,
         Setze(a, r), r \in Anruf(hoch, spk),
         UNCHANGED <<lokal, hoch, spk, knapp, bekannt, pool, relaySpk, gezogen, offen, verbraucht>>,
         gemeldetBis' \in {-1} \cup (0 .. hoch), vermerk' \in (0 .. spk) \X (0 .. hoch),
         verbindung' \in {"getrennt", "login", verbindung}, stoerungen' \in 0 .. STOERUNG_MAX
  PROVE  BestandTypeOK'
<1>1. /\ \A b \in Anlauf : anlauf'[b] \in Anruf(hoch, spk)
      /\ \E f : anlauf' = [b \in Anlauf |-> f[b]]
  BY SetzeTyp
<1>2. verbindung' \in {"getrennt", "meldet", "login", "online"} BY TypFlach
<1> QED BY <1>1, <1>2, TypFlach, TypOhneGeraet

LEMMA FreiPasst == ASSUME BestandTypeOK PROVE Frei \in Anruf(hoch, spk)
<1>1. PICK h, s : h = hoch /\ s = spk OBVIOUS
<1>2. h \in Nat /\ s \in Nat BY <1>1, TypFlach
<1>3. Frei \in Anruf(h, s) BY <1>2, FreiTyp
<1> QED BY <1>1, <1>3

LEMMA AbgelehntTyp ==
  ASSUME BestandTypeOK, NEW a \in Anlauf, RelayLehntAb(a)
  PROVE  BestandTypeOK'
<1>1. /\ UNCHANGED <<lokal, hoch, spk, gemeldetBis, vermerk, knapp, bekannt, pool, relaySpk,
                     gezogen, offen, verbraucht, stoerungen>>
      /\ Setze(a, Frei) /\ verbindung' \in {"getrennt", "login", verbindung}
  BY DEF RelayLehntAb, geraet, meta, relay, peers
<1>2. PICK r : r = Frei OBVIOUS
<1>3. r \in Anruf(hoch, spk) BY <1>2, FreiPasst
<1>4. /\ gemeldetBis' \in {-1} \cup (0 .. hoch) /\ vermerk' \in (0 .. spk) \X (0 .. hoch)
      /\ stoerungen' \in 0 .. STOERUNG_MAX
  BY <1>1, TypFlach
<1> QED BY <1>1, <1>2, <1>3, <1>4, EndeTyp

LEMMA AntwortTyp ==
  ASSUME BestandTypeOK, NEW a \in Anlauf, AntwortKommt(a)
  PROVE  BestandTypeOK'
<1>1. /\ UNCHANGED <<lokal, hoch, spk, knapp, bekannt, pool, relaySpk,
                     gezogen, offen, verbraucht, stoerungen>>
      /\ Setze(a, Frei) /\ verbindung' \in {"getrennt", "login", verbindung}
      /\ gemeldetBis' = Groesste({anlauf[a].bis} \cup lokal)
      /\ vermerk' = Stand(Bestand)
  BY DEF AntwortKommt, geraet, relay, peers
<1>2. PICK r : r = Frei OBVIOUS
<1>3. r \in Anruf(hoch, spk) BY <1>2, FreiPasst
<1>4. gemeldetBis' \in {-1} \cup (0 .. hoch)
  <2>1. PICK q : q = anlauf[a] OBVIOUS
  <2>2. q \in Anruf(hoch, spk) BY <2>1, TypFlach
  <2>3. PICK b : b = q.bis OBVIOUS
  <2>4. b \in 0 .. hoch BY <2>2, <2>3, AnrufFelder
  <2> QED BY <1>1, <2>1, <2>3, <2>4, MarkeTyp
<1>5. vermerk' \in (0 .. spk) \X (0 .. hoch)
  <2>1. spk \in 0 .. spk BY TypFlach
  <2> QED BY <1>1, <2>1, StandTyp
<1>6. stoerungen' \in 0 .. STOERUNG_MAX BY <1>1, TypFlach
<1> QED BY <1>1, <1>2, <1>3, <1>4, <1>5, <1>6, EndeTyp

LEMMA StoerungTyp ==
  ASSUME BestandTypeOK, Stoerung
  PROVE  stoerungen' \in 0 .. STOERUNG_MAX /\ stoerungen' # 0
<1>1. STOERUNG_MAX \in Nat BY VorratSchranken
<1>2. stoerungen \in 0 .. STOERUNG_MAX BY TypFlach
<1> QED BY <1>1, <1>2 DEF Stoerung

LEMMA ScheitertTyp ==
  ASSUME BestandTypeOK, NEW a \in Anlauf, Scheitert(a)
  PROVE  BestandTypeOK'
<1>1. PICK r : r = IF anlauf[a].ph = "unterwegs" THEN [anlauf[a] EXCEPT !.fuer = "niemand"]
                     ELSE Frei
  OBVIOUS
<1>2. /\ UNCHANGED <<lokal, hoch, spk, gemeldetBis, vermerk, knapp, bekannt, pool, relaySpk,
                     gezogen, offen, verbraucht>>
      /\ Setze(a, r) /\ verbindung' \in {"getrennt", "login", verbindung}
  BY <1>1 DEF Scheitert, geraet, meta, relay, peers
<1>3. r \in Anruf(hoch, spk)
  <2>1. PICK q : q = anlauf[a] OBVIOUS
  <2>2. q \in Anruf(hoch, spk) BY <2>1, TypFlach
  <2>3. [q EXCEPT !.fuer = "niemand"] \in Anruf(hoch, spk) BY <2>2, AnrufFuer
  <2> QED BY <1>1, <2>1, <2>3, FreiPasst
<1>4. /\ gemeldetBis' \in {-1} \cup (0 .. hoch) /\ vermerk' \in (0 .. spk) \X (0 .. hoch)
  BY <1>2, TypFlach
<1>5. stoerungen' \in 0 .. STOERUNG_MAX BY StoerungTyp DEF Scheitert
<1> QED BY <1>2, <1>3, <1>4, <1>5, EndeTyp

LEMMA VerhalltTyp ==
  ASSUME BestandTypeOK, NEW a \in Anlauf, Verhallt(a)
  PROVE  BestandTypeOK'
<1>1. /\ UNCHANGED <<lokal, hoch, spk, gemeldetBis, vermerk, knapp, bekannt, pool, relaySpk,
                     gezogen, offen, verbraucht, stoerungen>>
      /\ Setze(a, Frei) /\ verbindung' \in {"getrennt", "login", verbindung}
  BY DEF Verhallt, geraet, meta, relay, peers
<1>2. PICK r : r = Frei OBVIOUS
<1>3. r \in Anruf(hoch, spk) BY <1>2, FreiPasst
<1>4. /\ gemeldetBis' \in {-1} \cup (0 .. hoch) /\ vermerk' \in (0 .. spk) \X (0 .. hoch)
      /\ stoerungen' \in 0 .. STOERUNG_MAX
  BY <1>1, TypFlach
<1> QED BY <1>1, <1>2, <1>3, <1>4, EndeTyp

LEMMA AbrissTyp ==
  ASSUME BestandTypeOK, Abriss
  PROVE  BestandTypeOK'
<1>1. /\ UNCHANGED <<lokal, hoch, spk, gemeldetBis, vermerk, bekannt, pool, relaySpk,
                     gezogen, offen, verbraucht>>
      /\ verbindung' = "getrennt" /\ knapp' = FALSE
  BY DEF Abriss, geraet, meta, relay, peers
<1>2. stoerungen' \in 0 .. STOERUNG_MAX
  <2>1. CASE Ruhig BY <2>1, TypFlach DEF Abriss
  <2>2. CASE ~Ruhig BY <2>2, StoerungTyp DEF Abriss
  <2> QED BY <2>1, <2>2
<1>3. PICK f : f = [a \in Anlauf |-> IF anlauf[a].fuer = "verbinden"
                                       THEN [anlauf[a] EXCEPT !.fuer = "ueberholt"] ELSE anlauf[a]]
  OBVIOUS
<1>4. anlauf' = f BY <1>3 DEF Abriss
<1>5. ASSUME NEW a \in Anlauf PROVE anlauf'[a] \in Anruf(hoch, spk)
  <2>1. PICK r : r = anlauf[a] OBVIOUS
  <2>2. r \in Anruf(hoch, spk) BY <2>1, TypFlach
  <2>3. anlauf'[a] = IF r.fuer = "verbinden" THEN [r EXCEPT !.fuer = "ueberholt"] ELSE r
    BY <1>3, <1>4, <2>1
  <2>4. [r EXCEPT !.fuer = "ueberholt"] \in Anruf(hoch, spk) BY <2>2, AnrufFuer
  <2> QED BY <2>2, <2>3, <2>4
<1>6. \E q : anlauf' = [a \in Anlauf |-> q[a]]
  <2>1. f = [a \in Anlauf |-> f[a]] BY <1>3
  <2> QED BY <1>4, <2>1
<1> QED BY <1>1, <1>2, <1>5, <1>6, TypFlach, TypOhneGeraet

LEMMA AbsturzTyp ==
  ASSUME BestandTypeOK, Absturz
  PROVE  BestandTypeOK'
<1>1. /\ UNCHANGED <<gemeldetBis, vermerk, bekannt, pool, relaySpk, gezogen, offen, verbraucht>>
      /\ verbindung' = "getrennt" /\ knapp' = FALSE /\ Stoerung
  BY DEF Absturz, meta, relay, peers
<1>2. GeraetSchritt BY AbsturzIst
<1>3. /\ hoch \in Nat /\ hoch' \in Nat /\ hoch <= hoch'
      /\ spk \in Nat /\ spk' \in Nat /\ spk <= spk' /\ GeraetTyp'
  BY <1>2, GeraetSchrittTyp
<1>4. AppTyp(hoch, spk)' /\ PeerTyp(hoch)' BY <1>1, <1>3, UebrigesWaechst
<1>5. RelayTyp(hoch, spk)' BY <1>1, <1>3, PoolWaechst
<1>6. SonstTyp' BY <1>1, StoerungTyp, TypFlach DEF SonstTyp
<1>7. PICK f : f = [a \in Anlauf |-> IF anlauf[a].ph = "unterwegs"
                                       THEN [anlauf[a] EXCEPT !.fuer = "niemand"] ELSE Frei]
  OBVIOUS
<1>8. anlauf' = f BY <1>7 DEF Absturz
<1>9. ASSUME NEW a \in Anlauf PROVE f[a] \in Anruf(hoch', spk')
  <2>1. PICK r : r = anlauf[a] OBVIOUS
  <2>2. PICK h1, h2, s1, s2 : h1 = hoch /\ h2 = hoch' /\ s1 = spk /\ s2 = spk' OBVIOUS
  <2>3. r \in Anruf(h1, s1) BY <2>1, <2>2, TypFlach
  <2>4. r \in Anruf(h2, s2) BY <1>3, <2>2, <2>3, AnrufWaechst
  <2>5. [r EXCEPT !.fuer = "niemand"] \in Anruf(h2, s2) BY <2>4, AnrufFuer
  <2>6. Frei \in Anruf(h2, s2) BY <1>3, <2>2, FreiTyp
  <2>7. f[a] = IF r.ph = "unterwegs" THEN [r EXCEPT !.fuer = "niemand"] ELSE Frei
    BY <1>7, <2>1
  <2> QED BY <2>2, <2>5, <2>6, <2>7
<1>10. f \in [Anlauf -> Anruf(hoch', spk')] BY <1>7, <1>9
<1>11. (anlauf \in [Anlauf -> Anruf(hoch, spk)])' BY <1>8, <1>10 DEF Anruf
<1> QED BY <1>3, <1>4, <1>5, <1>6, <1>11, TypTeile, PTL

LEMMA VergisstTyp ==
  ASSUME BestandTypeOK, RelayVergisst
  PROVE  BestandTypeOK'
<1>1. /\ UNCHANGED <<lokal, hoch, spk, gemeldetBis, vermerk, verbindung, knapp, anlauf,
                     gezogen, offen, verbraucht>>
      /\ bekannt' = FALSE /\ pool' = {} /\ relaySpk' = 0 /\ Stoerung
  BY DEF RelayVergisst, geraet, meta, peers
<1>2. relaySpk' \in 0 .. spk /\ pool' \subseteq 1 .. hoch BY <1>1, TypFlach
<1>3. bekannt' \in BOOLEAN BY <1>1
<1> QED BY <1>1, <1>2, <1>3, TypFlach, StoerungTyp, AnlaufBleibt, TypOhneGeraet

(* The steps of the peers leave everything but their own part alone. *)
LEMMA TypNurPeers ==
  ASSUME BestandTypeOK, UNCHANGED <<hoch, spk, gemeldetBis, vermerk, verbindung, knapp, anlauf,
                                    bekannt, relaySpk, stoerungen>>,
         lokal' \subseteq 1 .. hoch, pool' \subseteq 1 .. hoch,
         gezogen' \in Seq(1 .. hoch), offen' \subseteq DOMAIN gezogen', verbraucht' \subseteq 1 .. hoch
  PROVE  BestandTypeOK'
<1>1. GeraetTyp' BY TypTeile DEF GeraetTyp
<1>2. AppTyp(hoch, spk)' /\ RelayTyp(hoch, spk)' /\ PeerTyp(hoch)' /\ SonstTyp'
  BY TypTeile DEF AppTyp, RelayTyp, PeerTyp, SonstTyp
<1>3. (anlauf \in [Anlauf -> Anruf(hoch, spk)])' BY TypTeile DEF Anruf
<1> QED BY <1>1, <1>2, <1>3, TypTeile, PTL

(* A draw: which key, and what is left. *)
LEMMA ZieheIst ==
  ASSUME BestandTypeOK, PeerZieht
  PROVE  \E k \in pool :
           /\ pool' = pool \ {k}
           /\ gezogen' \in Seq(1 .. hoch) /\ Len(gezogen') = Len(gezogen) + 1
           /\ gezogen'[Len(gezogen) + 1] = k
           /\ \A i \in 1 .. Len(gezogen) : gezogen'[i] = gezogen[i]
           /\ offen' = offen \cup {Len(gezogen) + 1}
<1>1. PICK k \in Kleinste : pool' = pool \ {k} /\ gezogen' = Append(gezogen, k)
  BY DEF PeerZieht
<1>2. k \in pool BY <1>1 DEF Kleinste
<1>3. gezogen \in Seq(1 .. hoch) /\ k \in 1 .. hoch BY <1>2, TypFlach
<1>4. /\ gezogen' \in Seq(1 .. hoch) /\ Len(gezogen') = Len(gezogen) + 1
      /\ gezogen'[Len(gezogen) + 1] = k
      /\ \A i \in 1 .. Len(gezogen) : gezogen'[i] = gezogen[i]
  BY <1>1, <1>3
<1>5. offen' = offen \cup {Len(gezogen) + 1} BY <1>4 DEF PeerZieht
<1> QED BY <1>1, <1>2, <1>4, <1>5

LEMMA ZieheTyp ==
  ASSUME BestandTypeOK, PeerZieht
  PROVE  BestandTypeOK'
<1>1. UNCHANGED <<lokal, hoch, spk, gemeldetBis, vermerk, verbindung, knapp, anlauf,
                  bekannt, relaySpk, verbraucht, stoerungen>>
  BY DEF PeerZieht, geraet, meta
<1>2. /\ pool' \subseteq pool /\ gezogen' \in Seq(1 .. hoch)
      /\ Len(gezogen') = Len(gezogen) + 1 /\ offen' = offen \cup {Len(gezogen) + 1}
  BY ZieheIst
<1>3. offen' \subseteq DOMAIN gezogen'
  <2>1. gezogen \in Seq(1 .. hoch) /\ offen \subseteq DOMAIN gezogen BY TypFlach
  <2> QED BY <1>2, <2>1
<1> QED BY <1>1, <1>2, <1>3, TypFlach, TypNurPeers

LEMMA ErstnachrichtTyp ==
  ASSUME BestandTypeOK, Erstnachricht
  PROVE  BestandTypeOK'
<1>1. /\ UNCHANGED <<hoch, spk, gemeldetBis, vermerk, verbindung, knapp, anlauf, bekannt, pool,
                     relaySpk, gezogen, stoerungen>>
      /\ \E n \in offen : /\ offen' = offen \ {n} /\ lokal' = lokal \ {gezogen[n]}
                          /\ verbraucht' = verbraucht \cup ({gezogen[n]} \cap lokal)
  BY DEF Erstnachricht, meta, relay
<1>2. lokal' \subseteq lokal /\ offen' \subseteq offen /\ verbraucht' \subseteq verbraucht \cup lokal
  BY <1>1
<1>3. /\ lokal \subseteq 1 .. hoch /\ pool \subseteq 1 .. hoch /\ gezogen \in Seq(1 .. hoch)
      /\ offen \subseteq DOMAIN gezogen /\ verbraucht \subseteq 1 .. hoch
  BY TypFlach
<1>4. /\ lokal' \subseteq 1 .. hoch /\ pool' \subseteq 1 .. hoch /\ gezogen' \in Seq(1 .. hoch)
      /\ offen' \subseteq DOMAIN gezogen' /\ verbraucht' \subseteq 1 .. hoch
  BY <1>1, <1>2, <1>3
<1> QED BY <1>1, <1>4, TypNurPeers

LEMMA StottertTyp ==
  ASSUME BestandTypeOK, UNCHANGED vorratVars
  PROVE  BestandTypeOK'
<1>1. UNCHANGED <<lokal, hoch, spk, gemeldetBis, vermerk, verbindung, knapp, anlauf, bekannt, pool,
                  relaySpk, gezogen, offen, verbraucht, stoerungen>>
  BY DEF vorratVars, geraet, meta, relay, peers
<1> QED BY <1>1, TypFlach, TypNurPeers

LEMMA BestandInitTyp ==
  ASSUME VorratInit
  PROVE  BestandTypeOK
<1>1. VORRAT \in Nat /\ SPK_MAX \in Nat /\ STOERUNG_MAX \in Nat
  BY VorratAnnahme, VorratSchranken
<1>2. GeraetTyp BY <1>1 DEF VorratInit, GeraetTyp
<1>3. AppTyp(hoch, spk) BY <1>1 DEF VorratInit, AppTyp, Nie, OhneVermerk
<1>4. RelayTyp(hoch, spk) /\ PeerTyp(hoch) /\ SonstTyp
  <2>1. /\ hoch \in Nat /\ spk = 1 /\ verbindung = "getrennt" /\ knapp = FALSE
        /\ bekannt = FALSE /\ pool = {} /\ relaySpk = 0 /\ gezogen = <<>> /\ offen = {}
        /\ verbraucht = {} /\ stoerungen = 0
    BY <1>1 DEF VorratInit
  <2>2. RelayTyp(hoch, spk) BY <1>1, <2>1 DEF RelayTyp
  <2>3. gezogen \in Seq(1 .. hoch) BY <2>1
  <2>4. PeerTyp(hoch) BY <2>1, <2>3 DEF PeerTyp
  <2>5. knapp \in BOOLEAN /\ bekannt \in BOOLEAN BY <2>1
  <2>6. stoerungen \in 0 .. STOERUNG_MAX BY <1>1, <2>1
  <2>7. SonstTyp BY <2>1, <2>5, <2>6, Zenon DEF SonstTyp
  <2> QED BY <2>2, <2>4, <2>7
<1>5. anlauf \in [Anlauf -> Anruf(hoch, spk)]
  <2>1. PICK h, s : h = hoch /\ s = spk OBVIOUS
  <2>2. h \in Nat /\ s \in Nat BY <1>1, <2>1 DEF VorratInit
  <2>3. Frei \in Anruf(h, s) BY <2>2, FreiTyp
  <2> QED BY <2>1, <2>3 DEF VorratInit
<1> QED BY <1>2, <1>3, <1>4, <1>5, TypTeile

LEMMA BestandTypSchritt ==
  ASSUME BestandTypeOK, [VorratNext]_vorratVars
  PROVE  BestandTypeOK'
<1>1. CASE Verbinde BY <1>1, VerbindeTyp
<1>2. CASE VerbindeOhneAnmeldung BY <1>2, OhneAnmeldungTyp
<1>3. CASE Login BY <1>3, LoginTyp
<1>4. CASE FuelleNachUndMelde BY <1>4, FuelleNachTyp
<1>5. ASSUME NEW a \in Anlauf, RelayNimmt(a) PROVE BestandTypeOK' BY <1>5, NimmtTyp
<1>6. ASSUME NEW a \in Anlauf, RelayLehntAb(a) PROVE BestandTypeOK' BY <1>6, AbgelehntTyp
<1>7. ASSUME NEW a \in Anlauf, AntwortKommt(a) PROVE BestandTypeOK' BY <1>7, AntwortTyp
<1>8. ASSUME NEW a \in Anlauf, Scheitert(a) PROVE BestandTypeOK' BY <1>8, ScheitertTyp
<1>9. ASSUME NEW a \in Anlauf, Verhallt(a) PROVE BestandTypeOK' BY <1>9, VerhalltTyp
<1>10. CASE Abriss BY <1>10, AbrissTyp
<1>11. CASE Absturz BY <1>11, AbsturzTyp
<1>12. CASE RelayVergisst BY <1>12, VergisstTyp
<1>13. CASE PeerZieht BY <1>13, ZieheTyp
<1>14. CASE Erstnachricht BY <1>14, ErstnachrichtTyp
<1>15. CASE UNCHANGED vorratVars BY <1>15, StottertTyp
<1> QED BY <1>1, <1>2, <1>3, <1>4, <1>5, <1>6, <1>7, <1>8, <1>9, <1>10, <1>11, <1>12, <1>13,
           <1>14, <1>15 DEF VorratNext

(* PrekeySupply: every mark, note, id and request names keys and signed    *)
(* prekeys that exist (_fuelleVorratAuf, _meldeAn, /register, /prekey).    *)
THEOREM BestandTyp == (VorratSpec => []BestandTypeOK)
<1>1. VorratInit => BestandTypeOK BY BestandInitTyp
<1>2. BestandTypeOK /\ [VorratNext]_vorratVars => BestandTypeOK' BY BestandTypSchritt
<1> QED BY <1>1, <1>2, PTL DEF VorratSpec

----------------------------------------------------------------------------
(* The newest HOECHSTZAHL numbers are at hand or used up. *)
NeuesteDa == \A k \in 1 .. hoch : k > hoch - HOECHSTZAHL => k \in lokal \cup verbraucht

LEMMA NeuesteWaechst ==
  ASSUME BestandTypeOK, NeuesteDa, GeraetSchritt, UNCHANGED verbraucht
  PROVE  NeuesteDa'
<1>1. HOECHSTZAHL \in Nat BY VorratAnnahme
<1>2. hoch \in Nat /\ hoch' \in Nat /\ hoch <= hoch' BY GeraetSchrittTyp
<1>3. \A k \in lokal \cup (hoch + 1 .. hoch') : k > hoch' - HOECHSTZAHL => k \in lokal'
  BY DEF GeraetSchritt, Gewachsen
<1>4. ASSUME NEW k \in 1 .. hoch', k > hoch' - HOECHSTZAHL PROVE k \in lokal' \cup verbraucht'
  <2>1. CASE k > hoch
    <3>1. k \in hoch + 1 .. hoch' BY <1>2, <2>1
    <3> QED BY <1>3, <1>4, <3>1
  <2>2. CASE k <= hoch
    <3>1. k \in Int /\ hoch \in Int BY <1>2
    <3>2. k \in 1 .. hoch BY <2>2, <3>1
    <3>3. k > hoch - HOECHSTZAHL
      <4>1. PICK n1 : n1 = hoch' OBVIOUS
      <4>2. n1 \in Nat /\ hoch <= n1 /\ k > n1 - HOECHSTZAHL BY <1>2, <1>4, <4>1
      <4> QED BY <1>1, <3>1, <4>2
    <3>4. k \in lokal \cup verbraucht BY <3>2, <3>3 DEF NeuesteDa
    <3> QED BY <1>3, <1>4, <3>4
  <2> QED BY <1>2, <2>1, <2>2
<1> QED BY <1>4 DEF NeuesteDa

LEMMA NeuesteSchritt ==
  ASSUME BestandTypeOK, NeuesteDa, [VorratNext]_vorratVars
  PROVE  NeuesteDa'
<1>1. CASE Verbinde
  <2>1. GeraetSchritt /\ UNCHANGED verbraucht BY <1>1, VerbindeIst
  <2> QED BY <2>1, NeuesteWaechst
<1>2. CASE FuelleNachUndMelde
  <2>1. GeraetSchritt /\ UNCHANGED verbraucht BY <1>2, FuelleNachIst
  <2> QED BY <2>1, NeuesteWaechst
<1>3. CASE Absturz
  <2>1. GeraetSchritt /\ UNCHANGED verbraucht
    BY <1>3, AbsturzIst DEF Absturz, peers
  <2> QED BY <2>1, NeuesteWaechst
<1>4. CASE Erstnachricht
  <2>1. PICK n \in offen : /\ lokal' = lokal \ {gezogen[n]}
                           /\ verbraucht' = verbraucht \cup ({gezogen[n]} \cap lokal)
    BY <1>4 DEF Erstnachricht
  <2>2. hoch' = hoch BY <1>4 DEF Erstnachricht
  <2>3. \A k : k \in lokal \cup verbraucht => k \in lokal' \cup verbraucht' BY <2>1
  <2> QED BY <2>2, <2>3, Zenon DEF NeuesteDa
<1>5. CASE UNCHANGED <<lokal, hoch, verbraucht>> BY <1>5 DEF NeuesteDa
<1>6. VerbindeOhneAnmeldung \/ Login \/ Abriss \/ RelayVergisst
        \/ PeerZieht
        => UNCHANGED <<lokal, hoch, verbraucht>>
  BY DEF VerbindeOhneAnmeldung, Login, Abriss, RelayVergisst,
         PeerZieht, geraet, peers
<1>7. \A a \in Anlauf :
        RelayNimmt(a) \/ RelayLehntAb(a) \/ AntwortKommt(a)
          \/ Scheitert(a) \/ Verhallt(a)
        => UNCHANGED <<lokal, hoch, verbraucht>>
  BY DEF RelayNimmt, RelayLehntAb, AntwortKommt, Scheitert,
         Verhallt, geraet, peers
<1>8. UNCHANGED vorratVars => UNCHANGED <<lokal, hoch, verbraucht>>
  BY DEF vorratVars, geraet, peers
<1> QED BY <1>1, <1>2, <1>3, <1>4, <1>5, <1>6, <1>7, <1>8 DEF VorratNext

(* PrekeySupply, through every loss, crash and forgetting: of the newest   *)
(* HOECHSTZAHL numbers the device still has each key no first message has  *)
(* used.  _fuelleVorratAuf cuts nothing else (889-892).                    *)
THEOREM NeuesteBleiben == (VorratSpec => []NeuesteDa)
<1>1. VorratInit => NeuesteDa
  <2>1. HOECHSTZAHL \in Nat /\ VORRAT \in Nat BY VorratAnnahme
  <2> QED BY <2>1 DEF VorratInit, NeuesteDa
<1>2. BestandTypeOK /\ NeuesteDa /\ [VorratNext]_vorratVars => NeuesteDa' BY NeuesteSchritt
<1>3. VorratSpec => []BestandTypeOK BY BestandTyp
<1> QED BY <1>1, <1>2, <1>3, PTL DEF VorratSpec

----------------------------------------------------------------------------
(* As long as nothing is lost: one call at a time, and every key the relay *)
(* gets is one it never had.                                               *)
Gezogene == {gezogen[i] : i \in DOMAIN gezogen}
Angebot == pool \cup Gezogene
Beschaeftigt(a) == anlauf[a].ph # "frei"
Steht == \E a \in Anlauf : anlauf[a].ph = "angenommen"

EinAnruf == \A a, b \in Anlauf : Beschaeftigt(a) /\ Beschaeftigt(b) => a = b
Zustaendig ==
    \A a \in Anlauf : Beschaeftigt(a) =>
      \/ verbindung = "meldet" /\ anlauf[a].fuer = "verbinden"
      \/ verbindung = "online" /\ ~knapp /\ anlauf[a].fuer = "nachschub"
Eingetragen ==
    vermerk # <<0, 0>> \/ verbindung = "login" \/ Steht => bekannt
GezogenEinmal ==
    /\ pool \cap Gezogene = {}
    /\ \A i, j \in DOMAIN gezogen : gezogen[i] = gezogen[j] => i = j
UnterwegsNeu ==
    \A a \in Anlauf : anlauf[a].ph = "unterwegs" => anlauf[a].ids \cap Angebot = {}
LokalNeu == ~Steht => \A k \in lokal : k > gemeldetBis => k \notin Angebot

Ungestoert == /\ EinAnruf /\ Zustaendig /\ Eingetragen /\ GezogenEinmal
              /\ UnterwegsNeu /\ LokalNeu
EInv == stoerungen = 0 => Ungestoert

LEMMA AngebotTyp ==
  ASSUME BestandTypeOK
  PROVE  Angebot \subseteq 1 .. hoch /\ Gezogene \subseteq 1 .. hoch
<1>1. gezogen \in Seq(1 .. hoch) /\ pool \subseteq 1 .. hoch BY TypFlach
<1>2. \A i \in DOMAIN gezogen : gezogen[i] \in 1 .. hoch
  <2>1. DOMAIN gezogen = 1 .. Len(gezogen) BY <1>1, LenProperties
  <2> QED BY <1>1, <2>1, ElementOfSeq
<1> QED BY <1>1, <1>2 DEF Angebot, Gezogene

(* With no other call under way none ages. *)
LEMMA AlleinOhneAltern ==
  ASSUME BestandTypeOK, NEW a \in Anlauf, NEW fuer, MitNeuem(a, fuer),
         \A b \in Anlauf : ~Beschaeftigt(b)
  PROVE  anlauf' = [anlauf EXCEPT ![a] = NeuerAnruf(fuer)]
<1>1. \A b \in Anlauf : anlauf[b].ph = "frei" BY DEF Beschaeftigt
<1>2. anlauf \in [Anlauf -> Anruf(hoch, spk)] BY TypFlach
<1>3. Gealtert = anlauf BY <1>1, <1>2 DEF Gealtert
<1> QED BY <1>3 DEF MitNeuem

(* A call starts: Verbinde and FuelleNachUndMelde. *)
LEMMA MeldendUngestoert ==
  ASSUME BestandTypeOK, Ungestoert, GeraetSchritt,
         NEW fuer, NEW a \in Anlauf, MitNeuem(a, fuer), \A b \in Anlauf : ~Beschaeftigt(b),
         \/ verbindung' = "meldet" /\ fuer = "verbinden"
         \/ verbindung' = "online" /\ knapp' = FALSE /\ fuer = "nachschub",
         UNCHANGED <<gemeldetBis, vermerk, bekannt, pool, gezogen>>
  PROVE  Ungestoert'
<1>1. anlauf \in [Anlauf -> Anruf(hoch, spk)] BY TypFlach
<1>2. PICK r : r = NeuerAnruf(fuer) OBVIOUS
<1>3. anlauf' = [anlauf EXCEPT ![a] = r] BY <1>2, AlleinOhneAltern
<1>4. /\ r.ph = "unterwegs" /\ r.fuer = fuer /\ r.ids = {k \in lokal' : k > gemeldetBis}
  BY <1>2 DEF NeuerAnruf
<1>5. anlauf'[a] = r /\ \A b \in Anlauf : b # a => anlauf'[b] = anlauf[b] BY <1>1, <1>3
<1>6. \A b \in Anlauf : anlauf[b].ph = "frei" BY DEF Beschaeftigt
<1>7. \A b \in Anlauf : Beschaeftigt(b)' <=> b = a BY <1>4, <1>5, <1>6 DEF Beschaeftigt
<1>8. ~Steht /\ ~Steht' BY <1>4, <1>5, <1>6 DEF Steht
<1>9. Angebot' = Angebot /\ Gezogene' = Gezogene BY DEF Angebot, Gezogene
<1>10. \A k \in lokal' : k > gemeldetBis => k \notin Angebot
  <2>1. TAKE k \in lokal'
  <2>2. HAVE k > gemeldetBis
  <2>3. lokal' \subseteq lokal \cup (hoch + 1 .. hoch') BY DEF GeraetSchritt, Gewachsen
  <2>4. CASE k \in lokal BY <1>8, <2>2, <2>4 DEF Ungestoert, LokalNeu
  <2>5. CASE k \in hoch + 1 .. hoch'
    <3>1. hoch \in Nat /\ hoch' \in Nat BY GeraetSchrittTyp
    <3>2. k \notin 1 .. hoch BY <2>5, <3>1
    <3> QED BY <3>2, AngebotTyp
  <2> QED BY <2>1, <2>3, <2>4, <2>5
<1>11. EinAnruf' BY <1>7 DEF EinAnruf
<1>12. Zustaendig' BY <1>4, <1>5, <1>7 DEF Zustaendig
<1>13. Eingetragen' BY <1>8 DEF Ungestoert, Eingetragen
<1>14. GezogenEinmal' BY <1>9 DEF Ungestoert, GezogenEinmal
<1>15. UnterwegsNeu'
  <2>1. ASSUME NEW b \in Anlauf, anlauf'[b].ph = "unterwegs" PROVE anlauf'[b].ids \cap Angebot = {}
    <3>1. b = a BY <1>5, <1>6, <2>1
    <3> QED BY <1>4, <1>5, <1>10, <3>1
  <2> QED BY <1>9, <2>1 DEF UnterwegsNeu
<1>16. LokalNeu' BY <1>9, <1>10 DEF LokalNeu
<1> QED BY <1>11, <1>12, <1>13, <1>14, <1>15, <1>16 DEF Ungestoert

LEMMA VerbindeUngestoert ==
  ASSUME BestandTypeOK, Ungestoert, Verbinde
  PROVE  Ungestoert'
<1>1. /\ GeraetSchritt /\ verbindung = "getrennt" /\ verbindung' = "meldet"
      /\ \E a \in Anlauf : Meldet(a, lokal, hoch, anlauf, "verbinden")
      /\ UNCHANGED <<gemeldetBis, vermerk, bekannt, pool, gezogen>>
  BY VerbindeIst
<1>2. \A b \in Anlauf : ~Beschaeftigt(b) BY <1>1 DEF Ungestoert, Zustaendig
<1>3. PICK a, fuer :
        a \in Anlauf /\ MitNeuem(a, fuer) /\ fuer = "verbinden"
  <2>1. PICK a, L, h, anrufe, f :
          a \in Anlauf /\ anrufe = anlauf /\ f = "verbinden" /\ Meldet(a, L, h, anrufe, f)
    BY <1>1
  <2> QED BY <2>1, MeldetMitNeuem
<1> QED BY <1>1, <1>2, <1>3, MeldendUngestoert

LEMMA FuelleNachUngestoert ==
  ASSUME BestandTypeOK, Ungestoert, FuelleNachUndMelde
  PROVE  Ungestoert'
<1>1. /\ GeraetSchritt /\ verbindung = "online" /\ verbindung' = "online"
      /\ knapp /\ knapp' = FALSE
      /\ \E a \in Anlauf : \E L1, h1 : /\ Ergaenzt(lokal, hoch, L1, h1) /\ h1 = hoch + VORRAT
                                       /\ Meldet(a, L1, h1, Gealtert, "nachschub")
      /\ UNCHANGED <<gemeldetBis, vermerk, bekannt, pool, gezogen>>
  BY FuelleNachIst
<1>2. \A b \in Anlauf : ~Beschaeftigt(b) BY <1>1 DEF Ungestoert, Zustaendig
<1>3. PICK a, fuer :
        a \in Anlauf /\ MitNeuem(a, fuer) /\ fuer = "nachschub"
  <2>1. PICK a, L, h, anrufe, f :
          a \in Anlauf /\ anrufe = Gealtert /\ f = "nachschub" /\ Meldet(a, L, h, anrufe, f)
    BY <1>1
  <2> QED BY <2>1, MeldetMitNeuem
<1> QED BY <1>1, <1>2, <1>3, MeldendUngestoert

(* A step that leaves every call, and the keys outside, alone. *)
LEMMA GleichUngestoert ==
  ASSUME BestandTypeOK, Ungestoert,
         \A a \in Anlauf : anlauf'[a] = anlauf[a],
         UNCHANGED <<lokal, gemeldetBis, vermerk, bekannt, pool, gezogen>>,
         \/ UNCHANGED <<verbindung, knapp>>
         \/ (\A a \in Anlauf : ~Beschaeftigt(a)) /\ (verbindung' = "login" => bekannt)
  PROVE  Ungestoert'
<1>1. Angebot' = Angebot /\ Gezogene' = Gezogene BY DEF Angebot, Gezogene
<1>2. Steht' <=> Steht BY DEF Steht
<1>3. \A a \in Anlauf : Beschaeftigt(a)' <=> Beschaeftigt(a) BY DEF Beschaeftigt
<1>4. EinAnruf' BY <1>3 DEF Ungestoert, EinAnruf
<1>5. Zustaendig' BY <1>3 DEF Ungestoert, Zustaendig
<1>6. Eingetragen'
  <2>1. CASE verbindung' = verbindung BY <1>2, <2>1 DEF Ungestoert, Eingetragen
  <2>2. CASE verbindung' = "login" => bekannt BY <1>2, <2>2 DEF Ungestoert, Eingetragen
  <2> QED BY <2>1, <2>2
<1>7. GezogenEinmal' BY <1>1 DEF Ungestoert, GezogenEinmal
<1>8. UnterwegsNeu' BY <1>1 DEF Ungestoert, UnterwegsNeu
<1>9. LokalNeu' BY <1>1, <1>2 DEF Ungestoert, LokalNeu
<1> QED BY <1>4, <1>5, <1>6, <1>7, <1>8, <1>9 DEF Ungestoert

LEMMA OhneAnmeldungUngestoert ==
  ASSUME BestandTypeOK, Ungestoert, VerbindeOhneAnmeldung
  PROVE  Ungestoert'
<1>1. /\ verbindung = "getrennt" /\ verbindung' = "login" /\ vermerk = Stand(Bestand)
      /\ UNCHANGED <<lokal, gemeldetBis, vermerk, bekannt, pool, gezogen, anlauf>>
  BY DEF VerbindeOhneAnmeldung, geraet, meta, relay, peers
<1>2. \A b \in Anlauf : ~Beschaeftigt(b) BY <1>1 DEF Ungestoert, Zustaendig
<1>3. vermerk # <<0, 0>>
  <2>1. spk >= 1 /\ spk \in Nat BY TypFlach
  <2>2. vermerk = <<spk, Groesste(lokal)>> BY <1>1, StandTyp
  <2> QED BY <2>1, <2>2
<1>4. bekannt BY <1>3 DEF Ungestoert, Eingetragen
<1> QED BY <1>1, <1>2, <1>4, GleichUngestoert

LEMMA LoginUngestoert ==
  ASSUME BestandTypeOK, Ungestoert, Login
  PROVE  Ungestoert'
<1>1. verbindung = "login" /\ bekannt
  BY DEF Login, Ungestoert, Eingetragen
<1>2. \A b \in Anlauf : ~Beschaeftigt(b) BY <1>1 DEF Ungestoert, Zustaendig
<1>3. \A b \in Anlauf : anlauf'[b] = anlauf[b]
  BY <1>2 DEF Login, Beschaeftigt
<1>4. verbindung' = "online" /\ UNCHANGED <<lokal, gemeldetBis, vermerk, bekannt, pool, gezogen>>
  BY <1>1 DEF Login, geraet, meta, relay, peers
<1> QED BY <1>1, <1>2, <1>3, <1>4, GleichUngestoert

LEMMA NimmtUngestoert ==
  ASSUME BestandTypeOK, Ungestoert, NEW a \in Anlauf, RelayNimmt(a)
  PROVE  Ungestoert'
<1>1. /\ UNCHANGED <<lokal, gemeldetBis, vermerk, verbindung, knapp, gezogen>>
      /\ anlauf[a].ph = "unterwegs"
      /\ anlauf' = [anlauf EXCEPT ![a] = [anlauf[a] EXCEPT !.ph = "angenommen"]]
      /\ bekannt' = TRUE /\ pool' = anlauf[a].ids
  BY DEF RelayNimmt, Setze, geraet, meta, peers
<1>2. anlauf \in [Anlauf -> Anruf(hoch, spk)] BY TypFlach
<1>3. PICK r : r = anlauf[a] OBVIOUS
<1>4. /\ anlauf'[a] = [r EXCEPT !.ph = "angenommen"] /\ r \in Anruf(hoch, spk)
      /\ \A b \in Anlauf : b # a => anlauf'[b] = anlauf[b]
  BY <1>1, <1>2, <1>3
<1>5. anlauf'[a].ph = "angenommen" /\ anlauf'[a].fuer = r.fuer BY <1>4 DEF Anruf
<1>6. Beschaeftigt(a) BY <1>1 DEF Beschaeftigt
<1>7. \A b \in Anlauf : Beschaeftigt(b)' <=> b = a
  BY <1>4, <1>5, <1>6 DEF Beschaeftigt, Ungestoert, EinAnruf
<1>8. Steht' BY <1>5 DEF Steht
<1>9. Gezogene' = Gezogene BY <1>1 DEF Gezogene
<1>10. EinAnruf' BY <1>7 DEF EinAnruf
<1>11. Zustaendig'
  <2>1. \/ verbindung = "meldet" /\ r.fuer = "verbinden"
        \/ verbindung = "online" /\ ~knapp /\ r.fuer = "nachschub"
    BY <1>3, <1>6 DEF Ungestoert, Zustaendig
  <2> QED BY <1>1, <1>5, <1>7, <2>1 DEF Zustaendig
<1>12. Eingetragen' BY <1>1 DEF Eingetragen
<1>13. GezogenEinmal'
  <2>1. pool' \cap Gezogene = {} BY <1>1 DEF Ungestoert, UnterwegsNeu, Angebot
  <2> QED BY <1>1, <1>9, <2>1 DEF Ungestoert, GezogenEinmal
<1>14. UnterwegsNeu' BY <1>5, <1>7 DEF UnterwegsNeu, Beschaeftigt
<1>15. LokalNeu' BY <1>8 DEF LokalNeu
<1> QED BY <1>10, <1>11, <1>12, <1>13, <1>14, <1>15 DEF Ungestoert

(* A call ends; nothing else changes but what its end tells the app. *)
LEMMA EndeUngestoert ==
  ASSUME BestandTypeOK, Ungestoert, NEW a \in Anlauf,
         Beschaeftigt(a), anlauf' = [anlauf EXCEPT ![a] = Frei],
         UNCHANGED <<lokal, bekannt, pool, gezogen>>,
         verbindung' = "login" => bekannt, vermerk' # <<0, 0>> => bekannt,
         \A k \in lokal : k > gemeldetBis' => k \notin Angebot
  PROVE  Ungestoert'
<1>1. anlauf \in [Anlauf -> Anruf(hoch, spk)] BY TypFlach
<1>2. anlauf'[a].ph = "frei" /\ \A b \in Anlauf : b # a => anlauf'[b] = anlauf[b]
  BY <1>1 DEF Frei
<1>3. \A b \in Anlauf : anlauf'[b].ph = "frei"
  BY <1>2 DEF Ungestoert, EinAnruf, Beschaeftigt
<1>4. Angebot' = Angebot /\ Gezogene' = Gezogene BY DEF Angebot, Gezogene
<1>5. EinAnruf' BY <1>3 DEF EinAnruf, Beschaeftigt
<1>6. Zustaendig' BY <1>3 DEF Zustaendig, Beschaeftigt
<1>7. Eingetragen' BY <1>3 DEF Eingetragen, Steht
<1>8. GezogenEinmal' BY <1>4 DEF Ungestoert, GezogenEinmal
<1>9. UnterwegsNeu' BY <1>3 DEF UnterwegsNeu
<1>10. LokalNeu' BY <1>4 DEF LokalNeu
<1> QED BY <1>5, <1>6, <1>7, <1>8, <1>9, <1>10 DEF Ungestoert

LEMMA AbgelehntUngestoert ==
  ASSUME BestandTypeOK, Ungestoert, NEW a \in Anlauf, RelayLehntAb(a)
  PROVE  Ungestoert'
<1>1. /\ anlauf[a].ph = "unterwegs" /\ anlauf' = [anlauf EXCEPT ![a] = Frei]
      /\ verbindung' \in {"getrennt", verbindung}
      /\ UNCHANGED <<lokal, gemeldetBis, vermerk, bekannt, pool, gezogen>>
  BY DEF RelayLehntAb, Setze, geraet, meta, relay, peers
<1>2. Beschaeftigt(a) BY <1>1 DEF Beschaeftigt
<1>3. ~Steht BY <1>1, <1>2 DEF Ungestoert, EinAnruf, Steht, Beschaeftigt
<1>4. \A k \in lokal : k > gemeldetBis => k \notin Angebot BY <1>3 DEF Ungestoert, LokalNeu
<1>5. (verbindung' = "login" => bekannt) /\ (vermerk # <<0, 0>> => bekannt)
  BY <1>1 DEF Ungestoert, Eingetragen
<1> QED BY <1>1, <1>2, <1>4, <1>5, EndeUngestoert

LEMMA AntwortUngestoert ==
  ASSUME BestandTypeOK, Ungestoert, NEW a \in Anlauf, AntwortKommt(a)
  PROVE  Ungestoert'
<1>1. /\ anlauf[a].ph = "angenommen" /\ anlauf' = [anlauf EXCEPT ![a] = Frei]
      /\ UNCHANGED <<lokal, bekannt, pool, gezogen>>
      /\ gemeldetBis' = Groesste({anlauf[a].bis} \cup lokal)
  BY DEF AntwortKommt, Setze, geraet, relay, peers
<1>2. Beschaeftigt(a) BY <1>1 DEF Beschaeftigt
<1>3. bekannt BY <1>1 DEF Ungestoert, Eingetragen, Steht
<1>4. \A k \in lokal : ~(k > gemeldetBis')
  <2>1. PICK q : q = anlauf[a] OBVIOUS
  <2>2. q \in Anruf(hoch, spk) BY <2>1, TypFlach
  <2>3. PICK b : b = q.bis OBVIOUS
  <2>4. b \in 0 .. hoch BY <2>2, <2>3, AnrufFelder
  <2>5. PICK m : m = Groesste({b} \cup lokal) OBVIOUS
  <2>6. m \in 0 .. hoch /\ \A l \in lokal : l <= m BY <2>4, <2>5, MarkeTyp
  <2>7. gemeldetBis' = m BY <1>1, <2>1, <2>3, <2>5
  <2>8. lokal \subseteq 1 .. hoch /\ hoch \in Nat BY TypFlach
  <2> QED BY <2>6, <2>7, <2>8
<1> QED BY <1>1, <1>2, <1>3, <1>4, EndeUngestoert

LEMMA VerhalltUngestoert ==
  ASSUME BestandTypeOK, Ungestoert, NEW a \in Anlauf
  PROVE  ~Verhallt(a)
BY DEF Verhallt, Ungestoert, Zustaendig, Beschaeftigt

LEMMA AbrissUngestoert ==
  ASSUME BestandTypeOK, Ungestoert, Abriss, Ruhig
  PROVE  Ungestoert'
<1>1. \A b \in Anlauf : anlauf[b].ph = "frei" /\ anlauf[b].fuer = "niemand"
  BY DEF Ruhig, Frei
<1>2. \A b \in Anlauf : anlauf'[b] = anlauf[b] BY <1>1 DEF Abriss
<1>3. \A b \in Anlauf : ~Beschaeftigt(b) BY <1>1 DEF Beschaeftigt
<1>4. verbindung' = "getrennt" /\ UNCHANGED <<lokal, gemeldetBis, vermerk, bekannt, pool, gezogen>>
  BY DEF Abriss, geraet, meta, relay, peers
<1> QED BY <1>2, <1>3, <1>4, GleichUngestoert

LEMMA ZieheUngestoert ==
  ASSUME BestandTypeOK, Ungestoert, PeerZieht
  PROVE  Ungestoert'
<1>1. UNCHANGED <<lokal, gemeldetBis, vermerk, verbindung, knapp, anlauf, bekannt>>
  BY DEF PeerZieht, geraet, meta
<1>2. PICK k \in pool :
        /\ pool' = pool \ {k}
        /\ gezogen' \in Seq(1 .. hoch) /\ Len(gezogen') = Len(gezogen) + 1
        /\ gezogen'[Len(gezogen) + 1] = k
        /\ \A i \in 1 .. Len(gezogen) : gezogen'[i] = gezogen[i]
  BY ZieheIst
<1>3. PICK n \in Nat : n = Len(gezogen) /\ DOMAIN gezogen = 1 .. n
  <2>1. gezogen \in Seq(1 .. hoch) BY TypFlach
  <2> QED BY <2>1, LenProperties
<1>4. DOMAIN gezogen' = 1 .. n + 1
  <2>1. DOMAIN gezogen' = 1 .. Len(gezogen') BY <1>2, LenProperties
  <2> QED BY <1>2, <1>3, <2>1
<1>5. /\ \A i \in 1 .. n : gezogen'[i] = gezogen[i] /\ gezogen[i] \in Gezogene
      /\ gezogen'[n + 1] = k
  BY <1>2, <1>3 DEF Gezogene
<1>6. Gezogene' = Gezogene \cup {k}
  <2>1. ASSUME NEW x \in Gezogene' PROVE x \in Gezogene \cup {k}
    <3>1. PICK i \in 1 .. n + 1 : x = gezogen'[i] BY <1>4, <2>1 DEF Gezogene
    <3>2. i \in 1 .. n \/ i = n + 1 BY <1>3
    <3> QED BY <1>5, <3>1, <3>2
  <2>2. ASSUME NEW x \in Gezogene PROVE x \in Gezogene'
    <3>1. PICK i \in 1 .. n : x = gezogen[i] BY <1>3, <2>2 DEF Gezogene
    <3>2. i \in 1 .. n + 1 BY <1>3
    <3> QED BY <1>4, <1>5, <3>1, <3>2 DEF Gezogene
  <2>3. k \in Gezogene'
    <3>1. n + 1 \in 1 .. n + 1 BY <1>3
    <3> QED BY <1>4, <1>5, <3>1 DEF Gezogene
  <2> QED BY <2>1, <2>2, <2>3
<1>7. Angebot' = Angebot BY <1>2, <1>6 DEF Angebot
<1>8. GezogenEinmal'
  <2>1. pool \cap Gezogene = {} BY DEF Ungestoert, GezogenEinmal
  <2>2. pool' \cap Gezogene' = {} BY <1>2, <1>6, <2>1
  <2>3. ASSUME NEW i \in 1 .. n + 1, NEW j \in 1 .. n + 1, gezogen'[i] = gezogen'[j]
        PROVE  i = j
    <3>1. (i \in 1 .. n \/ i = n + 1) /\ (j \in 1 .. n \/ j = n + 1) BY <1>3
    <3>2. CASE i \in 1 .. n /\ j \in 1 .. n
      BY <1>3, <1>5, <2>3, <3>2 DEF Ungestoert, GezogenEinmal
    <3>3. CASE i \in 1 .. n /\ j = n + 1 BY <1>2, <1>5, <2>1, <2>3, <3>3
    <3>4. CASE i = n + 1 /\ j \in 1 .. n BY <1>2, <1>5, <2>1, <2>3, <3>4
    <3> QED BY <3>1, <3>2, <3>3, <3>4
  <2> QED BY <1>4, <2>2, <2>3 DEF GezogenEinmal
<1>9. EinAnruf' /\ Zustaendig' BY <1>1 DEF Ungestoert, EinAnruf, Zustaendig, Beschaeftigt
<1>10. Steht' <=> Steht BY <1>1 DEF Steht
<1>11. Eingetragen' BY <1>1, <1>10 DEF Ungestoert, Eingetragen
<1>12. UnterwegsNeu' BY <1>1, <1>7 DEF Ungestoert, UnterwegsNeu
<1>13. LokalNeu' BY <1>1, <1>7, <1>10 DEF Ungestoert, LokalNeu
<1> QED BY <1>8, <1>9, <1>11, <1>12, <1>13 DEF Ungestoert

LEMMA ErstnachrichtUngestoert ==
  ASSUME BestandTypeOK, Ungestoert, Erstnachricht
  PROVE  Ungestoert'
<1>1. /\ UNCHANGED <<gemeldetBis, vermerk, verbindung, knapp, anlauf, bekannt, pool, gezogen>>
      /\ lokal' \subseteq lokal
  BY DEF Erstnachricht, meta, relay
<1>2. Angebot' = Angebot /\ Gezogene' = Gezogene BY <1>1 DEF Angebot, Gezogene
<1>3. EinAnruf' /\ Zustaendig' BY <1>1 DEF Ungestoert, EinAnruf, Zustaendig, Beschaeftigt
<1>4. Steht' <=> Steht BY <1>1 DEF Steht
<1>5. Eingetragen' BY <1>1, <1>4 DEF Ungestoert, Eingetragen
<1>6. GezogenEinmal' BY <1>1, <1>2 DEF Ungestoert, GezogenEinmal
<1>7. UnterwegsNeu' BY <1>1, <1>2 DEF Ungestoert, UnterwegsNeu
<1>8. LokalNeu' BY <1>1, <1>2, <1>4 DEF Ungestoert, LokalNeu
<1> QED BY <1>3, <1>5, <1>6, <1>7, <1>8 DEF Ungestoert

(* A step that is no disturbance. *)
LEMMA OhneStoerungIst ==
  ASSUME BestandTypeOK, [VorratNext]_vorratVars, stoerungen' = 0
  PROVE  /\ stoerungen = 0 /\ ~Stoerung
         /\ ~(Absturz \/ RelayVergisst \/ \E a \in Anlauf : Scheitert(a))
<1>1. ~Stoerung BY StoerungTyp
<1>2. ~(Absturz \/ RelayVergisst \/ \E a \in Anlauf : Scheitert(a))
  BY <1>1 DEF Absturz, RelayVergisst, Scheitert
<1>3. Abriss => stoerungen' = stoerungen BY <1>1 DEF Abriss
<1>4. UNCHANGED vorratVars => stoerungen' = stoerungen BY DEF vorratVars
<1>5. Verbinde \/ VerbindeOhneAnmeldung \/ Login
        \/ FuelleNachUndMelde \/ PeerZieht \/ Erstnachricht
        => stoerungen' = stoerungen
  BY DEF Verbinde, VerbindeOhneAnmeldung, Login, FuelleNachUndMelde,
         PeerZieht, Erstnachricht
<1>6. \A a \in Anlauf : RelayNimmt(a) \/ RelayLehntAb(a) \/ AntwortKommt(a)
        \/ Verhallt(a) => stoerungen' = stoerungen
  BY DEF RelayNimmt, RelayLehntAb, AntwortKommt, Verhallt
<1> QED BY <1>1, <1>2, <1>3, <1>4, <1>5, <1>6 DEF VorratNext

LEMMA EInvSchritt ==
  ASSUME BestandTypeOK, EInv, [VorratNext]_vorratVars
  PROVE  EInv'
<1>1. SUFFICES ASSUME stoerungen' = 0 PROVE Ungestoert' BY DEF EInv
<1>2. ~Stoerung BY <1>1, OhneStoerungIst
<1>3. ~(Absturz \/ RelayVergisst \/ \E a \in Anlauf : Scheitert(a))
  BY <1>1, OhneStoerungIst
<1>4. stoerungen = 0 BY <1>1, OhneStoerungIst
<1>5. Ungestoert BY <1>4 DEF EInv
<1>6. CASE Verbinde BY <1>5, <1>6, VerbindeUngestoert
<1>7. CASE VerbindeOhneAnmeldung BY <1>5, <1>7, OhneAnmeldungUngestoert
<1>8. CASE Login BY <1>5, <1>8, LoginUngestoert
<1>9. CASE FuelleNachUndMelde BY <1>5, <1>9, FuelleNachUngestoert
<1>10. ASSUME NEW a \in Anlauf, RelayNimmt(a) PROVE Ungestoert'
  BY <1>5, <1>10, NimmtUngestoert
<1>11. ASSUME NEW a \in Anlauf, RelayLehntAb(a) PROVE Ungestoert'
  BY <1>5, <1>11, AbgelehntUngestoert
<1>12. ASSUME NEW a \in Anlauf, AntwortKommt(a) PROVE Ungestoert'
  BY <1>5, <1>12, AntwortUngestoert
<1>13. \A a \in Anlauf : ~Verhallt(a) BY <1>5, VerhalltUngestoert
<1>14. CASE Abriss
  <2>1. Ruhig BY <1>2, <1>14 DEF Abriss
  <2> QED BY <1>5, <1>14, <2>1, AbrissUngestoert
<1>15. CASE PeerZieht BY <1>5, <1>15, ZieheUngestoert
<1>16. CASE Erstnachricht BY <1>5, <1>16, ErstnachrichtUngestoert
<1>17. CASE UNCHANGED vorratVars
  <2>1. UNCHANGED <<lokal, gemeldetBis, vermerk, bekannt, pool, gezogen, verbindung, knapp, anlauf>>
    BY <1>17 DEF vorratVars, geraet, meta, relay, peers
  <2> QED BY <1>5, <2>1, GleichUngestoert
<1> QED BY <1>3, <1>6, <1>7, <1>8, <1>9, <1>10, <1>11, <1>12, <1>13, <1>14, <1>15, <1>16, <1>17
        DEF VorratNext

LEMMA EInvInit ==
  ASSUME VorratInit
  PROVE  EInv
<1>1. /\ pool = {} /\ gezogen = <<>> /\ verbindung = "getrennt" /\ vermerk = <<0, 0>>
      /\ \A a \in Anlauf : anlauf[a].ph = "frei"
  BY DEF VorratInit, Frei, OhneVermerk
<1>2. Gezogene = {} /\ Angebot = {} BY <1>1 DEF Gezogene, Angebot
<1>3. EinAnruf /\ Zustaendig BY <1>1 DEF EinAnruf, Zustaendig, Beschaeftigt
<1>4. Eingetragen BY <1>1 DEF Eingetragen, Steht
<1>5. GezogenEinmal BY <1>1, <1>2 DEF GezogenEinmal
<1>6. UnterwegsNeu /\ LokalNeu BY <1>2 DEF UnterwegsNeu, LokalNeu
<1> QED BY <1>3, <1>4, <1>5, <1>6 DEF EInv, Ungestoert

(* PrekeySupply: as long as nothing is lost, one call of _meldeAn is under *)
(* way at a time, and no upload holds a key the relay has ever had.        *)
THEOREM VorratInvariante == (VorratSpec => []EInv)
<1>1. VorratInit => EInv BY EInvInit
<1>2. BestandTypeOK /\ EInv /\ [VorratNext]_vorratVars => EInv' BY EInvSchritt
<1>3. VorratSpec => []BestandTypeOK BY BestandTyp
<1> QED BY <1>1, <1>2, <1>3, PTL DEF VorratSpec

(* PrekeySupply: hence the relay hands no key out twice (156-158).         *)
THEOREM UngestoertEinmal == (VorratSpec => []OhneStoerungEinmal)
<1>1. EInv => OhneStoerungEinmal
  BY DEF EInv, Ungestoert, GezogenEinmal, OhneStoerungEinmal
<1>2. VorratSpec => []EInv BY VorratInvariante
<1> QED BY <1>1, <1>2, PTL

----------------------------------------------------------------------------
(* ... and what the relay offers is never further behind than two refills, *)
(* the second of which the app is about to register.                       *)
(* The code keeps preKeyHoechstzahl = 400 keys, four refills of 100.       *)
WeitGenug == 2 * VORRAT <= HOECHSTZAHL

Unangemeldet(k) == k > gemeldetBis
Nah == \A k \in pool : k > hoch - 2 * VORRAT
HinterherNurEins ==
    (\E k \in pool : k <= hoch - VORRAT) => ~Steht /\ \E k \in lokal : k > gemeldetBis
AllesGemeldet == verbindung = "login" \/ knapp => \A k \in lokal : k <= gemeldetBis
KnappNurOnline == knapp => verbindung = "online"
VermerkGemeldet == vermerk = <<0, 0>> \/ vermerk[2] <= gemeldetBis
UnterwegsNah == \A a \in Anlauf : anlauf[a].ph = "unterwegs" => \A k \in anlauf[a].ids : k > hoch - VORRAT
LokalNah == ~Steht => \A k \in lokal : k > gemeldetBis => k > hoch - VORRAT
Bereich == /\ Nah /\ HinterherNurEins /\ AllesGemeldet /\ KnappNurOnline /\ VermerkGemeldet
           /\ UnterwegsNah /\ LokalNah
BInv == stoerungen = 0 => Bereich

(* The keys with which a call starts: those at hand, or, if the relay has  *)
(* had them all, a refill.                                                 *)
MeldeFall ==
    \/ lokal' = lokal /\ hoch' = hoch
    \/ /\ \A k \in lokal : k <= gemeldetBis
       /\ hoch' = hoch + VORRAT /\ lokal' \subseteq lokal \cup (hoch + 1 .. hoch') /\ hoch' \in lokal'

LEMMA ErgaenztFall ==
  ASSUME WeitGenug, BestandTypeOK, NEW L1, NEW h1,
         Ergaenzt(lokal, hoch, L1, h1), h1 = hoch + VORRAT
  PROVE  L1 \subseteq lokal \cup (hoch + 1 .. h1) /\ h1 \in L1
<1>1. VORRAT \in Nat \ {0} /\ HOECHSTZAHL \in Nat /\ HOECHSTZAHL > 0
  BY VorratAnnahme DEF WeitGenug
<1>2. hoch \in Nat /\ lokal \subseteq 1 .. hoch BY TypFlach
<1>3. Gewachsen(lokal, hoch, L1, h1)
  <2>1. PICK L, h : L = lokal /\ h = hoch OBVIOUS
  <2>2. Gewachsen(L, h, L1, h1) BY <1>2, <2>1, ErgaenztWaechst
  <2> QED BY <2>1, <2>2
<1>4. h1 \in hoch + 1 .. h1 /\ h1 > h1 - HOECHSTZAHL BY <1>1, <1>2
<1> QED BY <1>3, <1>4 DEF Gewachsen

LEMMA MeldeFallBereich ==
  ASSUME WeitGenug, BestandTypeOK, Bereich, MeldeFall,
         NEW fuer, NEW a \in Anlauf, MitNeuem(a, fuer),
         \A b \in Anlauf : ~Beschaeftigt(b),
         verbindung' # "login", ~knapp', UNCHANGED <<gemeldetBis, vermerk, pool>>
  PROVE  Bereich'
<1>1. VORRAT \in Nat \ {0} BY VorratAnnahme
<1>2. /\ hoch \in Nat /\ lokal \subseteq 1 .. hoch /\ pool \subseteq 1 .. hoch
      /\ gemeldetBis \in {-1} \cup (0 .. hoch) /\ anlauf \in [Anlauf -> Anruf(hoch, spk)]
  BY TypFlach
<1>3. PICK r : r = NeuerAnruf(fuer) OBVIOUS
<1>4. anlauf' = [anlauf EXCEPT ![a] = r] BY <1>3, AlleinOhneAltern
<1>5. r.ph = "unterwegs" /\ r.ids = {k \in lokal' : k > gemeldetBis} BY <1>3 DEF NeuerAnruf
<1>6. anlauf'[a] = r /\ \A b \in Anlauf : b # a => anlauf'[b] = anlauf[b] BY <1>2, <1>4
<1>7. \A b \in Anlauf : anlauf[b].ph = "frei" BY DEF Beschaeftigt
<1>8. ~Steht /\ ~Steht' BY <1>5, <1>6, <1>7 DEF Steht
<1>9. \A k \in lokal' : k > gemeldetBis => k > hoch' - VORRAT
  <2>1. CASE lokal' = lokal /\ hoch' = hoch BY <1>8, <2>1 DEF Bereich, LokalNah
  <2>2. CASE /\ \A k \in lokal : k <= gemeldetBis
             /\ hoch' = hoch + VORRAT
             /\ lokal' \subseteq lokal \cup (hoch + 1 .. hoch')
    <3>1. TAKE k \in lokal'
    <3>2. HAVE k > gemeldetBis
    <3>3. k \in lokal \/ k \in hoch + 1 .. hoch' BY <2>2, <3>1
    <3>4. k \notin lokal BY <1>2, <2>2, <3>2
    <3> QED BY <1>1, <1>2, <2>2, <3>3, <3>4
  <2> QED BY <2>1, <2>2 DEF MeldeFall
<1>10. Nah' /\ HinterherNurEins'
  <2>1. CASE lokal' = lokal /\ hoch' = hoch
    BY <1>8, <2>1 DEF Bereich, Nah, HinterherNurEins
  <2>2. CASE /\ \A k \in lokal : k <= gemeldetBis
             /\ hoch' = hoch + VORRAT
             /\ hoch' \in lokal'
    <3>1. \A k \in lokal : ~(k > gemeldetBis) BY <1>2, <2>2
    <3>2. \A k \in pool : ~(k <= hoch - VORRAT) BY <3>1 DEF Bereich, HinterherNurEins
    <3>3. \A k \in pool : k > hoch' - 2 * VORRAT BY <1>1, <1>2, <2>2, <3>2
    <3>4. hoch' > gemeldetBis BY <1>1, <1>2, <2>2
    <3> QED BY <1>8, <2>2, <3>3, <3>4 DEF Nah, HinterherNurEins
  <2> QED BY <2>1, <2>2 DEF MeldeFall
<1>11. AllesGemeldet' /\ KnappNurOnline' BY DEF AllesGemeldet, KnappNurOnline
<1>12. VermerkGemeldet' BY DEF Bereich, VermerkGemeldet
<1>13. UnterwegsNah'
  <2>1. ASSUME NEW b \in Anlauf, anlauf'[b].ph = "unterwegs"
        PROVE  \A k \in anlauf'[b].ids : k > hoch' - VORRAT
    <3>1. b = a BY <1>6, <1>7, <2>1
    <3> QED BY <1>5, <1>6, <1>9, <3>1
  <2> QED BY <2>1 DEF UnterwegsNah
<1>14. LokalNah' BY <1>9 DEF LokalNah
<1> QED BY <1>10, <1>11, <1>12, <1>13, <1>14 DEF Bereich

LEMMA VerbindeBereich ==
  ASSUME WeitGenug, BestandTypeOK, Ungestoert, Bereich, Verbinde
  PROVE  Bereich'
<1>1. /\ verbindung = "getrennt" /\ verbindung' = "meldet"
      /\ \E a \in Anlauf : Meldet(a, lokal, hoch, anlauf, "verbinden")
      /\ UNCHANGED <<gemeldetBis, vermerk, pool, knapp>>
  BY VerbindeIst
<1>2. \A b \in Anlauf : ~Beschaeftigt(b) BY <1>1 DEF Ungestoert, Zustaendig
<1>3. PICK a, fuer, L, h, anrufe :
        /\ a \in Anlauf /\ anrufe = anlauf /\ Meldet(a, L, h, anrufe, fuer)
        /\ L = lokal /\ h = hoch
  BY <1>1
<1>4. MeldeFall
  <2>1. CASE lokal' = lokal /\ hoch' = hoch BY <2>1 DEF MeldeFall
  <2>2. CASE /\ \A k \in lokal : k <= gemeldetBis
             /\ Ergaenzt(lokal, hoch, lokal', hoch') /\ hoch' = hoch + VORRAT
    <3>1. PICK L1, h1 : L1 = lokal' /\ h1 = hoch' OBVIOUS
    <3>2. Ergaenzt(lokal, hoch, L1, h1) /\ h1 = hoch + VORRAT BY <2>2, <3>1
    <3>3. L1 \subseteq lokal \cup (hoch + 1 .. h1) /\ h1 \in L1 BY <3>2, ErgaenztFall
    <3> QED BY <2>2, <3>1, <3>3 DEF MeldeFall
  <2> QED BY <1>3, <2>1, <2>2 DEF Meldet
<1>5. verbindung' # "login" /\ ~knapp' BY <1>1 DEF Bereich, KnappNurOnline
<1>6. MitNeuem(a, fuer) BY <1>3, MeldetMitNeuem
<1> QED BY <1>1, <1>2, <1>3, <1>4, <1>5, <1>6, MeldeFallBereich

LEMMA FuelleNachBereich ==
  ASSUME WeitGenug, BestandTypeOK, Ungestoert, Bereich,
         FuelleNachUndMelde
  PROVE  Bereich'
<1>1. /\ verbindung = "online" /\ verbindung' = "online" /\ knapp /\ knapp' = FALSE
      /\ \E a \in Anlauf : \E L1, h1 : /\ Ergaenzt(lokal, hoch, L1, h1) /\ h1 = hoch + VORRAT
                                       /\ Meldet(a, L1, h1, Gealtert, "nachschub")
      /\ UNCHANGED <<gemeldetBis, vermerk, pool>>
  BY FuelleNachIst
<1>2. \A b \in Anlauf : ~Beschaeftigt(b) BY <1>1 DEF Ungestoert, Zustaendig
<1>3. PICK a, fuer, L1, h1, anrufe :
        /\ a \in Anlauf /\ anrufe = Gealtert /\ Meldet(a, L1, h1, anrufe, fuer)
        /\ Ergaenzt(lokal, hoch, L1, h1) /\ h1 = hoch + VORRAT
  BY <1>1
<1>4. L1 \subseteq lokal \cup (hoch + 1 .. h1) /\ h1 \in L1 BY <1>3, ErgaenztFall
<1>5. ~(\A k \in L1 : k <= gemeldetBis)
  <2>1. VORRAT \in Nat \ {0} BY VorratAnnahme
  <2>2. hoch \in Nat /\ gemeldetBis \in {-1} \cup (0 .. hoch) BY TypFlach
  <2>3. ~(h1 <= gemeldetBis) BY <1>3, <2>1, <2>2
  <2> QED BY <1>4, <2>3
<1>6. lokal' = L1 /\ hoch' = h1 BY <1>3, <1>5 DEF Meldet
<1>7. \A k \in lokal : k <= gemeldetBis BY <1>1 DEF Bereich, AllesGemeldet
<1>8. MeldeFall BY <1>3, <1>4, <1>6, <1>7 DEF MeldeFall
<1>9. MitNeuem(a, fuer) BY <1>3, MeldetMitNeuem
<1> QED BY <1>1, <1>2, <1>3, <1>8, <1>9, MeldeFallBereich

(* A step that leaves the calls, the keys and the mark alone. *)
LEMMA GleichBereich ==
  ASSUME BestandTypeOK, Bereich,
         \A a \in Anlauf : anlauf'[a] = anlauf[a],
         UNCHANGED <<lokal, hoch, gemeldetBis, vermerk>>, pool' \subseteq pool,
         verbindung' = "login" \/ knapp' => \A k \in lokal : k <= gemeldetBis,
         knapp' => verbindung' = "online"
  PROVE  Bereich'
<1>1. Steht' <=> Steht BY DEF Steht
<1>2. Nah' BY DEF Bereich, Nah
<1>3. HinterherNurEins' BY <1>1 DEF Bereich, HinterherNurEins
<1>4. AllesGemeldet' /\ KnappNurOnline' BY DEF AllesGemeldet, KnappNurOnline
<1>5. VermerkGemeldet' BY DEF Bereich, VermerkGemeldet
<1>6. UnterwegsNah' BY DEF Bereich, UnterwegsNah
<1>7. LokalNah' BY <1>1 DEF Bereich, LokalNah
<1> QED BY <1>2, <1>3, <1>4, <1>5, <1>6, <1>7 DEF Bereich

LEMMA OhneAnmeldungBereich ==
  ASSUME BestandTypeOK, Bereich, VerbindeOhneAnmeldung
  PROVE  Bereich'
<1>1. /\ verbindung = "getrennt" /\ verbindung' = "login" /\ vermerk = Stand(Bestand)
      /\ UNCHANGED <<lokal, hoch, gemeldetBis, vermerk, pool, knapp, anlauf>>
  BY DEF VerbindeOhneAnmeldung, geraet, meta, relay, peers
<1>2. \A k \in lokal : k <= gemeldetBis
  <2>1. PICK m : m = Groesste(lokal) OBVIOUS
  <2>2. vermerk = <<spk, m>> /\ m \in 0 .. hoch /\ \A l \in lokal : l <= m BY <1>1, <2>1, StandTyp
  <2>3. /\ spk >= 1 /\ spk \in Nat /\ hoch \in Nat /\ lokal \subseteq 1 .. hoch
        /\ gemeldetBis \in {-1} \cup (0 .. hoch)
    BY TypFlach
  <2>4. vermerk # <<0, 0>> /\ vermerk[2] = m BY <2>2, <2>3
  <2>5. m <= gemeldetBis BY <2>4 DEF Bereich, VermerkGemeldet
  <2> QED BY <2>2, <2>3, <2>5
<1>3. ~knapp' BY <1>1 DEF Bereich, KnappNurOnline
<1> QED BY <1>1, <1>2, <1>3, GleichBereich

LEMMA LoginBereich ==
  ASSUME BestandTypeOK, Ungestoert, Bereich, Login
  PROVE  Bereich'
<1>1. verbindung = "login" /\ bekannt
  BY DEF Login, Ungestoert, Eingetragen
<1>2. \A b \in Anlauf : ~Beschaeftigt(b) BY <1>1 DEF Ungestoert, Zustaendig
<1>3. \A b \in Anlauf : anlauf'[b] = anlauf[b]
  BY <1>2 DEF Login, Beschaeftigt
<1>4. verbindung' = "online" /\ UNCHANGED <<lokal, hoch, gemeldetBis, vermerk, pool>>
  BY <1>1 DEF Login, geraet, meta, relay, peers
<1>5. \A k \in lokal : k <= gemeldetBis BY <1>1 DEF Bereich, AllesGemeldet
<1> QED BY <1>3, <1>4, <1>5, GleichBereich

LEMMA NimmtBereich ==
  ASSUME BestandTypeOK, Ungestoert, Bereich, NEW a \in Anlauf,
         RelayNimmt(a)
  PROVE  Bereich'
<1>1. /\ UNCHANGED <<lokal, hoch, gemeldetBis, vermerk, verbindung, knapp>>
      /\ anlauf[a].ph = "unterwegs"
      /\ anlauf' = [anlauf EXCEPT ![a] = [anlauf[a] EXCEPT !.ph = "angenommen"]]
      /\ pool' = anlauf[a].ids
  BY DEF RelayNimmt, Setze, geraet, meta
<1>2. anlauf \in [Anlauf -> Anruf(hoch, spk)] /\ hoch \in Nat BY TypFlach
<1>3. PICK r : r = anlauf[a] OBVIOUS
<1>4. /\ anlauf'[a] = [r EXCEPT !.ph = "angenommen"] /\ r \in Anruf(hoch, spk)
      /\ \A b \in Anlauf : b # a => anlauf'[b] = anlauf[b]
  BY <1>1, <1>2, <1>3
<1>5. anlauf'[a].ph = "angenommen" BY <1>4 DEF Anruf
<1>6. \A b \in Anlauf : b # a => anlauf[b].ph = "frei"
  BY <1>1 DEF Ungestoert, EinAnruf, Beschaeftigt
<1>7. Steht' BY <1>5 DEF Steht
<1>8. \A k \in pool' : k > hoch - VORRAT BY <1>1 DEF Bereich, UnterwegsNah
<1>9. \A k \in pool' : k \in 1 .. hoch
  <2>1. r.ids \in SUBSET (1 .. hoch) BY <1>4, AnrufFelder
  <2> QED BY <1>1, <1>3, <2>1
<1>10. Nah' /\ HinterherNurEins'
  <2>1. VORRAT \in Nat BY VorratAnnahme
  <2>2. \A k \in pool' : k > hoch - 2 * VORRAT /\ ~(k <= hoch - VORRAT)
    BY <1>2, <1>8, <1>9, <2>1
  <2> QED BY <1>1, <2>2 DEF Nah, HinterherNurEins
<1>11. AllesGemeldet' /\ KnappNurOnline' /\ VermerkGemeldet'
  BY <1>1 DEF Bereich, AllesGemeldet, KnappNurOnline, VermerkGemeldet
<1>12. UnterwegsNah' BY <1>4, <1>5, <1>6 DEF UnterwegsNah
<1>13. LokalNah' BY <1>7 DEF LokalNah
<1> QED BY <1>10, <1>11, <1>12, <1>13 DEF Bereich

LEMMA AbgelehntBereich ==
  ASSUME BestandTypeOK, Ungestoert, Bereich, NEW a \in Anlauf, RelayLehntAb(a)
  PROVE  Bereich'
<1>1. /\ anlauf[a].ph = "unterwegs" /\ anlauf' = [anlauf EXCEPT ![a] = Frei]
      /\ verbindung' = IF anlauf[a].fuer = "verbinden" THEN "getrennt" ELSE verbindung
      /\ UNCHANGED <<lokal, hoch, gemeldetBis, vermerk, pool, knapp>>
  BY DEF RelayLehntAb, Setze, geraet, meta, relay
<1>2. anlauf \in [Anlauf -> Anruf(hoch, spk)] BY TypFlach
<1>3. anlauf'[a].ph = "frei" /\ \A b \in Anlauf : b # a => anlauf'[b] = anlauf[b]
  BY <1>1, <1>2 DEF Frei
<1>4. \A b \in Anlauf : anlauf'[b].ph = "frei" /\ (b # a => anlauf[b].ph = "frei")
  BY <1>1, <1>3 DEF Ungestoert, EinAnruf, Beschaeftigt
<1>5. ~Steht /\ ~Steht' BY <1>1, <1>4 DEF Steht
<1>6. Nah' /\ HinterherNurEins' /\ VermerkGemeldet'
  BY <1>1, <1>5 DEF Bereich, Nah, HinterherNurEins, VermerkGemeldet
<1>7. AllesGemeldet' BY <1>1 DEF Bereich, AllesGemeldet
<1>8. KnappNurOnline'
  <2>1. Beschaeftigt(a) BY <1>1 DEF Beschaeftigt
  <2>2. anlauf[a].fuer = "verbinden" => verbindung = "meldet"
    BY <2>1 DEF Ungestoert, Zustaendig
  <2> QED BY <1>1, <2>2 DEF Bereich, KnappNurOnline
<1>9. UnterwegsNah' BY <1>4 DEF UnterwegsNah
<1>10. LokalNah' BY <1>1, <1>5 DEF Bereich, LokalNah
<1> QED BY <1>6, <1>7, <1>8, <1>9, <1>10 DEF Bereich

LEMMA AntwortBereich ==
  ASSUME BestandTypeOK, Ungestoert, Bereich, NEW a \in Anlauf, AntwortKommt(a)
  PROVE  Bereich'
<1>1. /\ anlauf[a].ph = "angenommen" /\ anlauf' = [anlauf EXCEPT ![a] = Frei]
      /\ verbindung' = IF anlauf[a].fuer = "verbinden" THEN "login" ELSE verbindung
      /\ UNCHANGED <<lokal, hoch, pool, knapp>>
      /\ gemeldetBis' = Groesste({anlauf[a].bis} \cup lokal)
      /\ vermerk' = Stand(Bestand)
  BY DEF AntwortKommt, Setze, geraet, relay
<1>2. anlauf \in [Anlauf -> Anruf(hoch, spk)] /\ hoch \in Nat /\ lokal \subseteq 1 .. hoch
  BY TypFlach
<1>3. anlauf'[a].ph = "frei" /\ \A b \in Anlauf : b # a => anlauf'[b] = anlauf[b]
  BY <1>1, <1>2 DEF Frei
<1>4. \A b \in Anlauf : anlauf'[b].ph = "frei"
  BY <1>1, <1>3 DEF Ungestoert, EinAnruf, Beschaeftigt
<1>5. Steht BY <1>1 DEF Steht
<1>6. PICK m \in 0 .. hoch : gemeldetBis' = m /\ \A l \in lokal : l <= m
  <2>1. PICK q : q = anlauf[a] OBVIOUS
  <2>2. q \in Anruf(hoch, spk) BY <1>2, <2>1
  <2>3. PICK b : b = q.bis OBVIOUS
  <2>4. b \in 0 .. hoch BY <2>2, <2>3, AnrufFelder
  <2>5. PICK m : m = Groesste({b} \cup lokal) OBVIOUS
  <2>6. m \in 0 .. hoch /\ \A l \in lokal : l <= m BY <2>4, <2>5, MarkeTyp
  <2>7. gemeldetBis' = m BY <1>1, <2>1, <2>3, <2>5
  <2> QED BY <2>6, <2>7
<1>7. \A k \in lokal : k <= gemeldetBis' /\ ~(k > gemeldetBis') BY <1>2, <1>6
<1>8. Nah' BY <1>1 DEF Bereich, Nah
<1>9. HinterherNurEins' BY <1>1, <1>5 DEF Bereich, HinterherNurEins
<1>10. AllesGemeldet' BY <1>1, <1>7 DEF AllesGemeldet
<1>11. KnappNurOnline'
  <2>1. Beschaeftigt(a) BY <1>1 DEF Beschaeftigt
  <2>2. anlauf[a].fuer = "verbinden" => verbindung = "meldet"
    BY <2>1 DEF Ungestoert, Zustaendig
  <2> QED BY <1>1, <2>2 DEF Bereich, KnappNurOnline
<1>12. VermerkGemeldet'
  <2>1. PICK g : g = Groesste(lokal) OBVIOUS
  <2>2. vermerk' = <<spk, g>> BY <1>1, <2>1, StandTyp
  <2>3. g \in {0} \cup lokal
    <3>1. lokal \in SUBSET (0 .. hoch) BY <1>2
    <3>2. PICK h, L : h = hoch /\ L = lokal OBVIOUS
    <3>3. Groesste(L) \in {0} \cup L BY <1>2, <3>1, <3>2, GroessteIst
    <3> QED BY <2>1, <3>2, <3>3
  <2>4. g <= gemeldetBis' BY <1>2, <1>6, <2>3
  <2> QED BY <2>2, <2>4 DEF VermerkGemeldet
<1>13. UnterwegsNah' BY <1>4 DEF UnterwegsNah
<1>14. LokalNah' BY <1>1, <1>7 DEF LokalNah
<1> QED BY <1>8, <1>9, <1>10, <1>11, <1>12, <1>13, <1>14 DEF Bereich

LEMMA ErstnachrichtBereich ==
  ASSUME BestandTypeOK, Ungestoert, Bereich, Erstnachricht
  PROVE  Bereich'
<1>1. UNCHANGED <<hoch, gemeldetBis, vermerk, verbindung, knapp, anlauf, pool, gezogen>>
  BY DEF Erstnachricht, meta, relay
<1>2. PICK n \in offen : lokal' = lokal \ {gezogen[n]} BY DEF Erstnachricht
<1>3. gezogen[n] \in Angebot
  <2>1. n \in DOMAIN gezogen BY <1>2, TypFlach
  <2> QED BY <2>1 DEF Angebot, Gezogene
<1>4. Steht' <=> Steht BY <1>1 DEF Steht
<1>5. HinterherNurEins'
  <2>1. SUFFICES ASSUME \E k \in pool : k <= hoch - VORRAT
                 PROVE  ~Steht /\ \E k \in lokal' : k > gemeldetBis
    BY <1>1, <1>4 DEF HinterherNurEins
  <2>2. ~Steht /\ \E k \in lokal : k > gemeldetBis BY <2>1 DEF Bereich, HinterherNurEins
  <2>3. PICK k \in lokal : k > gemeldetBis BY <2>2
  <2>4. k \notin Angebot BY <2>2, <2>3 DEF Ungestoert, LokalNeu
  <2> QED BY <1>2, <1>3, <2>2, <2>3, <2>4
<1>6. Nah' /\ KnappNurOnline' /\ VermerkGemeldet' /\ UnterwegsNah'
  BY <1>1 DEF Bereich, Nah, KnappNurOnline, VermerkGemeldet, UnterwegsNah
<1>7. AllesGemeldet' BY <1>1, <1>2 DEF Bereich, AllesGemeldet
<1>8. LokalNah' BY <1>1, <1>2, <1>4 DEF Bereich, LokalNah
<1> QED BY <1>5, <1>6, <1>7, <1>8 DEF Bereich

LEMMA BInvSchritt ==
  ASSUME WeitGenug, BestandTypeOK, EInv, BInv, [VorratNext]_vorratVars
  PROVE  BInv'
<1>1. SUFFICES ASSUME stoerungen' = 0 PROVE Bereich' BY DEF BInv
<1>2. ~Stoerung BY <1>1, OhneStoerungIst
<1>3. ~(Absturz \/ RelayVergisst \/ \E a \in Anlauf : Scheitert(a))
  BY <1>1, OhneStoerungIst
<1>4. stoerungen = 0 BY <1>1, OhneStoerungIst
<1>5. Ungestoert /\ Bereich BY <1>4 DEF EInv, BInv
<1>6. CASE Verbinde BY <1>5, <1>6, VerbindeBereich
<1>7. CASE VerbindeOhneAnmeldung BY <1>5, <1>7, OhneAnmeldungBereich
<1>8. CASE Login BY <1>5, <1>8, LoginBereich
<1>9. CASE FuelleNachUndMelde BY <1>5, <1>9, FuelleNachBereich
<1>10. ASSUME NEW a \in Anlauf, RelayNimmt(a) PROVE Bereich'
  BY <1>5, <1>10, NimmtBereich
<1>11. ASSUME NEW a \in Anlauf, RelayLehntAb(a) PROVE Bereich'
  BY <1>5, <1>11, AbgelehntBereich
<1>12. ASSUME NEW a \in Anlauf, AntwortKommt(a) PROVE Bereich'
  BY <1>5, <1>12, AntwortBereich
<1>13. \A a \in Anlauf : ~Verhallt(a) BY <1>5, VerhalltUngestoert
<1>14. CASE Abriss
  <2>1. Ruhig BY <1>2, <1>14 DEF Abriss
  <2>2. \A b \in Anlauf : anlauf[b].fuer = "niemand" BY <2>1 DEF Ruhig, Frei
  <2>3. \A b \in Anlauf : anlauf'[b] = anlauf[b] BY <1>14, <2>2 DEF Abriss
  <2>4. /\ verbindung' = "getrennt" /\ ~knapp' /\ pool' \subseteq pool
        /\ UNCHANGED <<lokal, hoch, gemeldetBis, vermerk>>
    BY <1>14 DEF Abriss, geraet, meta, relay
  <2> QED BY <1>5, <2>3, <2>4, GleichBereich
<1>15. CASE PeerZieht
  <2>1. /\ UNCHANGED <<lokal, hoch, gemeldetBis, vermerk, verbindung, knapp, anlauf>>
        /\ pool' \subseteq pool
    BY <1>15 DEF PeerZieht, geraet, meta
  <2> QED BY <1>5, <2>1, GleichBereich DEF Bereich, AllesGemeldet, KnappNurOnline
<1>16. CASE Erstnachricht BY <1>5, <1>16, ErstnachrichtBereich
<1>17. CASE UNCHANGED vorratVars
  <2>1. /\ UNCHANGED <<lokal, hoch, gemeldetBis, vermerk, verbindung, knapp, anlauf>>
        /\ pool' \subseteq pool
    BY <1>17 DEF vorratVars, geraet, meta, relay
  <2> QED BY <1>5, <2>1, GleichBereich DEF Bereich, AllesGemeldet, KnappNurOnline
<1> QED BY <1>3, <1>6, <1>7, <1>8, <1>9, <1>10, <1>11, <1>12, <1>13, <1>14, <1>15, <1>16, <1>17
        DEF VorratNext

LEMMA BInvInit ==
  ASSUME VorratInit
  PROVE  BInv
<1>1. VORRAT \in Nat BY VorratAnnahme
<1>2. /\ pool = {} /\ verbindung = "getrennt" /\ knapp = FALSE /\ vermerk = <<0, 0>>
      /\ lokal = 1 .. VORRAT /\ hoch = VORRAT
      /\ \A a \in Anlauf : anlauf[a].ph = "frei"
  BY DEF VorratInit, Frei, OhneVermerk
<1>3. \A k \in lokal : k > hoch - VORRAT BY <1>1, <1>2
<1>4. Nah /\ HinterherNurEins BY <1>2 DEF Nah, HinterherNurEins
<1>5. AllesGemeldet /\ KnappNurOnline BY <1>2 DEF AllesGemeldet, KnappNurOnline
<1>6. VermerkGemeldet BY <1>2 DEF VermerkGemeldet
<1>7. UnterwegsNah BY <1>2 DEF UnterwegsNah
<1>8. LokalNah BY <1>3 DEF LokalNah
<1> QED BY <1>4, <1>5, <1>6, <1>7, <1>8 DEF BInv, Bereich

LEMMA NahEinloesbar ==
  ASSUME WeitGenug, BestandTypeOK, NeuesteDa, Nah
  PROVE  AngebotDa
<1>1. VORRAT \in Nat /\ HOECHSTZAHL \in Nat /\ 2 * VORRAT <= HOECHSTZAHL
  BY VorratAnnahme DEF WeitGenug
<1>2. pool \subseteq 1 .. hoch /\ hoch \in Nat BY TypFlach
<1>3. ASSUME NEW k \in pool PROVE k \in lokal \cup verbraucht
  <2>1. k \in 1 .. hoch /\ k > hoch - 2 * VORRAT BY <1>2, <1>3 DEF Nah
  <2>2. k > hoch - HOECHSTZAHL BY <1>1, <1>2, <2>1
  <2> QED BY <2>1, <2>2 DEF NeuesteDa
<1> QED BY <1>3 DEF AngebotDa

(* PrekeySupply: and if two refills are kept, every key the relay may      *)
(* still hand out opens the message that uses it ("Lokal muss er aber      *)
(* bleiben", 159).                                                         *)
THEOREM UngestoertEinloesbar ==
  WeitGenug => (VorratSpec => [](stoerungen = 0 => AngebotDa))
<1> SUFFICES ASSUME WeitGenug
             PROVE  VorratSpec => [](stoerungen = 0 => AngebotDa)
  OBVIOUS
<1>1. VorratInit => BInv BY BInvInit
<1>2. BestandTypeOK /\ EInv /\ BInv /\ [VorratNext]_vorratVars => BInv' BY BInvSchritt
<1>3. VorratSpec => []BestandTypeOK /\ []EInv /\ []NeuesteDa
  BY BestandTyp, VorratInvariante, NeuesteBleiben, PTL
<1>4. BestandTypeOK /\ NeuesteDa /\ BInv => (stoerungen = 0 => AngebotDa)
  BY NahEinloesbar DEF BInv, Bereich
<1> QED BY <1>1, <1>2, <1>3, <1>4, PTL DEF VorratSpec

----------------------------------------------------------------------------
(* ... and whatever is lost, refused, forgotten or interrupted, as long as *)
(* the keys fit: nothing the relay offers, or may still take, has been     *)
(* trimmed.                                                                *)
(*                                                                         *)
(* The depth of a key k among the keys L above the mark g: the keys from k *)
(* on, with the newest set counted as full.  A refill leaves it as it is;  *)
(* only an answer makes it grow, by one set.                               *)
Ab(k, L) == {l \in L : k <= l}
AltAb(k, L, g) == {l \in L : k <= l /\ l <= g}
Neu(L, g) == {l \in L : l > g}
Fertig(L, g) == g # -1 /\ \A l \in L : l <= g
Satz(L, g) == IF Cardinality(Neu(L, g)) > VORRAT THEN Cardinality(Neu(L, g)) ELSE VORRAT
Tiefe(k, L, g) ==
    IF g = -1 THEN Cardinality(Ab(k, L)) ELSE Cardinality(AltAb(k, L, g)) + Satz(L, g)

LEMMA TeilEndlich ==
  ASSUME NEW S, IsFiniteSet(S), NEW T, T \subseteq S
  PROVE  /\ IsFiniteSet(T) /\ Cardinality(T) \in Nat /\ Cardinality(S) \in Nat
         /\ Cardinality(T) <= Cardinality(S)
BY FS_Subset, FS_CardinalityType

LEMMA VereinigungHoechstens ==
  ASSUME NEW S, NEW T, IsFiniteSet(S), IsFiniteSet(T), NEW U, U \subseteq S \cup T
  PROVE  /\ IsFiniteSet(U) /\ Cardinality(U) \in Nat
         /\ Cardinality(S) \in Nat /\ Cardinality(T) \in Nat
         /\ Cardinality(U) <= Cardinality(S) + Cardinality(T)
<1>1. IsFiniteSet(S \cup T) /\ IsFiniteSet(S \cap T) BY FS_Union, FS_Intersection
<1>2. Cardinality(S \cup T) = Cardinality(S) + Cardinality(T) - Cardinality(S \cap T) BY FS_Union
<1>3. /\ Cardinality(S) \in Nat /\ Cardinality(T) \in Nat /\ Cardinality(S \cap T) \in Nat
  BY <1>1, FS_CardinalityType
<1>4. IsFiniteSet(U) /\ Cardinality(U) \in Nat /\ Cardinality(U) <= Cardinality(S \cup T)
  BY <1>1, TeilEndlich
<1>5. Cardinality(S \cup T) <= Cardinality(S) + Cardinality(T) BY <1>2, <1>3
<1>6. Cardinality(S \cup T) \in Nat BY <1>1, FS_CardinalityType
<1> QED BY <1>3, <1>4, <1>5, <1>6

LEMMA TeileEndlich ==
  ASSUME NEW h \in Nat, NEW L, L \subseteq 1 .. h, NEW k, NEW g
  PROVE  /\ IsFiniteSet(L) /\ Cardinality(L) \in Nat
         /\ IsFiniteSet(Ab(k, L)) /\ Cardinality(Ab(k, L)) \in Nat
         /\ IsFiniteSet(AltAb(k, L, g)) /\ Cardinality(AltAb(k, L, g)) \in Nat
         /\ IsFiniteSet(Neu(L, g)) /\ Cardinality(Neu(L, g)) \in Nat
<1>1. IsFiniteSet(1 .. h) BY FS_Interval
<1>2. IsFiniteSet(L) /\ Cardinality(L) \in Nat BY <1>1, TeilEndlich
<1>3. Ab(k, L) \subseteq L /\ AltAb(k, L, g) \subseteq L /\ Neu(L, g) \subseteq L
  BY DEF Ab, AltAb, Neu
<1> QED BY <1>2, <1>3, TeilEndlich

LEMMA SatzTyp ==
  ASSUME NEW h \in Nat, NEW L, L \subseteq 1 .. h, NEW g
  PROVE  /\ Satz(L, g) \in Nat /\ VORRAT <= Satz(L, g)
         /\ Cardinality(Neu(L, g)) <= Satz(L, g)
         /\ (Cardinality(Neu(L, g)) <= VORRAT => Satz(L, g) = VORRAT)
<1>1. VORRAT \in Nat BY VorratAnnahme
<1>2. Cardinality(Neu(L, g)) \in Nat BY TeileEndlich
<1> QED BY <1>1, <1>2 DEF Satz

(* A key has at least as many keys from it on as its depth says, and as    *)
(* many and a set if everything is registered.                             *)
LEMMA TiefeMisst ==
  ASSUME NEW h \in Nat, NEW L, L \subseteq 1 .. h, NEW g \in {-1} \cup (0 .. h), NEW k \in Nat
  PROVE  /\ Tiefe(k, L, g) \in Nat
         /\ Cardinality(Ab(k, L)) \in Nat
         /\ Cardinality(Ab(k, L)) <= Tiefe(k, L, g)
         /\ Tiefe(k, L, -1) = Cardinality(Ab(k, L))
         /\ (Fertig(L, g) => Tiefe(k, L, g) = Cardinality(Ab(k, L)) + VORRAT)
<1>1. /\ Cardinality(Ab(k, L)) \in Nat /\ Cardinality(AltAb(k, L, g)) \in Nat
      /\ Cardinality(Neu(L, g)) \in Nat
      /\ IsFiniteSet(AltAb(k, L, g)) /\ IsFiniteSet(Neu(L, g))
  BY TeileEndlich
<1>2. Satz(L, g) \in Nat /\ Cardinality(Neu(L, g)) <= Satz(L, g)
      /\ (Cardinality(Neu(L, g)) <= VORRAT => Satz(L, g) = VORRAT)
  BY SatzTyp
<1>3. \A l \in L : l \in Nat OBVIOUS
<1>4. Ab(k, L) \subseteq AltAb(k, L, g) \cup Neu(L, g)
  <2>1. \A l \in L : l <= g \/ l > g BY <1>3
  <2> QED BY <2>1 DEF Ab, AltAb, Neu
<1>5. Cardinality(Ab(k, L)) <= Cardinality(AltAb(k, L, g)) + Cardinality(Neu(L, g))
  BY <1>1, <1>4, VereinigungHoechstens
<1>6. Tiefe(k, L, -1) = Cardinality(Ab(k, L)) BY DEF Tiefe
<1>7. CASE g = -1
  <2>1. ~Fertig(L, g) BY <1>7 DEF Fertig
  <2> QED BY <1>1, <1>6, <1>7, <2>1
<1>8. CASE g # -1
  <2>1. Tiefe(k, L, g) = Cardinality(AltAb(k, L, g)) + Satz(L, g) BY <1>8 DEF Tiefe
  <2>2. ASSUME Fertig(L, g) PROVE Tiefe(k, L, g) = Cardinality(Ab(k, L)) + VORRAT
    <3>1. Neu(L, g) = {} /\ AltAb(k, L, g) = Ab(k, L)
      <4>1. g \in Nat /\ \A l \in L : l <= g BY <2>2 DEF Fertig
      <4>2. \A l \in L : ~(l > g) BY <1>3, <4>1
      <4>3. Neu(L, g) = {} BY <4>2 DEF Neu
      <4>4. AltAb(k, L, g) = Ab(k, L) BY <4>1 DEF AltAb, Ab
      <4> QED BY <4>3, <4>4
    <3>2. Cardinality(Neu(L, g)) = 0 BY <3>1, FS_EmptySet
    <3>3. VORRAT \in Nat BY VorratAnnahme
    <3>4. Satz(L, g) = VORRAT BY <1>2, <3>2, <3>3
    <3> QED BY <2>1, <3>1, <3>4
  <2> QED BY <1>1, <1>2, <1>5, <1>6, <2>1, <2>2
<1> QED BY <1>7, <1>8

LEMMA TiefeMonoton ==
  ASSUME NEW h \in Nat, NEW L, L \subseteq 1 .. h, NEW g, NEW k, NEW L1, L1 \subseteq L
  PROVE  Tiefe(k, L1, g) <= Tiefe(k, L, g)
<1>1. L1 \subseteq 1 .. h OBVIOUS
<1>2. /\ Cardinality(Ab(k, L1)) <= Cardinality(Ab(k, L))
      /\ Cardinality(AltAb(k, L1, g)) <= Cardinality(AltAb(k, L, g))
      /\ Cardinality(Neu(L1, g)) <= Cardinality(Neu(L, g))
  <2>1. /\ Ab(k, L1) \subseteq Ab(k, L) /\ AltAb(k, L1, g) \subseteq AltAb(k, L, g)
        /\ Neu(L1, g) \subseteq Neu(L, g)
    BY DEF Ab, AltAb, Neu
  <2>2. IsFiniteSet(Ab(k, L)) /\ IsFiniteSet(AltAb(k, L, g)) /\ IsFiniteSet(Neu(L, g))
    BY TeileEndlich
  <2> QED BY <2>1, <2>2, TeilEndlich
<1>3. /\ Cardinality(Ab(k, L)) \in Nat /\ Cardinality(AltAb(k, L, g)) \in Nat
      /\ Cardinality(Neu(L, g)) \in Nat
  BY TeileEndlich
<1>4. /\ Cardinality(Ab(k, L1)) \in Nat /\ Cardinality(AltAb(k, L1, g)) \in Nat
      /\ Cardinality(Neu(L1, g)) \in Nat
  BY <1>1, TeileEndlich
<1>5. VORRAT \in Nat BY VorratAnnahme
<1>6. Satz(L1, g) <= Satz(L, g) /\ Satz(L1, g) \in Nat /\ Satz(L, g) \in Nat
  BY <1>2, <1>3, <1>4, <1>5 DEF Satz
<1> QED BY <1>2, <1>3, <1>4, <1>6 DEF Tiefe

(* The keys of an upload, if the relay takes it. *)
LEMMA TiefeNeuer ==
  ASSUME NEW h \in Nat, NEW L, L \subseteq 1 .. h, NEW g \in {-1} \cup (0 .. h),
         NEW k \in Neu(L, g), Cardinality(Neu(L, g)) <= BUENDEL_MAX
  PROVE  Tiefe(k, L, g) <= BUENDEL_MAX
<1>1. VORRAT \in Nat /\ BUENDEL_MAX \in Nat /\ VORRAT <= BUENDEL_MAX BY VorratAnnahme
<1>2. Cardinality(Neu(L, g)) \in Nat /\ IsFiniteSet(Neu(L, g)) BY TeileEndlich
<1>3. k \in Nat /\ k > g BY DEF Neu
<1>4. CASE g = -1
  <2>1. Ab(k, L) \subseteq Neu(L, g)
    <3>1. \A l \in L : l > g BY <1>4
    <3> QED BY <3>1 DEF Ab, Neu
  <2>2. Cardinality(Ab(k, L)) <= Cardinality(Neu(L, g)) /\ Cardinality(Ab(k, L)) \in Nat
    BY <1>2, <2>1, TeilEndlich
  <2> QED BY <1>1, <1>2, <1>4, <2>2 DEF Tiefe
<1>5. CASE g # -1
  <2>1. AltAb(k, L, g) = {}
    <3>1. ASSUME NEW l \in L, k <= l, l <= g PROVE FALSE BY <1>3, <1>5, <3>1
    <3> QED BY <3>1 DEF AltAb
  <2>2. Cardinality(AltAb(k, L, g)) = 0 BY <2>1, FS_EmptySet
  <2>3. Tiefe(k, L, g) = 0 + Satz(L, g) BY <1>5, <2>2 DEF Tiefe
  <2>4. Satz(L, g) <= BUENDEL_MAX /\ Satz(L, g) \in Nat BY <1>1, <1>2 DEF Satz
  <2> QED BY <2>3, <2>4
<1> QED BY <1>4, <1>5

(* A key with few keys from it on is kept. *)
LEMMA NichtZuAlt ==
  ASSUME NEW h \in Nat, NEW A, A \subseteq 1 .. h, NEW k \in A,
         Cardinality(Ab(k, A)) <= HOECHSTZAHL
  PROVE  k \in Neueste(A)
<1>1. PICK T : T = {l \in A : l > k} OBVIOUS
<1>2. k \in Nat /\ \A l \in A : l \in Nat OBVIOUS
<1>3. Ab(k, A) = T \cup {k} /\ k \notin T
  <2>1. \A l \in A : k <= l <=> (l > k \/ l = k) BY <1>2
  <2>2. \A l \in A : l \in Ab(k, A) <=> l \in T \cup {k} BY <1>1, <2>1 DEF Ab
  <2>3. Ab(k, A) \subseteq A /\ T \cup {k} \subseteq A BY <1>1 DEF Ab
  <2>4. k \notin T BY <1>1, <1>2
  <2> QED BY <2>2, <2>3, <2>4
<1>4. IsFiniteSet(T) /\ Cardinality(T) \in Nat
  <2>1. IsFiniteSet(A) BY TeileEndlich
  <2> QED BY <1>1, <2>1, TeilEndlich
<1>5. Cardinality(Ab(k, A)) = Cardinality(T) + 1 BY <1>3, <1>4, FS_AddElement
<1>6. HOECHSTZAHL \in Nat BY VorratAnnahme
<1>7. Cardinality(T) < HOECHSTZAHL BY <1>4, <1>5, <1>6
<1> QED BY <1>1, <1>7 DEF Neueste

LEMMA SatzIst ==
  ASSUME NEW h \in Nat
  PROVE  /\ IsFiniteSet(h + 1 .. h + VORRAT) /\ Cardinality(h + 1 .. h + VORRAT) = VORRAT
<1>1. VORRAT \in Nat \ {0} BY VorratAnnahme
<1>2. h + 1 \in Int /\ h + VORRAT \in Int BY <1>1
<1>3. /\ IsFiniteSet(h + 1 .. h + VORRAT)
      /\ Cardinality(h + 1 .. h + VORRAT)
           = IF h + 1 > h + VORRAT THEN 0 ELSE (h + VORRAT) - (h + 1) + 1
  BY <1>2, FS_Interval
<1>4. ~(h + 1 > h + VORRAT) /\ (h + VORRAT) - (h + 1) + 1 = VORRAT BY <1>1
<1> QED BY <1>3, <1>4

(* A refill of a registered supply makes no key deeper. *)
LEMMA TiefeErgaenzt ==
  ASSUME NEW h \in Nat, NEW L, L \subseteq 1 .. h, NEW g \in {-1} \cup (0 .. h), Fertig(L, g),
         NEW L1, NEW h1, h1 = h + VORRAT, Ergaenzt(L, h, L1, h1), NEW k \in L
  PROVE  /\ (Tiefe(k, L, g) <= HOECHSTZAHL => k \in L1)
         /\ Tiefe(k, L1, g) <= Tiefe(k, L, g)
<1>1. VORRAT \in Nat \ {0} BY VorratAnnahme
<1>2. PICK S, A : S = h + 1 .. h + VORRAT /\ A = L \cup S OBVIOUS
<1>3. h1 \in Nat /\ A \subseteq 1 .. h1 /\ k \in Nat /\ k \in A BY <1>1, <1>2
<1>4. L1 = Neueste(A) /\ L1 \subseteq A BY <1>2 DEF Ergaenzt, Neueste
<1>5. IsFiniteSet(S) /\ Cardinality(S) = VORRAT BY <1>2, SatzIst
<1>6. Tiefe(k, L, g) = Cardinality(Ab(k, L)) + VORRAT /\ Cardinality(Ab(k, L)) \in Nat
  BY <1>3, TiefeMisst
<1>7. IsFiniteSet(Ab(k, L)) BY TeileEndlich
<1>8. Cardinality(Ab(k, A)) <= Cardinality(Ab(k, L)) + VORRAT /\ Cardinality(Ab(k, A)) \in Nat
  <2>1. Ab(k, A) \subseteq Ab(k, L) \cup S BY <1>2 DEF Ab
  <2> QED BY <1>5, <1>7, <2>1, VereinigungHoechstens
<1>9. ASSUME Tiefe(k, L, g) <= HOECHSTZAHL PROVE k \in L1
  <2>1. HOECHSTZAHL \in Nat BY VorratAnnahme
  <2>2. Cardinality(Ab(k, A)) <= HOECHSTZAHL BY <1>1, <1>6, <1>8, <1>9, <2>1
  <2> QED BY <1>3, <1>4, <2>2, NichtZuAlt
<1>10. Tiefe(k, A, g) <= Tiefe(k, L, g) /\ Tiefe(k, A, g) \in Nat
  <2>1. g \in 0 .. h /\ \A l \in L : l <= g BY DEF Fertig
  <2>2. Neu(A, g) = S
    <3>1. \A l \in S : l > g BY <1>1, <1>2, <2>1
    <3>2. \A l \in L : ~(l > g) BY <2>1
    <3> QED BY <1>2, <3>1, <3>2 DEF Neu
  <2>3. AltAb(k, A, g) = Ab(k, L)
    <3>1. \A l \in S : ~(l <= g) BY <1>1, <1>2, <2>1
    <3> QED BY <1>2, <2>1, <3>1 DEF AltAb, Ab
  <2>4. Satz(A, g) = VORRAT BY <1>1, <1>5, <2>2 DEF Satz
  <2>5. g # -1 BY <2>1
  <2>6. Tiefe(k, A, g) = Cardinality(Ab(k, L)) + VORRAT BY <2>3, <2>4, <2>5 DEF Tiefe
  <2> QED BY <1>1, <1>6, <2>6
<1>11. Tiefe(k, L1, g) <= Tiefe(k, A, g) BY <1>3, <1>4, TiefeMonoton
<1>12. Tiefe(k, L1, g) \in Nat
  <2>1. L1 \subseteq 1 .. h1 BY <1>3, <1>4
  <2>2. g \in {-1} \cup (0 .. h1) BY <1>1
  <2> QED BY <1>3, <2>1, <2>2, TiefeMisst
<1>13. Tiefe(k, L, g) \in Nat BY <1>3, TiefeMisst
<1> QED BY <1>9, <1>10, <1>11, <1>12, <1>13

(* Nor does the start lose one: it refills only a supply so small that it  *)
(* fits into a bundle afterwards.                                          *)
LEMMA TiefeNachStart ==
  ASSUME NEW h \in Nat, NEW L, L \subseteq 1 .. h, NEW g \in {-1} \cup (0 .. h),
         UNTERGRENZE + VORRAT <= BUENDEL_MAX, BUENDEL_MAX <= HOECHSTZAHL,
         NEW L1, NEW h1, Ergaenzt(L, h, L1, h1), BeimStart(L, h, h1), NEW k \in L
  PROVE  /\ (Tiefe(k, L, g) <= HOECHSTZAHL => k \in L1)
         /\ \/ Tiefe(k, L1, g) <= BUENDEL_MAX
            \/ L1 \subseteq L /\ Tiefe(k, L1, g) <= Tiefe(k, L, g)
<1>1. /\ VORRAT \in Nat \ {0} /\ UNTERGRENZE \in Nat /\ HOECHSTZAHL \in Nat
      /\ BUENDEL_MAX \in Nat
  BY VorratAnnahme
<1>2. PICK A : A = L \cup (h + 1 .. h1) OBVIOUS
<1>3. L1 = Neueste(A) /\ L1 \subseteq A /\ k \in A /\ k \in Nat
  <2>1. L1 = Neueste(A) BY <1>2 DEF Ergaenzt
  <2>2. Neueste(A) \subseteq A BY DEF Neueste
  <2>3. k \in A /\ k \in Nat BY <1>2
  <2> QED BY <2>1, <2>2, <2>3
<1>4. CASE h1 = h
  <2>1. A = L BY <1>2, <1>4
  <2>2. Cardinality(Ab(k, L)) <= Tiefe(k, L, g) /\ Cardinality(Ab(k, L)) \in Nat
        /\ Tiefe(k, L, g) \in Nat
    BY <1>3, TiefeMisst
  <2>3. Tiefe(k, L, g) <= HOECHSTZAHL => Cardinality(Ab(k, A)) <= HOECHSTZAHL
    BY <1>1, <2>1, <2>2
  <2>4. A \subseteq 1 .. h BY <2>1
  <2>5. Tiefe(k, L, g) <= HOECHSTZAHL => k \in L1 BY <1>3, <2>3, <2>4, NichtZuAlt
  <2>6. L1 \subseteq L BY <1>3, <2>1
  <2>7. Tiefe(k, L1, g) <= Tiefe(k, L, g) BY <2>6, TiefeMonoton
  <2> QED BY <2>5, <2>6, <2>7
<1>5. CASE h1 # h
  <2>1. h1 = h + VORRAT /\ Cardinality(L) < UNTERGRENZE BY <1>5 DEF Ergaenzt, BeimStart
  <2>2. PICK S : S = h + 1 .. h + VORRAT OBVIOUS
  <2>3. A = L \cup S /\ A \subseteq 1 .. h1 /\ h1 \in Nat BY <1>1, <1>2, <2>1, <2>2
  <2>4. IsFiniteSet(S) /\ Cardinality(S) = VORRAT BY <2>2, SatzIst
  <2>5. IsFiniteSet(L) /\ Cardinality(L) \in Nat BY TeileEndlich
  <2>6. /\ IsFiniteSet(A) /\ Cardinality(A) \in Nat /\ Cardinality(A) <= Cardinality(L) + VORRAT
    BY <2>3, <2>4, <2>5, VereinigungHoechstens
  <2>7. Cardinality(L) + VORRAT <= BUENDEL_MAX BY <1>1, <2>1, <2>5
  <2>8. Cardinality(Ab(k, A)) \in Nat /\ Cardinality(Ab(k, A)) <= Cardinality(A)
    <3>1. Ab(k, A) \subseteq A BY DEF Ab
    <3> QED BY <2>6, <3>1, TeilEndlich
  <2>9. Cardinality(Ab(k, A)) <= HOECHSTZAHL BY <1>1, <2>5, <2>6, <2>7, <2>8
  <2>10. k \in L1 BY <1>3, <2>3, <2>9, NichtZuAlt
  <2>11. Tiefe(k, A, g) <= BUENDEL_MAX /\ Tiefe(k, A, g) \in Nat
    <3>1. g \in {-1} \cup (0 .. h1) BY <1>1, <2>1
    <3>2. Tiefe(k, A, g) \in Nat BY <1>3, <2>3, <3>1, TiefeMisst
    <3>3. CASE g = -1
      <4>1. Tiefe(k, A, g) = Cardinality(Ab(k, A)) BY <3>3 DEF Tiefe
      <4> QED BY <1>1, <2>5, <2>6, <2>7, <2>8, <3>2, <4>1
    <3>4. CASE g # -1
      <4>1. g \in 0 .. h BY <3>4
      <4>2. AltAb(k, A, g) \subseteq L
        <5>1. \A l \in S : ~(l <= g) BY <1>1, <2>2, <4>1
        <5> QED BY <2>3, <5>1 DEF AltAb
      <4>3. /\ IsFiniteSet(AltAb(k, A, g)) /\ Cardinality(AltAb(k, A, g)) \in Nat
            /\ Cardinality(AltAb(k, A, g)) <= Cardinality(L)
        BY <2>5, <4>2, TeilEndlich
      <4>4. /\ IsFiniteSet(Neu(A, g)) /\ Cardinality(Neu(A, g)) \in Nat
        BY <2>3, TeileEndlich
      <4>5. Cardinality(AltAb(k, A, g)) + Cardinality(Neu(A, g)) <= Cardinality(A)
        <5>1. AltAb(k, A, g) \cap Neu(A, g) = {}
          <6>1. \A l \in A : l \in Nat BY <2>3
          <6>2. \A l \in A : ~(l <= g /\ l > g) BY <4>1, <6>1
          <6> QED BY <6>2 DEF AltAb, Neu
        <5>2. Cardinality({}) = 0 BY FS_EmptySet
        <5>3. Cardinality(AltAb(k, A, g) \cup Neu(A, g))
                = Cardinality(AltAb(k, A, g)) + Cardinality(Neu(A, g)) - Cardinality({})
          BY <4>3, <4>4, <5>1, FS_Union
        <5>4. AltAb(k, A, g) \cup Neu(A, g) \subseteq A BY DEF AltAb, Neu
        <5>5. Cardinality(AltAb(k, A, g) \cup Neu(A, g)) <= Cardinality(A)
          BY <2>6, <5>4, TeilEndlich
        <5> QED BY <4>3, <4>4, <5>2, <5>3, <5>5
      <4>6. Tiefe(k, A, g) = Cardinality(AltAb(k, A, g)) + Satz(A, g) BY <3>4 DEF Tiefe
      <4>7. Satz(A, g) = Cardinality(Neu(A, g)) \/ Satz(A, g) = VORRAT BY DEF Satz
      <4> QED BY <1>1, <2>5, <2>6, <2>7, <3>2, <4>3, <4>4, <4>5, <4>6, <4>7
    <3> QED BY <3>2, <3>3, <3>4
  <2>12. Tiefe(k, L1, g) <= Tiefe(k, A, g) BY <1>3, <2>3, TiefeMonoton
  <2>13. Tiefe(k, L1, g) \in Nat
    <3>1. L1 \subseteq 1 .. h1 BY <1>3, <2>3
    <3>2. g \in {-1} \cup (0 .. h1) BY <1>1, <2>1
    <3> QED BY <1>3, <2>3, <3>1, <3>2, TiefeMisst
  <2> QED BY <1>1, <2>10, <2>11, <2>12, <2>13
<1> QED BY <1>4, <1>5

(* i sets of keys. *)
Saetze(i) == VORRAT * i

LEMMA SaetzeIst ==
  ASSUME NEW i \in Nat, NEW j \in Nat
  PROVE  /\ Saetze(i) \in Nat /\ Saetze(0) = 0 /\ Saetze(i + 1) = Saetze(i) + VORRAT
         /\ Saetze(i + j) = Saetze(i) + Saetze(j)
         /\ (i <= j => Saetze(i) <= Saetze(j))
<1>1. VORRAT \in Nat BY VorratAnnahme
<1>2. \A n \in Nat : Saetze(n) \in Nat BY <1>1 DEF Saetze
<1>3. \A m, n \in Nat : Saetze(m + n) = Saetze(m) + Saetze(n) BY <1>1 DEF Saetze
<1>4. Saetze(0) = 0 /\ Saetze(1) = VORRAT BY <1>1 DEF Saetze
<1>5. ASSUME i <= j PROVE Saetze(i) <= Saetze(j)
  <2>1. PICK d \in Nat : j = i + d
    <3>1. j - i \in Nat /\ j = i + (j - i) BY <1>5
    <3> QED BY <3>1
  <2>2. Saetze(j) = Saetze(i) + Saetze(d) BY <1>3, <2>1
  <2>3. Saetze(i) \in Nat /\ Saetze(d) \in Nat BY <1>2
  <2> QED BY <2>2, <2>3
<1>6. Saetze(i + 1) = Saetze(i) + VORRAT BY <1>3, <1>4
<1> QED BY <1>2, <1>3, <1>4, <1>5, <1>6

(* The calls, aged or not, are what they were. *)
LEMMA GealtertIst ==
  ASSUME BestandTypeOK, NEW a \in Anlauf
  PROVE  /\ Gealtert[a].ph = anlauf[a].ph /\ Gealtert[a].ids = anlauf[a].ids
         /\ Gealtert[a].fuer = anlauf[a].fuer
         /\ IF anlauf[a].ph = "unterwegs" /\ Gilt(a)
              THEN Gealtert[a].alter = anlauf[a].alter + 1
              ELSE Gealtert[a].alter = anlauf[a].alter
<1>1. PICK r : r = anlauf[a] OBVIOUS
<1>2. r \in Anruf(hoch, spk) BY <1>1, TypFlach
<1>3. Gealtert[a] = IF r.ph = "unterwegs" /\ Gilt(a) THEN [r EXCEPT !.alter = @ + 1] ELSE r
  BY <1>1 DEF Gealtert
<1>4. PICK q : q = [r EXCEPT !.alter = @ + 1] OBVIOUS
<1>5. q.ph = r.ph /\ q.ids = r.ids /\ q.fuer = r.fuer /\ q.alter = r.alter + 1
  BY <1>2, <1>4 DEF Anruf
<1> QED BY <1>1, <1>3, <1>4, <1>5

LEMMA MitNeuemIst ==
  ASSUME BestandTypeOK, NEW a \in Anlauf, NEW fuer, MitNeuem(a, fuer)
  PROVE  /\ anlauf'[a] = NeuerAnruf(fuer)
         /\ \A b \in Anlauf : b # a => /\ anlauf'[b].ph = anlauf[b].ph
                                       /\ anlauf'[b].ids = anlauf[b].ids
                                       /\ anlauf'[b].fuer = anlauf[b].fuer
<1>1. PICK anrufe, r : /\ anrufe \in {anlauf, Gealtert} /\ r = NeuerAnruf(fuer)
                       /\ anlauf' = [anrufe EXCEPT ![a] = r]
  BY DEF MitNeuem
<1>2. DOMAIN anrufe = Anlauf
  <2>1. anlauf \in [Anlauf -> Anruf(hoch, spk)] BY TypFlach
  <2>2. DOMAIN Gealtert = Anlauf BY DEF Gealtert
  <2> QED BY <1>1, <2>1, <2>2
<1>3. anlauf'[a] = r /\ \A b \in Anlauf : b # a => anlauf'[b] = anrufe[b] BY <1>1, <1>2
<1>4. \A b \in Anlauf : /\ anrufe[b].ph = anlauf[b].ph /\ anrufe[b].ids = anlauf[b].ids
                        /\ anrufe[b].fuer = anlauf[b].fuer
  <2>1. CASE anrufe = anlauf BY <2>1
  <2>2. CASE anrufe = Gealtert BY <2>2, GealtertIst
  <2> QED BY <1>1, <2>1, <2>2
<1> QED BY <1>1, <1>3, <1>4

----------------------------------------------------------------------------
(* In what order the app registers and goes on to its line. *)
VerbindenMeldet == \A a \in Anlauf : anlauf[a].fuer = "verbinden" => verbindung = "meldet"
VerbindenEinmal ==
    \A a, b \in Anlauf : anlauf[a].fuer = "verbinden" /\ anlauf[b].fuer = "verbinden" => a = b
GemeldetVorLogin == knapp \/ verbindung = "login" => Fertig(lokal, gemeldetBis)
VermerkPasst ==
    vermerk = <<0, 0>> \/ (gemeldetBis # -1 /\ vermerk[2] <= gemeldetBis)
Ordnung == /\ VerbindenMeldet /\ VerbindenEinmal /\ KnappNurOnline
           /\ GemeldetVorLogin /\ VermerkPasst

LEMMA GleichOrdnung ==
  ASSUME Ordnung,
         \A a \in Anlauf : anlauf'[a].fuer = "verbinden" =>
           anlauf[a].fuer = "verbinden" /\ verbindung' = "meldet",
         knapp' => verbindung' = "online",
         knapp' \/ verbindung' = "login" => Fertig(lokal', gemeldetBis'),
         VermerkPasst'
  PROVE  Ordnung'
<1>1. VerbindenMeldet' BY DEF VerbindenMeldet
<1>2. VerbindenEinmal' BY DEF Ordnung, VerbindenEinmal
<1>3. KnappNurOnline' BY DEF KnappNurOnline
<1>4. GemeldetVorLogin' BY DEF GemeldetVorLogin
<1> QED BY <1>1, <1>2, <1>3, <1>4 DEF Ordnung

(* Verbinde and FuelleNachUndMelde *)
LEMMA VerbindeOrdnung ==
  ASSUME BestandTypeOK, Ordnung, Verbinde
  PROVE  Ordnung'
<1>1. /\ verbindung = "getrennt" /\ verbindung' = "meldet"
      /\ \E a \in Anlauf : Meldet(a, lokal, hoch, anlauf, "verbinden")
      /\ UNCHANGED <<gemeldetBis, vermerk, knapp>>
  BY VerbindeIst
<1>2. PICK a, fuer : a \in Anlauf /\ fuer = "verbinden" /\ MitNeuem(a, fuer)
  <2>1. PICK a, L, h, anrufe, f :
          a \in Anlauf /\ anrufe = anlauf /\ f = "verbinden" /\ Meldet(a, L, h, anrufe, f)
    BY <1>1
  <2> QED BY <2>1, MeldetMitNeuem
<1>3. \A b \in Anlauf : b # a => anlauf'[b].fuer = anlauf[b].fuer BY <1>2, MitNeuemIst
<1>4. \A b \in Anlauf : anlauf[b].fuer # "verbinden" BY <1>1 DEF Ordnung, VerbindenMeldet
<1>5. ~knapp BY <1>1 DEF Ordnung, KnappNurOnline
<1>6. VerbindenMeldet' /\ VerbindenEinmal'
  BY <1>1, <1>3, <1>4 DEF VerbindenMeldet, VerbindenEinmal
<1>7. KnappNurOnline' /\ GemeldetVorLogin' BY <1>1, <1>5 DEF KnappNurOnline, GemeldetVorLogin
<1>8. VermerkPasst' BY <1>1 DEF Ordnung, VermerkPasst
<1> QED BY <1>6, <1>7, <1>8 DEF Ordnung

LEMMA FuelleNachOrdnung ==
  ASSUME BestandTypeOK, Ordnung, FuelleNachUndMelde
  PROVE  Ordnung'
<1>1. /\ verbindung = "online" /\ verbindung' = "online" /\ knapp' = FALSE
      /\ \E a \in Anlauf : \E L1, h1 : /\ Ergaenzt(lokal, hoch, L1, h1) /\ h1 = hoch + VORRAT
                                       /\ Meldet(a, L1, h1, Gealtert, "nachschub")
      /\ UNCHANGED <<gemeldetBis, vermerk>>
  BY FuelleNachIst
<1>2. PICK a, fuer : a \in Anlauf /\ fuer = "nachschub" /\ MitNeuem(a, fuer)
  <2>1. PICK a, L, h, anrufe, f :
          a \in Anlauf /\ anrufe = Gealtert /\ f = "nachschub" /\ Meldet(a, L, h, anrufe, f)
    BY <1>1
  <2> QED BY <2>1, MeldetMitNeuem
<1>3. /\ anlauf'[a] = NeuerAnruf(fuer)
      /\ \A b \in Anlauf : b # a => anlauf'[b].fuer = anlauf[b].fuer
  BY <1>2, MitNeuemIst
<1>4. anlauf'[a].fuer # "verbinden" BY <1>2, <1>3 DEF NeuerAnruf
<1>5. \A b \in Anlauf : anlauf'[b].fuer # "verbinden"
  BY <1>1, <1>3, <1>4 DEF Ordnung, VerbindenMeldet
<1>6. VermerkPasst' BY <1>1 DEF Ordnung, VermerkPasst
<1> QED BY <1>1, <1>5, <1>6, GleichOrdnung

(* A note that fits the keys says they are all registered. *)
LEMMA VermerkSagtFertig ==
  ASSUME BestandTypeOK, VermerkPasst, vermerk = Stand(Bestand)
  PROVE  Fertig(lokal, gemeldetBis)
<1>1. PICK m : m = Groesste(lokal) OBVIOUS
<1>2. vermerk = <<spk, m>> /\ m \in 0 .. hoch /\ \A l \in lokal : l <= m BY <1>1, StandTyp
<1>3. /\ spk >= 1 /\ spk \in Nat /\ hoch \in Nat /\ lokal \subseteq 1 .. hoch
      /\ gemeldetBis \in {-1} \cup (0 .. hoch)
  BY TypFlach
<1>4. vermerk # <<0, 0>> /\ vermerk[2] = m BY <1>2, <1>3
<1>5. gemeldetBis # -1 /\ m <= gemeldetBis BY <1>4 DEF VermerkPasst
<1>6. \A l \in lokal : l <= gemeldetBis BY <1>2, <1>3, <1>5
<1> QED BY <1>5, <1>6 DEF Fertig

LEMMA OhneAnmeldungOrdnung ==
  ASSUME BestandTypeOK, Ordnung, VerbindeOhneAnmeldung
  PROVE  Ordnung'
<1>1. /\ verbindung = "getrennt" /\ verbindung' = "login" /\ vermerk = Stand(Bestand)
      /\ UNCHANGED <<lokal, hoch, gemeldetBis, vermerk, knapp, anlauf>>
  BY DEF VerbindeOhneAnmeldung, geraet, meta
<1>2. VermerkPasst /\ VerbindenMeldet /\ KnappNurOnline BY DEF Ordnung
<1>3. Fertig(lokal, gemeldetBis) BY <1>1, <1>2, VermerkSagtFertig
<1>4. Fertig(lokal', gemeldetBis') BY <1>1, <1>3
<1>5. \A b \in Anlauf : anlauf'[b].fuer # "verbinden" BY <1>1, <1>2 DEF VerbindenMeldet
<1>6. VermerkPasst' BY <1>1, <1>2 DEF VermerkPasst
<1>7. ~knapp' BY <1>1, <1>2 DEF KnappNurOnline
<1> QED BY <1>4, <1>5, <1>6, <1>7, GleichOrdnung

LEMMA LoginOrdnung ==
  ASSUME BestandTypeOK, Ordnung, Login
  PROVE  Ordnung'
<1>1. verbindung = "login" /\ UNCHANGED <<lokal, anlauf>> BY DEF Login, geraet
<1>2. /\ VermerkPasst /\ VerbindenMeldet /\ KnappNurOnline /\ Fertig(lokal, gemeldetBis)
  BY <1>1 DEF Ordnung, GemeldetVorLogin
<1>3. \A b \in Anlauf : anlauf'[b].fuer # "verbinden" BY <1>1, <1>2 DEF VerbindenMeldet
<1>4. CASE bekannt
  <2>1. verbindung' = "online" /\ UNCHANGED <<gemeldetBis, vermerk>> BY <1>4 DEF Login, meta
  <2>2. Fertig(lokal', gemeldetBis') BY <1>1, <1>2, <2>1
  <2>3. VermerkPasst' BY <1>2, <2>1 DEF VermerkPasst
  <2> QED BY <1>3, <2>1, <2>2, <2>3, GleichOrdnung
<1>5. CASE ~bekannt
  <2>1. verbindung' = "getrennt" /\ vermerk' = <<0, 0>> /\ knapp' = knapp
    BY <1>5 DEF Login, OhneVermerk
  <2>2. ~knapp' BY <1>1, <1>2, <2>1 DEF KnappNurOnline
  <2>3. VermerkPasst' BY <2>1 DEF VermerkPasst
  <2> QED BY <1>3, <2>1, <2>2, <2>3, GleichOrdnung
<1> QED BY <1>4, <1>5

(* A call takes another value, and no new one waits to connect. *)
LEMMA SetzeOrdnung ==
  ASSUME BestandTypeOK, Ordnung, NEW a \in Anlauf, NEW r, Setze(a, r),
         r.fuer = "verbinden" => anlauf[a].fuer = "verbinden" /\ verbindung' = "meldet",
         \/ verbindung' = verbindung
         \/ anlauf[a].fuer = "verbinden" /\ verbindung' \in {"getrennt", "login"},
         knapp' = knapp, lokal' = lokal,
         verbindung' # "login" \/ verbindung = "login" => gemeldetBis' = gemeldetBis
           \/ Fertig(lokal', gemeldetBis'),
         verbindung' = "login" => verbindung = "login" \/ Fertig(lokal', gemeldetBis'),
         VermerkPasst'
  PROVE  Ordnung'
<1>1. anlauf \in [Anlauf -> Anruf(hoch, spk)] BY TypFlach
<1>2. anlauf'[a] = r /\ \A b \in Anlauf : b # a => anlauf'[b] = anlauf[b]
  BY <1>1 DEF Setze
<1>3. VerbindenMeldet /\ VerbindenEinmal /\ KnappNurOnline /\ GemeldetVorLogin BY DEF Ordnung
<1>4. anlauf[a].fuer = "verbinden" => verbindung = "meldet" /\ ~knapp
  BY <1>3 DEF VerbindenMeldet, KnappNurOnline
<1>5. ASSUME NEW b \in Anlauf, anlauf'[b].fuer = "verbinden"
      PROVE  anlauf[b].fuer = "verbinden" /\ verbindung' = "meldet"
  <2>1. CASE b = a BY <1>2, <1>5, <2>1
  <2>2. CASE b # a
    <3>1. anlauf[b].fuer = "verbinden" BY <1>2, <1>5, <2>2
    <3>2. verbindung = "meldet" BY <1>3, <3>1 DEF VerbindenMeldet
    <3>3. anlauf[a].fuer # "verbinden" BY <1>3, <2>2, <3>1 DEF VerbindenEinmal
    <3> QED BY <3>1, <3>2, <3>3
  <2> QED BY <2>1, <2>2
<1>6. knapp' => verbindung' = "online" BY <1>3, <1>4 DEF KnappNurOnline
<1>7. knapp' \/ verbindung' = "login" => Fertig(lokal', gemeldetBis')
  <2>1. CASE knapp'
    <3>1. knapp /\ verbindung = "online" /\ verbindung' = "online"
      BY <1>3, <1>6, <2>1 DEF KnappNurOnline
    <3>2. Fertig(lokal, gemeldetBis) BY <1>3, <3>1 DEF GemeldetVorLogin
    <3> QED BY <3>1, <3>2
  <2>2. CASE verbindung' = "login"
    <3>1. verbindung = "login" => Fertig(lokal, gemeldetBis) BY <1>3 DEF GemeldetVorLogin
    <3> QED BY <2>2, <3>1
  <2> QED BY <2>1, <2>2
<1> QED BY <1>5, <1>6, <1>7, GleichOrdnung

LEMMA NimmtOrdnung ==
  ASSUME BestandTypeOK, Ordnung, NEW a \in Anlauf, RelayNimmt(a)
  PROVE  Ordnung'
<1>1. /\ Setze(a, [anlauf[a] EXCEPT !.ph = "angenommen"])
      /\ UNCHANGED <<lokal, gemeldetBis, vermerk, verbindung, knapp>>
  BY DEF RelayNimmt, geraet, meta
<1>2. PICK r : r = [anlauf[a] EXCEPT !.ph = "angenommen"] OBVIOUS
<1>3. r.fuer = anlauf[a].fuer
  <2>1. PICK q : q = anlauf[a] OBVIOUS
  <2>2. q \in Anruf(hoch, spk) BY <2>1, TypFlach
  <2> QED BY <1>2, <2>1, <2>2 DEF Anruf
<1>4. VermerkPasst /\ VerbindenMeldet BY DEF Ordnung
<1>5. r.fuer = "verbinden" => anlauf[a].fuer = "verbinden" /\ verbindung' = "meldet"
  BY <1>1, <1>3, <1>4 DEF VerbindenMeldet
<1>6. VermerkPasst' BY <1>1, <1>4 DEF VermerkPasst
<1>7. Setze(a, r) BY <1>1, <1>2
<1> QED BY <1>1, <1>5, <1>6, <1>7, SetzeOrdnung

(* A call ends without an answer. *)
LEMMA EndeOrdnung ==
  ASSUME BestandTypeOK, Ordnung, NEW a \in Anlauf, NEW r, Setze(a, r), r.fuer # "verbinden",
         verbindung' = IF anlauf[a].fuer = "verbinden" THEN "getrennt" ELSE verbindung,
         UNCHANGED <<lokal, gemeldetBis, vermerk, knapp>>
  PROVE  Ordnung'
<1>1. VermerkPasst' BY DEF Ordnung, VermerkPasst
<1>2. verbindung' = "login" => verbindung = "login" OBVIOUS
<1> QED BY <1>1, <1>2, SetzeOrdnung

LEMMA AntwortOrdnung ==
  ASSUME BestandTypeOK, Ordnung, NEW a \in Anlauf, AntwortKommt(a)
  PROVE  Ordnung' /\ Fertig(lokal', gemeldetBis')
<1>1. /\ Setze(a, Frei) /\ UNCHANGED <<lokal, knapp>>
      /\ verbindung' = IF anlauf[a].fuer = "verbinden" THEN "login" ELSE verbindung
      /\ gemeldetBis' = Groesste({anlauf[a].bis} \cup lokal)
      /\ vermerk' = Stand(Bestand)
  BY DEF AntwortKommt, geraet
<1>2. lokal \subseteq 1 .. hoch /\ hoch \in Nat BY TypFlach
<1>3. PICK m \in 0 .. hoch : gemeldetBis' = m /\ \A l \in lokal : l <= m
  <2>1. PICK q : q = anlauf[a] OBVIOUS
  <2>2. q \in Anruf(hoch, spk) BY <2>1, TypFlach
  <2>3. PICK b : b = q.bis OBVIOUS
  <2>4. b \in 0 .. hoch BY <2>2, <2>3, AnrufFelder
  <2>5. PICK m : m = Groesste({b} \cup lokal) OBVIOUS
  <2>6. m \in 0 .. hoch /\ \A l \in lokal : l <= m BY <2>4, <2>5, MarkeTyp
  <2>7. gemeldetBis' = m BY <1>1, <2>1, <2>3, <2>5
  <2> QED BY <2>6, <2>7
<1>4. gemeldetBis' # -1 BY <1>2, <1>3
<1>5. Fertig(lokal', gemeldetBis') BY <1>1, <1>3, <1>4 DEF Fertig
<1>6. VermerkPasst'
  <2>1. PICK g : g = Groesste(lokal) OBVIOUS
  <2>2. vermerk' = <<spk, g>> BY <1>1, <2>1, StandTyp
  <2>3. g \in {0} \cup lokal
    <3>1. lokal \in SUBSET (0 .. hoch) BY <1>2
    <3>2. PICK h, L : h = hoch /\ L = lokal OBVIOUS
    <3>3. Groesste(L) \in {0} \cup L BY <1>2, <3>1, <3>2, GroessteIst
    <3> QED BY <2>1, <3>2, <3>3
  <2>4. g <= gemeldetBis' BY <1>2, <1>3, <2>3
  <2> QED BY <1>4, <2>2, <2>4 DEF VermerkPasst
<1>7. PICK r : r = Frei OBVIOUS
<1>8. Setze(a, r) /\ r.fuer # "verbinden" BY <1>1, <1>7 DEF Frei
<1>9. \/ verbindung' = verbindung
      \/ anlauf[a].fuer = "verbinden" /\ verbindung' \in {"getrennt", "login"}
  BY <1>1
<1> QED BY <1>1, <1>5, <1>6, <1>8, <1>9, SetzeOrdnung

LEMMA ScheitertOrdnung ==
  ASSUME BestandTypeOK, Ordnung, NEW a \in Anlauf, Scheitert(a)
  PROVE  Ordnung'
<1>1. /\ Setze(a, IF anlauf[a].ph = "unterwegs" THEN [anlauf[a] EXCEPT !.fuer = "niemand"] ELSE Frei)
      /\ verbindung' = IF anlauf[a].fuer = "verbinden" THEN "getrennt" ELSE verbindung
      /\ UNCHANGED <<lokal, gemeldetBis, vermerk, knapp>>
  BY DEF Scheitert, geraet, meta
<1>2. PICK q : q = anlauf[a] OBVIOUS
<1>3. q \in Anruf(hoch, spk) BY <1>2, TypFlach
<1>4. PICK r : r = IF q.ph = "unterwegs" THEN [q EXCEPT !.fuer = "niemand"] ELSE Frei OBVIOUS
<1>5. [q EXCEPT !.fuer = "niemand"].fuer = "niemand" BY <1>3 DEF Anruf
<1>6. r.fuer # "verbinden" BY <1>4, <1>5 DEF Frei
<1>7. Setze(a, r) BY <1>1, <1>2, <1>4
<1> QED BY <1>1, <1>6, <1>7, EndeOrdnung

(* The line ends, or the app. *)
LEMMA GetrenntOrdnung ==
  ASSUME Ordnung, verbindung' = "getrennt", ~knapp', UNCHANGED <<gemeldetBis, vermerk>>,
         \A a \in Anlauf : anlauf'[a].fuer # "verbinden"
  PROVE  Ordnung'
<1>1. VermerkPasst' BY DEF Ordnung, VermerkPasst
<1> QED BY <1>1, GleichOrdnung

LEMMA AbrissOrdnung ==
  ASSUME BestandTypeOK, Ordnung, Abriss
  PROVE  Ordnung'
<1>1. /\ verbindung' = "getrennt" /\ ~knapp' /\ UNCHANGED <<gemeldetBis, vermerk>>
      /\ anlauf' = [a \in Anlauf |-> IF anlauf[a].fuer = "verbinden"
                                       THEN [anlauf[a] EXCEPT !.fuer = "ueberholt"] ELSE anlauf[a]]
  BY DEF Abriss, meta
<1>2. ASSUME NEW a \in Anlauf PROVE anlauf'[a].fuer # "verbinden"
  <2>1. PICK q : q = anlauf[a] OBVIOUS
  <2>2. q \in Anruf(hoch, spk) BY <2>1, TypFlach
  <2>3. [q EXCEPT !.fuer = "ueberholt"].fuer = "ueberholt" BY <2>2 DEF Anruf
  <2>4. anlauf'[a] = IF q.fuer = "verbinden" THEN [q EXCEPT !.fuer = "ueberholt"] ELSE q
    BY <1>1, <2>1
  <2> QED BY <2>3, <2>4
<1> QED BY <1>1, <1>2, GetrenntOrdnung

LEMMA AbsturzOrdnung ==
  ASSUME BestandTypeOK, Ordnung, Absturz
  PROVE  Ordnung'
<1>1. /\ verbindung' = "getrennt" /\ ~knapp' /\ UNCHANGED <<gemeldetBis, vermerk>>
      /\ anlauf' = [a \in Anlauf |-> IF anlauf[a].ph = "unterwegs"
                                       THEN [anlauf[a] EXCEPT !.fuer = "niemand"] ELSE Frei]
  BY DEF Absturz, meta
<1>2. ASSUME NEW a \in Anlauf PROVE anlauf'[a].fuer # "verbinden"
  <2>1. PICK q : q = anlauf[a] OBVIOUS
  <2>2. q \in Anruf(hoch, spk) BY <2>1, TypFlach
  <2>3. [q EXCEPT !.fuer = "niemand"].fuer = "niemand" BY <2>2 DEF Anruf
  <2>4. anlauf'[a] = IF q.ph = "unterwegs" THEN [q EXCEPT !.fuer = "niemand"] ELSE Frei
    BY <1>1, <2>1
  <2> QED BY <2>3, <2>4 DEF Frei
<1> QED BY <1>1, <1>2, GetrenntOrdnung

(* A step of the relay, of a peer, or none. *)
LEMMA FernOrdnung ==
  ASSUME BestandTypeOK, Ordnung, lokal' \subseteq lokal,
         UNCHANGED <<gemeldetBis, vermerk, verbindung, knapp, anlauf>>
  PROVE  Ordnung'
<1>1. VerbindenMeldet /\ KnappNurOnline /\ GemeldetVorLogin /\ VermerkPasst BY DEF Ordnung
<1>2. knapp' \/ verbindung' = "login" => Fertig(lokal', gemeldetBis')
  BY <1>1 DEF GemeldetVorLogin, Fertig
<1>3. VermerkPasst' BY <1>1 DEF VermerkPasst
<1>4. knapp' => verbindung' = "online" BY <1>1 DEF KnappNurOnline
<1>5. \A a \in Anlauf : anlauf'[a].fuer = "verbinden" =>
        anlauf[a].fuer = "verbinden" /\ verbindung' = "meldet"
  BY <1>1 DEF VerbindenMeldet
<1> QED BY <1>2, <1>3, <1>4, <1>5, GleichOrdnung

LEMMA OrdnungSchritt ==
  ASSUME BestandTypeOK, Ordnung, [VorratNext]_vorratVars
  PROVE  Ordnung'
<1>1. CASE Verbinde BY <1>1, VerbindeOrdnung
<1>2. CASE VerbindeOhneAnmeldung BY <1>2, OhneAnmeldungOrdnung
<1>3. CASE Login BY <1>3, LoginOrdnung
<1>4. CASE FuelleNachUndMelde BY <1>4, FuelleNachOrdnung
<1>5. ASSUME NEW a \in Anlauf, RelayNimmt(a) PROVE Ordnung' BY <1>5, NimmtOrdnung
<1>6. ASSUME NEW a \in Anlauf, RelayLehntAb(a) PROVE Ordnung'
  <2>1. PICK r : r = Frei OBVIOUS
  <2>2. /\ Setze(a, r)
        /\ verbindung' = IF anlauf[a].fuer = "verbinden" THEN "getrennt" ELSE verbindung
        /\ UNCHANGED <<lokal, gemeldetBis, vermerk, knapp>>
    BY <1>6, <2>1 DEF RelayLehntAb, geraet, meta
  <2>3. r.fuer # "verbinden" BY <2>1 DEF Frei
  <2> QED BY <2>2, <2>3, EndeOrdnung
<1>7. ASSUME NEW a \in Anlauf, AntwortKommt(a) PROVE Ordnung' BY <1>7, AntwortOrdnung
<1>8. ASSUME NEW a \in Anlauf, Scheitert(a) PROVE Ordnung' BY <1>8, ScheitertOrdnung
<1>9. ASSUME NEW a \in Anlauf, Verhallt(a) PROVE Ordnung'
  <2>1. PICK r : r = Frei OBVIOUS
  <2>2. /\ Setze(a, r) /\ anlauf[a].fuer = "niemand"
        /\ UNCHANGED <<lokal, gemeldetBis, vermerk, verbindung, knapp>>
    BY <1>9, <2>1 DEF Verhallt, geraet, meta
  <2>3. r.fuer # "verbinden" BY <2>1 DEF Frei
  <2>4. verbindung' = IF anlauf[a].fuer = "verbinden" THEN "getrennt" ELSE verbindung BY <2>2
  <2> QED BY <2>2, <2>3, <2>4, EndeOrdnung
<1>10. CASE Abriss BY <1>10, AbrissOrdnung
<1>11. CASE Absturz BY <1>11, AbsturzOrdnung
<1>12. CASE RelayVergisst
  <2>1. UNCHANGED <<lokal, gemeldetBis, vermerk, verbindung, knapp, anlauf>>
    BY <1>12 DEF RelayVergisst, geraet, meta
  <2> QED BY <2>1, FernOrdnung
<1>13. CASE PeerZieht
  <2>1. UNCHANGED <<lokal, gemeldetBis, vermerk, verbindung, knapp, anlauf>>
    BY <1>13 DEF PeerZieht, geraet, meta
  <2> QED BY <2>1, FernOrdnung
<1>14. CASE Erstnachricht
  <2>1. lokal' \subseteq lokal /\ UNCHANGED <<gemeldetBis, vermerk, verbindung, knapp, anlauf>>
    BY <1>14 DEF Erstnachricht, meta
  <2> QED BY <2>1, FernOrdnung
<1>15. CASE UNCHANGED vorratVars
  <2>1. UNCHANGED <<lokal, gemeldetBis, vermerk, verbindung, knapp, anlauf>>
    BY <1>15 DEF vorratVars, geraet, meta
  <2> QED BY <2>1, FernOrdnung
<1> QED BY <1>1, <1>2, <1>3, <1>4, <1>5, <1>6, <1>7, <1>8, <1>9, <1>10, <1>11, <1>12, <1>13,
           <1>14, <1>15 DEF VorratNext

(* PrekeySupply, through every loss, crash and forgetting: the app goes to *)
(* its line, and handles a low supply, only when every key it has is       *)
(* registered; one call at most belongs to the attempt to connect.         *)
THEOREM OrdnungBleibt == (VorratSpec => []Ordnung)
<1>1. VorratInit => Ordnung
  <2>1. SUFFICES ASSUME VorratInit PROVE Ordnung OBVIOUS
  <2>2. /\ verbindung = "getrennt" /\ knapp = FALSE /\ vermerk = <<0, 0>>
        /\ \A a \in Anlauf : anlauf[a].fuer = "niemand"
    BY <2>1 DEF VorratInit, Frei, OhneVermerk
  <2> QED BY <2>2 DEF Ordnung, VerbindenMeldet, VerbindenEinmal, KnappNurOnline,
                      GemeldetVorLogin, VermerkPasst
<1>2. BestandTypeOK /\ Ordnung /\ [VorratNext]_vorratVars => Ordnung' BY OrdnungSchritt
<1>3. VorratSpec => []BestandTypeOK BY BestandTyp
<1> QED BY <1>1, <1>2, <1>3, PTL DEF VorratSpec

----------------------------------------------------------------------------
(* How deep a key may lie that the relay offers, or may still take.        *)

(* A device keeps a bundle and i refills. *)
Reicht(i) == BUENDEL_MAX + Saetze(i) <= HOECHSTZAHL

(* A request the relay would take, and the refills and calls it had beside *)
(* it; the calls whose answer will still move the mark.                    *)
Annehmbar(a) == /\ anlauf[a].ph = "unterwegs" /\ Gilt(a)
                /\ Cardinality(anlauf[a].ids) <= BUENDEL_MAX
Breite(a) == anlauf[a].alter + neben[a]
Wartend == {a \in Anlauf : anlauf[a].ph = "angenommen" /\ anlauf[a].fuer # "niemand"}

(* The count of the calls: no more are under way than a request has seen,  *)
(* nor wait for an answer than the offered upload had beside it.           *)
Gezaehlte ==
    /\ \A a \in Anlauf : anlauf[a].ph = "unterwegs" => Cardinality(Belegt) <= neben[a]
    /\ Cardinality(Wartend) <= weite

(* Everything is registered, and a call has ended since most were beside a. *)
Luft(a) == Fertig(lokal, gemeldetBis) /\ Cardinality(Belegt) < neben[a]

AnrufeDa ==
    \A a \in Anlauf : Annehmbar(a) /\ Reicht(Breite(a))
                        => anlauf[a].ids \subseteq lokal \cup verbraucht
AnrufeNah ==
    \A a \in Anlauf : Annehmbar(a) => \A k \in anlauf[a].ids \cap lokal :
      \/ Tiefe(k, lokal, gemeldetBis) <= BUENDEL_MAX + Saetze(anlauf[a].alter)
      \/ Luft(a) /\ Tiefe(k, lokal, gemeldetBis) <= BUENDEL_MAX + Saetze(anlauf[a].alter) + VORRAT
AngebotNah ==
    \A k \in pool \cap lokal :
      Tiefe(k, lokal, gemeldetBis) + Saetze(Cardinality(Wartend)) <= BUENDEL_MAX + Saetze(weite)
Erreichbar == AnrufeDa /\ AnrufeNah /\ AngebotNah /\ ImmerEinloesbar

LEMMA AnlaufTeil ==
  ASSUME NEW S, S \subseteq Anlauf
  PROVE  /\ IsFiniteSet(S) /\ Cardinality(S) \in Nat /\ Cardinality(Anlauf) \in Nat
         /\ Cardinality(S) <= Cardinality(Anlauf)
<1>1. IsFiniteSet(Anlauf) BY VorratAnnahme
<1> QED BY <1>1, TeilEndlich

LEMMA VerhaeltnisIst ==
  /\ VORRAT \in Nat \ {0} /\ BUENDEL_MAX \in Nat /\ HOECHSTZAHL \in Nat
  /\ NONCE_FRISCH \in Nat /\ UNTERGRENZE \in Nat /\ Cardinality(Anlauf) \in Nat
  /\ UNTERGRENZE + VORRAT <= BUENDEL_MAX /\ BUENDEL_MAX <= HOECHSTZAHL
BY VorratAnnahme, AnlaufTeil

LEMMA ReichtWeniger ==
  ASSUME NEW i \in Nat, NEW j \in Nat, i <= j, Reicht(j)
  PROVE  Reicht(i)
<1>1. Saetze(i) \in Nat /\ Saetze(j) \in Nat /\ Saetze(i) <= Saetze(j) BY SaetzeIst
<1>2. BUENDEL_MAX \in Nat /\ HOECHSTZAHL \in Nat BY VerhaeltnisIst
<1> QED BY <1>1, <1>2 DEF Reicht

(* The property, in these terms. *)
LEMMA EinloesbarIst == ImmerEinloesbar <=> (Reicht(weite) => AngebotDa)
BY DEF ImmerEinloesbar, Reicht, Saetze

LEMMA EinloesbarDanach == ImmerEinloesbar' <=> (Reicht(weite)' => AngebotDa')
BY DEF ImmerEinloesbar, Reicht, Saetze

LEMMA BelegtZahl ==
  /\ IsFiniteSet(Belegt) /\ Cardinality(Belegt) \in Nat
  /\ IsFiniteSet(Wartend) /\ Cardinality(Wartend) \in Nat
<1>1. Belegt \subseteq Anlauf /\ Wartend \subseteq Anlauf BY DEF Belegt, Wartend
<1> QED BY <1>1, AnlaufTeil

(* Fewer calls are under way. *)
LEMMA WenigerBelegt ==
  ASSUME Belegt' \subseteq Belegt, Wartend' \subseteq Wartend
  PROVE  /\ Cardinality(Belegt') \in Nat /\ Cardinality(Belegt') <= Cardinality(Belegt)
         /\ Cardinality(Wartend') \in Nat /\ Cardinality(Wartend') <= Cardinality(Wartend)
<1>1. PICK B1, W1 : B1 = Belegt' /\ W1 = Wartend' OBVIOUS
<1>2. B1 \subseteq Belegt /\ W1 \subseteq Wartend BY <1>1
<1> QED BY <1>1, <1>2, BelegtZahl, TeilEndlich

LEMMA GeschichteJetzt ==
  ASSUME GeschichteTypeOK, NEW a \in Anlauf
  PROVE  neben[a] \in Nat /\ neben[a] <= Cardinality(Anlauf) /\ weite \in Nat
<1>1. NONCE_FRISCH + Cardinality(Anlauf) \in Nat /\ Cardinality(Anlauf) \in Nat BY VerhaeltnisIst
<1>2. neben[a] \in 0 .. Cardinality(Anlauf) /\ weite \in 0 .. NONCE_FRISCH + Cardinality(Anlauf)
  BY DEF GeschichteTypeOK
<1> QED BY <1>1, <1>2

(* The count of a request that goes on never falls. *)
LEMMA NebenWaechst ==
  ASSUME GeschichteTypeOK, NEW a \in Anlauf, neben' = Gezaehlt(a), NEW b \in Anlauf
  PROVE  neben[b] \in Nat /\ neben'[b] \in Nat /\ neben[b] <= neben'[b]
<1>1. neben[b] \in Nat BY GeschichteJetzt
<1>2. PICK c : c = Cardinality(Belegt) OBVIOUS
<1>3. c \in Nat BY <1>2, BelegtZahl
<1>4. neben'[b] = IF (b = a \/ anlauf[b].ph = "unterwegs") /\ neben[b] <= c
                    THEN c + 1 ELSE neben[b]
  BY <1>2 DEF Gezaehlt
<1> QED BY <1>1, <1>3, <1>4

LEMMA TiefeJetzt ==
  ASSUME BestandTypeOK, NEW k \in Nat
  PROVE  Tiefe(k, lokal, gemeldetBis) \in Nat
<1>1. PICK h, L, g : h = hoch /\ L = lokal /\ g = gemeldetBis OBVIOUS
<1>2. h \in Nat /\ L \subseteq 1 .. h /\ g \in {-1} \cup (0 .. h) BY <1>1, TypFlach
<1>3. Tiefe(k, L, g) \in Nat BY <1>2, TiefeMisst
<1> QED BY <1>1, <1>3

LEMMA TypNachher ==
  ASSUME BestandTypeOK'
  PROVE  /\ hoch' \in Nat /\ lokal' \subseteq 1 .. hoch' /\ gemeldetBis' \in {-1} \cup (0 .. hoch')
BY DEF BestandTypeOK, Nie

LEMMA TiefeDanach ==
  ASSUME BestandTypeOK', NEW k \in Nat
  PROVE  Tiefe(k, lokal', gemeldetBis') \in Nat
<1>1. PICK h, L, g : h = hoch' /\ L = lokal' /\ g = gemeldetBis' OBVIOUS
<1>2. h \in Nat /\ L \subseteq 1 .. h /\ g \in {-1} \cup (0 .. h) BY <1>1, TypNachher
<1>3. Tiefe(k, L, g) \in Nat BY <1>2, TiefeMisst
<1> QED BY <1>1, <1>3

(* The keys and the age of a call. *)
LEMMA AnrufZahlen ==
  ASSUME BestandTypeOK, NEW a \in Anlauf
  PROVE  /\ anlauf[a].ids \subseteq 1 .. hoch /\ hoch \in Nat
         /\ anlauf[a].alter \in Nat /\ Saetze(anlauf[a].alter) \in Nat
         /\ anlauf[a].alter + 1 \in Nat
         /\ Saetze(anlauf[a].alter + 1) = Saetze(anlauf[a].alter) + VORRAT
<1>1. PICK r, i : r = anlauf[a] /\ i = r.alter OBVIOUS
<1>2. r \in Anruf(hoch, spk) /\ hoch \in Nat BY <1>1, TypFlach
<1>3. r.ids \in SUBSET (1 .. hoch) /\ r.alter \in 0 .. NONCE_FRISCH + 1 BY <1>2, AnrufFelder
<1>4. NONCE_FRISCH \in Nat BY VorratAnnahme
<1>5. i \in Nat BY <1>1, <1>3, <1>4
<1>6. Saetze(i) \in Nat /\ Saetze(i + 1) = Saetze(i) + VORRAT BY <1>5, SaetzeIst
<1> QED BY <1>1, <1>2, <1>3, <1>5, <1>6

(* What the relay offers, or may still take, is not too deep. *)
LEMMA AnrufNichtTief ==
  ASSUME BestandTypeOK, GeschichteTypeOK, AnrufeNah, NEW a \in Anlauf, Annehmbar(a),
         Reicht(Breite(a)), NEW k \in anlauf[a].ids \cap lokal
  PROVE  Tiefe(k, lokal, gemeldetBis) <= HOECHSTZAHL
<1>1. /\ k \in Nat /\ anlauf[a].alter \in Nat /\ Saetze(anlauf[a].alter) \in Nat
      /\ neben[a] \in Nat
  BY AnrufZahlen, GeschichteJetzt
<1>2. PICK t, i, m : t = Tiefe(k, lokal, gemeldetBis) /\ i = anlauf[a].alter /\ m = neben[a]
  OBVIOUS
<1>3. t \in Nat /\ i \in Nat /\ Saetze(i) \in Nat /\ m \in Nat /\ i + m \in Nat
  BY <1>1, <1>2, TiefeJetzt
<1>4. /\ VORRAT \in Nat /\ BUENDEL_MAX \in Nat /\ HOECHSTZAHL \in Nat
      /\ BUENDEL_MAX + Saetze(i + m) <= HOECHSTZAHL /\ Saetze(i + m) \in Nat
  BY <1>2, <1>3, VerhaeltnisIst, SaetzeIst DEF Reicht, Breite
<1>5. i <= i + m BY <1>3
<1>6. Saetze(i) <= Saetze(i + m) BY <1>3, <1>5, SaetzeIst
<1>7. CASE t <= BUENDEL_MAX + Saetze(i) BY <1>2, <1>3, <1>4, <1>6, <1>7
<1>8. CASE Luft(a) /\ t <= BUENDEL_MAX + Saetze(i) + VORRAT
  <2>1. Cardinality(Belegt) < m /\ Cardinality(Belegt) \in Nat BY <1>2, <1>8, BelegtZahl DEF Luft
  <2>2. i + 1 \in Nat /\ i + 1 <= i + m BY <1>3, <2>1
  <2>3. Saetze(i + 1) <= Saetze(i + m) BY <1>3, <2>2, SaetzeIst
  <2>4. Saetze(i + 1) = Saetze(i) + VORRAT BY <1>3, SaetzeIst
  <2> QED BY <1>2, <1>3, <1>4, <1>8, <2>3, <2>4
<1>9. \/ t <= BUENDEL_MAX + Saetze(i)
      \/ Luft(a) /\ t <= BUENDEL_MAX + Saetze(i) + VORRAT
  BY <1>2 DEF AnrufeNah
<1> QED BY <1>7, <1>8, <1>9

LEMMA AngebotNichtTief ==
  ASSUME BestandTypeOK, AngebotNah, Reicht(weite), weite \in Nat, NEW k \in pool \cap lokal
  PROVE  Tiefe(k, lokal, gemeldetBis) <= HOECHSTZAHL
<1>1. k \in Nat
  <2>1. pool \subseteq 1 .. hoch BY TypFlach
  <2> QED BY <2>1
<1>2. PICK t, s, z : /\ t = Tiefe(k, lokal, gemeldetBis) /\ s = Saetze(Cardinality(Wartend))
                     /\ z = Saetze(weite)
  OBVIOUS
<1>3. t \in Nat BY <1>1, <1>2, TiefeJetzt
<1>4. s \in Nat /\ z \in Nat BY <1>2, BelegtZahl, SaetzeIst
<1>5. t + s <= BUENDEL_MAX + z BY <1>2 DEF AngebotNah
<1>6. BUENDEL_MAX \in Nat /\ HOECHSTZAHL \in Nat /\ BUENDEL_MAX + z <= HOECHSTZAHL
  BY <1>2, VerhaeltnisIst DEF Reicht
<1> QED BY <1>2, <1>3, <1>4, <1>5, <1>6

(* A step that makes no key deeper, or keeps so few that it does not       *)
(* matter.                                                                 *)
Seichter(k) ==
    \/ Tiefe(k, lokal', gemeldetBis') <= BUENDEL_MAX
    \/ /\ Tiefe(k, lokal', gemeldetBis') <= Tiefe(k, lokal, gemeldetBis)
       /\ Fertig(lokal, gemeldetBis) => Fertig(lokal', gemeldetBis')
    \/ Tiefe(k, lokal', gemeldetBis') + VORRAT <= Tiefe(k, lokal, gemeldetBis)
Behalten ==
    \A k \in lokal : Tiefe(k, lokal, gemeldetBis) <= HOECHSTZAHL => k \in lokal' \cup verbraucht'
AnrufBleibt(a) ==
    /\ anlauf'[a].ph = "unterwegs" /\ anlauf'[a].alter <= NONCE_FRISCH
         => anlauf[a].ph = "unterwegs" /\ anlauf[a].alter <= NONCE_FRISCH
              /\ anlauf'[a].ids = anlauf[a].ids /\ anlauf'[a].alter = anlauf[a].alter
              /\ neben'[a] = neben[a]

(* Nothing of what is offered, or may still be taken, is lost. *)
LEMMA NichtsVerloren ==
  ASSUME BestandTypeOK, GeschichteTypeOK, Erreichbar, Behalten, verbraucht \subseteq verbraucht'
  PROVE  /\ \A a \in Anlauf : Annehmbar(a) /\ Reicht(Breite(a))
                                 => anlauf[a].ids \subseteq lokal' \cup verbraucht'
         /\ Reicht(weite) => pool \subseteq lokal' \cup verbraucht'
<1>1. ASSUME NEW a \in Anlauf, Annehmbar(a), Reicht(Breite(a)), NEW k \in anlauf[a].ids
      PROVE  k \in lokal' \cup verbraucht'
  <2>1. k \in lokal \cup verbraucht BY <1>1 DEF Erreichbar, AnrufeDa
  <2>2. CASE k \in lokal
    <3>1. AnrufeNah BY DEF Erreichbar
    <3>2. Tiefe(k, lokal, gemeldetBis) <= HOECHSTZAHL BY <1>1, <2>2, <3>1, AnrufNichtTief
    <3> QED BY <2>2, <3>2 DEF Behalten
  <2> QED BY <2>1, <2>2
<1>2. ASSUME Reicht(weite), NEW k \in pool PROVE k \in lokal' \cup verbraucht'
  <2>1. k \in lokal \cup verbraucht BY <1>2, EinloesbarIst DEF Erreichbar, AngebotDa
  <2>2. CASE k \in lokal
    <3>1. AngebotNah /\ weite \in Nat
      <4>1. NONCE_FRISCH + Cardinality(Anlauf) \in Nat BY VerhaeltnisIst
      <4> QED BY <4>1 DEF Erreichbar, GeschichteTypeOK
    <3>2. Tiefe(k, lokal, gemeldetBis) <= HOECHSTZAHL BY <1>2, <2>2, <3>1, AngebotNichtTief
    <3> QED BY <2>2, <3>2 DEF Behalten
  <2> QED BY <2>1, <2>2
<1> QED BY <1>1, <1>2

LEMMA SeichterErreichbar ==
  ASSUME BestandTypeOK, BestandTypeOK', GeschichteTypeOK, Gezaehlte, Erreichbar,
         Behalten, verbraucht \subseteq verbraucht', pool' \subseteq pool, weite' = weite,
         \A k \in 1 .. hoch : k \in lokal' => k \in lokal /\ Seichter(k),
         \A a \in Anlauf : AnrufBleibt(a),
         Wartend' \subseteq Wartend, Belegt' \subseteq Belegt
  PROVE  Erreichbar'
<1>1. VORRAT \in Nat /\ BUENDEL_MAX \in Nat BY VerhaeltnisIst
<1>2. /\ \A a \in Anlauf : Annehmbar(a) /\ Reicht(Breite(a))
                              => anlauf[a].ids \subseteq lokal' \cup verbraucht'
      /\ Reicht(weite) => pool \subseteq lokal' \cup verbraucht'
  BY NichtsVerloren
<1>3. ASSUME NEW a \in Anlauf, Annehmbar(a)'
      PROVE  /\ Annehmbar(a) /\ anlauf'[a].ids = anlauf[a].ids
             /\ anlauf'[a].alter = anlauf[a].alter /\ neben'[a] = neben[a]
  <2>1. /\ anlauf'[a].ph = "unterwegs" /\ anlauf'[a].alter <= NONCE_FRISCH
        /\ Cardinality(anlauf'[a].ids) <= BUENDEL_MAX
    BY <1>3 DEF Annehmbar, Gilt
  <2> QED BY <2>1 DEF AnrufBleibt, Annehmbar, Gilt
<1>4. /\ Cardinality(Belegt') <= Cardinality(Belegt) /\ Cardinality(Belegt') \in Nat
      /\ Cardinality(Wartend') <= Cardinality(Wartend) /\ Cardinality(Wartend') \in Nat
      /\ Cardinality(Belegt) \in Nat /\ Cardinality(Wartend) \in Nat
  BY BelegtZahl, WenigerBelegt
<1>5. ASSUME NEW a \in Anlauf, neben'[a] = neben[a], Luft(a), Fertig(lokal', gemeldetBis')
      PROVE  Luft(a)'
  <2>1. neben[a] \in Nat BY GeschichteJetzt
  <2> QED BY <1>4, <1>5, <2>1 DEF Luft
<1>6. AnrufeDa'
  <2>1. ASSUME NEW a \in Anlauf, Annehmbar(a)', Reicht(Breite(a))'
        PROVE  Annehmbar(a) /\ Reicht(Breite(a)) /\ anlauf'[a].ids = anlauf[a].ids
    BY <1>3, <2>1 DEF Reicht, Breite
  <2> QED BY <1>2, <2>1 DEF AnrufeDa
<1>7. ASSUME NEW a \in Anlauf, Annehmbar(a)', NEW k \in anlauf'[a].ids \cap lokal'
      PROVE  \/ Tiefe(k, lokal', gemeldetBis') <= BUENDEL_MAX + Saetze(anlauf'[a].alter)
             \/ /\ Luft(a)'
                /\ Tiefe(k, lokal', gemeldetBis')
                     <= BUENDEL_MAX + Saetze(anlauf'[a].alter) + VORRAT
  <2>1. /\ Annehmbar(a) /\ anlauf'[a].ids = anlauf[a].ids
        /\ anlauf'[a].alter = anlauf[a].alter /\ neben'[a] = neben[a]
    BY <1>3, <1>7
  <2>2. anlauf[a].ids \subseteq 1 .. hoch /\ Saetze(anlauf[a].alter) \in Nat BY AnrufZahlen
  <2>3. k \in 1 .. hoch /\ k \in Nat /\ k \in lokal' BY <1>7, <2>1, <2>2
  <2>4. k \in lokal /\ Seichter(k) BY <2>3
  <2>5. PICK t, t1, s : /\ t = Tiefe(k, lokal, gemeldetBis) /\ t1 = Tiefe(k, lokal', gemeldetBis')
                        /\ s = Saetze(anlauf[a].alter)
    OBVIOUS
  <2>6. t \in Nat /\ t1 \in Nat /\ s \in Nat BY <2>2, <2>3, <2>5, TiefeJetzt, TiefeDanach
  <2>7. t <= BUENDEL_MAX + s \/ (Luft(a) /\ t <= BUENDEL_MAX + s + VORRAT)
    BY <1>7, <2>1, <2>4, <2>5 DEF Erreichbar, AnrufeNah
  <2>8. \/ t1 <= BUENDEL_MAX
        \/ t1 <= t /\ (Fertig(lokal, gemeldetBis) => Fertig(lokal', gemeldetBis'))
        \/ t1 + VORRAT <= t
    BY <2>4, <2>5 DEF Seichter
  <2>9. Luft(a) => Fertig(lokal, gemeldetBis) BY DEF Luft
  <2>10. t1 <= BUENDEL_MAX + s \/ (Luft(a)' /\ t1 <= BUENDEL_MAX + s + VORRAT)
    BY <1>1, <1>5, <2>1, <2>6, <2>7, <2>8, <2>9
  <2> QED BY <2>1, <2>5, <2>10
<1>8. AnrufeNah' BY <1>7 DEF AnrufeNah
<1>9. ASSUME NEW k \in pool' \cap lokal'
      PROVE  Tiefe(k, lokal', gemeldetBis') + Saetze(Cardinality(Wartend'))
               <= BUENDEL_MAX + Saetze(weite')
  <2>1. pool \subseteq 1 .. hoch BY TypFlach
  <2>2. k \in 1 .. hoch /\ k \in Nat /\ k \in lokal' /\ k \in pool BY <2>1
  <2>3. k \in lokal /\ Seichter(k) BY <2>2
  <2>4. PICK t, t1, s, s1, z :
          /\ t = Tiefe(k, lokal, gemeldetBis) /\ t1 = Tiefe(k, lokal', gemeldetBis')
          /\ s = Saetze(Cardinality(Wartend)) /\ s1 = Saetze(Cardinality(Wartend'))
          /\ z = Saetze(weite)
    OBVIOUS
  <2>5. t \in Nat /\ t1 \in Nat BY <2>2, <2>4, TiefeJetzt, TiefeDanach
  <2>6. s \in Nat /\ s1 \in Nat /\ s1 <= s BY <1>4, <2>4, SaetzeIst
  <2>7. z \in Nat
    <3>1. NONCE_FRISCH + Cardinality(Anlauf) \in Nat BY VerhaeltnisIst
    <3>2. weite \in Nat BY <3>1 DEF GeschichteTypeOK
    <3> QED BY <2>4, <3>2, SaetzeIst
  <2>8. t + s <= BUENDEL_MAX + z BY <2>2, <2>3, <2>4 DEF Erreichbar, AngebotNah
  <2>9. t1 <= BUENDEL_MAX \/ t1 <= t \/ t1 + VORRAT <= t BY <2>3, <2>4 DEF Seichter
  <2>10. s1 <= z
    <3>1. NONCE_FRISCH + Cardinality(Anlauf) \in Nat BY VerhaeltnisIst
    <3>2. weite \in Nat BY <3>1 DEF GeschichteTypeOK
    <3>3. Cardinality(Wartend') <= weite BY <1>4, <3>2 DEF Gezaehlte
    <3> QED BY <1>4, <2>4, <3>2, <3>3, SaetzeIst
  <2>11. t1 + s1 <= BUENDEL_MAX + z BY <1>1, <2>5, <2>6, <2>7, <2>8, <2>9, <2>10
  <2>12. Saetze(weite') = z BY <2>4
  <2> QED BY <2>4, <2>11, <2>12
<1>10. AngebotNah' BY <1>9 DEF AngebotNah
<1>11. ImmerEinloesbar'
  <2>1. Reicht(weite) => pool' \subseteq lokal' \cup verbraucht' BY <1>2
  <2>2. Reicht(weite)' => Reicht(weite) BY DEF Reicht
  <2>3. AngebotDa' <=> pool' \subseteq lokal' \cup verbraucht' BY DEF AngebotDa
  <2> QED BY <2>1, <2>2, <2>3, EinloesbarDanach
<1> QED BY <1>6, <1>8, <1>10, <1>11 DEF Erreichbar

(* A call starts with keys the relay never had. *)
LEMMA NeuErreichbar ==
  ASSUME BestandTypeOK, BestandTypeOK', GeschichteTypeOK, Gezaehlte, Erreichbar,
         NEW a \in Anlauf, NEW fuer,
         anlauf[a].ph = "frei", ~Fertig(lokal, gemeldetBis),
         anlauf' = [anlauf EXCEPT ![a] = NeuerAnruf(fuer)],
         neben' = Gezaehlt(a), weite' = weite,
         UNCHANGED <<lokal, hoch, gemeldetBis, pool, verbraucht>>
  PROVE  Erreichbar'
<1>1. /\ BUENDEL_MAX \in Nat /\ VORRAT \in Nat BY VerhaeltnisIst
<1>2. anlauf \in [Anlauf -> Anruf(hoch, spk)] BY TypFlach
<1>3. anlauf'[a] = NeuerAnruf(fuer) /\ \A b \in Anlauf : b # a => anlauf'[b] = anlauf[b]
  BY <1>2
<1>4. /\ anlauf'[a].ph = "unterwegs" /\ anlauf'[a].ids = Neu(lokal, gemeldetBis)
      /\ anlauf'[a].alter = 0
  BY <1>3 DEF NeuerAnruf, Neu
<1>5. \A b \in Anlauf : b # a /\ Annehmbar(b)' => Annehmbar(b) BY <1>3 DEF Annehmbar, Gilt
<1>6. Wartend' = Wartend BY <1>3, <1>4 DEF Wartend
<1>7. AnrufeDa'
  <2>1. ASSUME NEW b \in Anlauf, Annehmbar(b)', Reicht(Breite(b))'
        PROVE  anlauf'[b].ids \subseteq lokal \cup verbraucht
    <3>1. CASE b = a BY <1>4, <3>1 DEF Neu
    <3>2. CASE b # a
      <4>1. Annehmbar(b) /\ anlauf'[b] = anlauf[b] BY <1>3, <1>5, <2>1, <3>2
      <4>2. Breite(b)' = anlauf[b].alter + neben'[b] /\ Reicht(anlauf[b].alter + neben'[b])
        BY <2>1, <4>1 DEF Breite, Reicht
      <4>3. Reicht(Breite(b))
        <5>1. anlauf[b].alter \in Nat BY AnrufZahlen
        <5>2. neben[b] \in Nat /\ neben'[b] \in Nat /\ neben[b] <= neben'[b] BY NebenWaechst
        <5>3. PICK i, m, n : i = anlauf[b].alter /\ m = neben[b] /\ n = neben'[b] OBVIOUS
        <5>4. i + m \in Nat /\ i + n \in Nat /\ i + m <= i + n BY <5>1, <5>2, <5>3
        <5>5. Reicht(i + m) BY <4>2, <5>3, <5>4, ReichtWeniger
        <5> QED BY <5>3, <5>5 DEF Breite
      <4> QED BY <4>1, <4>3 DEF Erreichbar, AnrufeDa
    <3> QED BY <3>1, <3>2
  <2> QED BY <2>1 DEF AnrufeDa
<1>8. ASSUME NEW b \in Anlauf, Annehmbar(b)', NEW k \in anlauf'[b].ids \cap lokal'
      PROVE  Tiefe(k, lokal', gemeldetBis') <= BUENDEL_MAX + Saetze(anlauf'[b].alter)
  <2>1. CASE b = a
    <3>1. Cardinality(Neu(lokal, gemeldetBis)) <= BUENDEL_MAX BY <1>4, <1>8, <2>1 DEF Annehmbar
    <3>2. k \in Neu(lokal, gemeldetBis) BY <1>4, <1>8, <2>1
    <3>3. PICK h, L, g : h = hoch /\ L = lokal /\ g = gemeldetBis OBVIOUS
    <3>4. h \in Nat /\ L \subseteq 1 .. h /\ g \in {-1} \cup (0 .. h) BY <3>3, TypFlach
    <3>5. k \in Neu(L, g) /\ Cardinality(Neu(L, g)) <= BUENDEL_MAX BY <3>1, <3>2, <3>3
    <3>6. Tiefe(k, L, g) <= BUENDEL_MAX BY <3>4, <3>5, TiefeNeuer
    <3>7. Saetze(0) = 0 BY SaetzeIst
    <3> QED BY <1>1, <1>4, <2>1, <3>3, <3>6, <3>7
  <2>2. CASE b # a
    <3>1. Annehmbar(b) /\ anlauf'[b] = anlauf[b] BY <1>3, <1>5, <1>8, <2>2
    <3>2. ~Luft(b) BY DEF Luft
    <3>3. k \in anlauf[b].ids \cap lokal BY <1>8, <3>1
    <3>4. Tiefe(k, lokal, gemeldetBis) <= BUENDEL_MAX + Saetze(anlauf[b].alter)
      BY <3>1, <3>2, <3>3 DEF Erreichbar, AnrufeNah
    <3> QED BY <3>1, <3>4
  <2> QED BY <2>1, <2>2
<1>9. AnrufeNah' BY <1>8 DEF AnrufeNah
<1>10. AngebotNah' BY <1>6 DEF Erreichbar, AngebotNah
<1>11. ImmerEinloesbar' BY DEF Erreichbar, ImmerEinloesbar, AngebotDa
<1> QED BY <1>7, <1>9, <1>10, <1>11 DEF Erreichbar

(* A call starts with a new set, after everything had been registered: the *)
(* other calls age.                                                        *)
LEMMA SatzErreichbar ==
  ASSUME BestandTypeOK, BestandTypeOK', GeschichteTypeOK, Gezaehlte, Erreichbar,
         NEW a \in Anlauf, NEW fuer,
         anlauf[a].ph = "frei", Fertig(lokal, gemeldetBis),
         anlauf' = [Gealtert EXCEPT ![a] = NeuerAnruf(fuer)],
         neben' = Gezaehlt(a), weite' = weite,
         Ergaenzt(lokal, hoch, lokal', hoch'), hoch' = hoch + VORRAT,
         UNCHANGED <<gemeldetBis, pool, verbraucht>>
  PROVE  Erreichbar'
<1>1. /\ BUENDEL_MAX \in Nat /\ VORRAT \in Nat BY VerhaeltnisIst
<1>2. ASSUME NEW k \in lokal
      PROVE  /\ Tiefe(k, lokal, gemeldetBis) <= HOECHSTZAHL => k \in lokal'
             /\ Tiefe(k, lokal', gemeldetBis') <= Tiefe(k, lokal, gemeldetBis)
  <2>1. PICK h, L, g, h1, L1 : /\ h = hoch /\ L = lokal /\ g = gemeldetBis
                               /\ h1 = hoch' /\ L1 = lokal'
    OBVIOUS
  <2>2. h \in Nat /\ L \subseteq 1 .. h /\ g \in {-1} \cup (0 .. h) BY <2>1, TypFlach
  <2>3. Fertig(L, g) /\ h1 = h + VORRAT /\ Ergaenzt(L, h, L1, h1) /\ k \in L BY <1>2, <2>1
  <2>4. /\ Tiefe(k, L, g) <= HOECHSTZAHL => k \in L1
        /\ Tiefe(k, L1, g) <= Tiefe(k, L, g)
    BY <2>2, <2>3, TiefeErgaenzt
  <2>5. gemeldetBis' = g BY <2>1
  <2> QED BY <2>1, <2>4, <2>5
<1>3. /\ \A b \in Anlauf : Annehmbar(b) /\ Reicht(Breite(b))
                              => anlauf[b].ids \subseteq lokal' \cup verbraucht'
      /\ Reicht(weite) => pool \subseteq lokal' \cup verbraucht'
  <2>1. Behalten BY <1>2 DEF Behalten
  <2> QED BY <2>1, NichtsVerloren
<1>4. \A k \in 1 .. hoch : k \in lokal' => k \in lokal
  <2>1. lokal' \subseteq lokal \cup (hoch + 1 .. hoch') BY DEF Ergaenzt, Neueste
  <2>2. hoch \in Nat BY TypFlach
  <2>3. \A k \in 1 .. hoch : k \notin hoch + 1 .. hoch' BY <2>2
  <2> QED BY <2>1, <2>3
<1>5. /\ anlauf'[a] = NeuerAnruf(fuer) /\ \A b \in Anlauf : b # a => anlauf'[b] = Gealtert[b]
  <2>1. DOMAIN Gealtert = Anlauf BY DEF Gealtert
  <2> QED BY <2>1
<1>6. /\ anlauf'[a].ph = "unterwegs" /\ anlauf'[a].ids = Neu(lokal', gemeldetBis')
      /\ anlauf'[a].alter = 0
  BY <1>5 DEF NeuerAnruf, Neu
<1>7. ASSUME NEW b \in Anlauf, b # a, Annehmbar(b)'
      PROVE  /\ Annehmbar(b) /\ anlauf'[b].ids = anlauf[b].ids
             /\ anlauf'[b].alter = anlauf[b].alter + 1
  <2>1. /\ anlauf'[b].ph = "unterwegs" /\ anlauf'[b].alter <= NONCE_FRISCH
        /\ Cardinality(anlauf'[b].ids) <= BUENDEL_MAX
    BY <1>7 DEF Annehmbar, Gilt
  <2>2. /\ anlauf'[b].ph = anlauf[b].ph /\ anlauf'[b].ids = anlauf[b].ids
        /\ IF anlauf[b].ph = "unterwegs" /\ Gilt(b)
             THEN anlauf'[b].alter = anlauf[b].alter + 1
             ELSE anlauf'[b].alter = anlauf[b].alter
    BY <1>5, <1>7, GealtertIst
  <2>3. Gilt(b) BY <2>1, <2>2 DEF Gilt
  <2> QED BY <2>1, <2>2, <2>3 DEF Annehmbar
<1>8. Wartend' = Wartend
  <2>1. \A b \in Anlauf : b # a => anlauf'[b].ph = anlauf[b].ph /\ anlauf'[b].fuer = anlauf[b].fuer
    BY <1>5, GealtertIst
  <2> QED BY <1>6, <2>1 DEF Wartend
<1>9. AnrufeDa'
  <2>1. ASSUME NEW b \in Anlauf, Annehmbar(b)', Reicht(Breite(b))'
        PROVE  anlauf'[b].ids \subseteq lokal' \cup verbraucht'
    <3>1. CASE b = a BY <1>6, <3>1 DEF Neu
    <3>2. CASE b # a
      <4>1. /\ Annehmbar(b) /\ anlauf'[b].ids = anlauf[b].ids
            /\ anlauf'[b].alter = anlauf[b].alter + 1
        BY <1>7, <2>1, <3>2
      <4>2. Reicht((anlauf[b].alter + 1) + neben'[b]) BY <2>1, <4>1 DEF Breite, Reicht
      <4>3. Reicht(Breite(b))
        <5>1. anlauf[b].alter \in Nat BY AnrufZahlen
        <5>2. neben[b] \in Nat /\ neben'[b] \in Nat /\ neben[b] <= neben'[b] BY NebenWaechst
        <5>3. PICK i, m, n : i = anlauf[b].alter /\ m = neben[b] /\ n = neben'[b] OBVIOUS
        <5>4. i + m \in Nat /\ (i + 1) + n \in Nat /\ i + m <= (i + 1) + n BY <5>1, <5>2, <5>3
        <5>5. Reicht(i + m) BY <4>2, <5>3, <5>4, ReichtWeniger
        <5> QED BY <5>3, <5>5 DEF Breite
      <4> QED BY <1>3, <4>1, <4>3
    <3> QED BY <3>1, <3>2
  <2> QED BY <2>1 DEF AnrufeDa
<1>10. ASSUME NEW b \in Anlauf, Annehmbar(b)', NEW k \in anlauf'[b].ids \cap lokal'
       PROVE  Tiefe(k, lokal', gemeldetBis') <= BUENDEL_MAX + Saetze(anlauf'[b].alter)
  <2>1. CASE b = a
    <3>1. Cardinality(Neu(lokal', gemeldetBis')) <= BUENDEL_MAX
      BY <1>6, <1>10, <2>1 DEF Annehmbar
    <3>2. k \in Neu(lokal', gemeldetBis') BY <1>6, <1>10, <2>1
    <3>3. PICK h, L, g : h = hoch' /\ L = lokal' /\ g = gemeldetBis' OBVIOUS
    <3>4. h \in Nat /\ L \subseteq 1 .. h /\ g \in {-1} \cup (0 .. h) BY <3>3, TypNachher
    <3>5. k \in Neu(L, g) /\ Cardinality(Neu(L, g)) <= BUENDEL_MAX BY <3>1, <3>2, <3>3
    <3>6. Tiefe(k, L, g) <= BUENDEL_MAX BY <3>4, <3>5, TiefeNeuer
    <3>7. Saetze(0) = 0 BY SaetzeIst
    <3> QED BY <1>1, <1>6, <2>1, <3>3, <3>6, <3>7
  <2>2. CASE b # a
    <3>1. /\ Annehmbar(b) /\ anlauf'[b].ids = anlauf[b].ids
          /\ anlauf'[b].alter = anlauf[b].alter + 1
      BY <1>7, <1>10, <2>2
    <3>2. /\ anlauf[b].ids \subseteq 1 .. hoch /\ Saetze(anlauf[b].alter) \in Nat
          /\ Saetze(anlauf[b].alter + 1) = Saetze(anlauf[b].alter) + VORRAT
      BY AnrufZahlen
    <3>3. k \in 1 .. hoch /\ k \in Nat /\ k \in anlauf[b].ids /\ k \in lokal
      BY <1>4, <1>10, <3>1, <3>2
    <3>4. PICK t, t1, s : /\ t = Tiefe(k, lokal, gemeldetBis)
                          /\ t1 = Tiefe(k, lokal', gemeldetBis') /\ s = Saetze(anlauf[b].alter)
      OBVIOUS
    <3>5. t \in Nat /\ t1 \in Nat /\ s \in Nat BY <3>2, <3>3, <3>4, TiefeJetzt, TiefeDanach
    <3>6. t1 <= t BY <1>2, <3>3, <3>4
    <3>7. t <= BUENDEL_MAX + s \/ t <= BUENDEL_MAX + s + VORRAT
      BY <3>1, <3>3, <3>4 DEF Erreichbar, AnrufeNah
    <3>8. t1 <= BUENDEL_MAX + (s + VORRAT) BY <1>1, <3>5, <3>6, <3>7
    <3> QED BY <3>1, <3>2, <3>4, <3>8
  <2> QED BY <2>1, <2>2
<1>11. AnrufeNah' BY <1>10 DEF AnrufeNah
<1>12. ASSUME NEW k \in pool' \cap lokal'
       PROVE  Tiefe(k, lokal', gemeldetBis') + Saetze(Cardinality(Wartend'))
                <= BUENDEL_MAX + Saetze(weite')
  <2>1. pool \subseteq 1 .. hoch BY TypFlach
  <2>2. k \in 1 .. hoch /\ k \in Nat /\ k \in lokal /\ k \in pool BY <1>4, <1>12, <2>1
  <2>3. PICK t, t1, s, z :
          /\ t = Tiefe(k, lokal, gemeldetBis) /\ t1 = Tiefe(k, lokal', gemeldetBis')
          /\ s = Saetze(Cardinality(Wartend))
          /\ z = Saetze(weite)
    OBVIOUS
  <2>4. t \in Nat /\ t1 \in Nat BY <2>2, <2>3, TiefeJetzt, TiefeDanach
  <2>5. s \in Nat
    <3>1. Wartend \subseteq Anlauf BY DEF Wartend
    <3>2. Cardinality(Wartend) \in Nat BY <3>1, AnlaufTeil
    <3> QED BY <2>3, <3>2, SaetzeIst
  <2>6. z \in Nat BY <2>3, GeschichteJetzt, SaetzeIst
  <2>7. t1 <= t BY <1>2, <2>2, <2>3
  <2>8. t + s <= BUENDEL_MAX + z BY <2>2, <2>3 DEF Erreichbar, AngebotNah
  <2>9. t1 + s <= BUENDEL_MAX + z BY <1>1, <2>4, <2>5, <2>6, <2>7, <2>8
  <2>10. Saetze(weite') = z BY <2>3
  <2> QED BY <1>8, <2>3, <2>9, <2>10
<1>13. AngebotNah' BY <1>12 DEF AngebotNah
<1>14. ImmerEinloesbar'
  <2>1. Reicht(weite)' => Reicht(weite) BY DEF Reicht
  <2>2. AngebotDa' <=> pool \subseteq lokal' \cup verbraucht' BY DEF AngebotDa
  <2> QED BY <1>3, <2>1, <2>2, EinloesbarDanach
<1> QED BY <1>9, <1>11, <1>13, <1>14 DEF Erreichbar

LEMMA VerbindeErreichbar ==
  ASSUME BestandTypeOK, BestandTypeOK', GeschichteTypeOK, Gezaehlte, Erreichbar, Verbinde
  PROVE  Erreichbar'
<1>1. /\ \E a \in Anlauf : Meldet(a, lokal, hoch, anlauf, "verbinden")
      /\ UNCHANGED <<gemeldetBis, pool, verbraucht>>
  BY VerbindeIst
<1>2. PICK a, fuer : a \in Anlauf /\ fuer = "verbinden" /\ Meldet(a, lokal, hoch, anlauf, fuer)
  BY <1>1
<1>6. neben' = Gezaehlt(a) /\ weite' = weite BY <1>2 DEF Meldet
<1>3. /\ hoch \in Nat /\ lokal \subseteq 1 .. hoch /\ gemeldetBis \in {-1} \cup (0 .. hoch)
  BY TypFlach
<1>4. CASE /\ lokal' = lokal /\ hoch' = hoch
           /\ gemeldetBis = -1 \/ \E k \in lokal : k > gemeldetBis
           /\ anlauf' = [anlauf EXCEPT ![a] = NeuerAnruf(fuer)]
  <2>1. ~Fertig(lokal, gemeldetBis) BY <1>3, <1>4 DEF Fertig
  <2>2. anlauf[a].ph = "frei" BY <1>2 DEF Meldet
  <2> QED BY <1>1, <1>2, <1>4, <1>6, <2>1, <2>2, NeuErreichbar
<1>5. CASE /\ gemeldetBis # -1 /\ \A k \in lokal : k <= gemeldetBis
           /\ Ergaenzt(lokal, hoch, lokal', hoch') /\ hoch' = hoch + VORRAT
           /\ anlauf' = [Gealtert EXCEPT ![a] = NeuerAnruf(fuer)]
  <2>1. Fertig(lokal, gemeldetBis) BY <1>5 DEF Fertig
  <2>2. anlauf[a].ph = "frei" BY <1>2 DEF Meldet
  <2> QED BY <1>1, <1>2, <1>5, <1>6, <2>1, <2>2, SatzErreichbar
<1> QED BY <1>2, <1>4, <1>5 DEF Meldet

LEMMA FuelleNachErreichbar ==
  ASSUME BestandTypeOK, BestandTypeOK', GeschichteTypeOK, Gezaehlte, Erreichbar, Ordnung, FuelleNachUndMelde
  PROVE  Erreichbar'
<1>1. /\ knapp
      /\ \E a \in Anlauf : \E L1, h1 : /\ Ergaenzt(lokal, hoch, L1, h1) /\ h1 = hoch + VORRAT
                                       /\ Meldet(a, L1, h1, Gealtert, "nachschub")
      /\ UNCHANGED <<gemeldetBis, pool, verbraucht>>
  BY FuelleNachIst
<1>2. PICK a, fuer, L1, h1 :
        /\ a \in Anlauf /\ fuer = "nachschub" /\ Ergaenzt(lokal, hoch, L1, h1)
        /\ h1 = hoch + VORRAT /\ Meldet(a, L1, h1, Gealtert, fuer)
  BY <1>1
<1>3. Fertig(lokal, gemeldetBis) BY <1>1 DEF Ordnung, GemeldetVorLogin
<1>4. ~(\A k \in L1 : k <= gemeldetBis)
  <2>1. /\ hoch \in Nat /\ lokal \subseteq 1 .. hoch /\ gemeldetBis \in {-1} \cup (0 .. hoch)
    BY TypFlach
  <2>2. VORRAT \in Nat \ {0} /\ HOECHSTZAHL \in Nat /\ VORRAT <= HOECHSTZAHL
    <3>1. VORRAT <= BUENDEL_MAX BY VorratAnnahme
    <3> QED BY <3>1, VerhaeltnisIst
  <2>3. Gewachsen(lokal, hoch, L1, h1)
    <3>1. PICK L, h : L = lokal /\ h = hoch OBVIOUS
    <3>2. Gewachsen(L, h, L1, h1) BY <1>2, <2>1, <3>1, ErgaenztWaechst
    <3> QED BY <3>1, <3>2
  <2>4. h1 \in hoch + 1 .. h1 /\ h1 > h1 - HOECHSTZAHL BY <1>2, <2>1, <2>2
  <2>5. h1 \in L1 BY <2>3, <2>4 DEF Gewachsen
  <2>6. ~(h1 <= gemeldetBis) BY <1>2, <2>1, <2>2
  <2> QED BY <2>5, <2>6
<1>5. /\ lokal' = L1 /\ hoch' = h1 /\ anlauf[a].ph = "frei"
      /\ neben' = Gezaehlt(a) /\ weite' = weite
      /\ anlauf' = [Gealtert EXCEPT ![a] = NeuerAnruf(fuer)]
  BY <1>2, <1>4 DEF Meldet
<1>6. Ergaenzt(lokal, hoch, lokal', hoch') /\ hoch' = hoch + VORRAT BY <1>2, <1>5
<1> QED BY <1>1, <1>2, <1>3, <1>5, <1>6, SatzErreichbar

(* The relay takes an upload: it may be as old as its nonce, and the       *)
(* answer of every other call may still be to come.                        *)
LEMMA NimmtErreichbar ==
  ASSUME BestandTypeOK, BestandTypeOK', GeschichteTypeOK, Gezaehlte, Erreichbar, NEW a \in Anlauf, RelayNimmt(a)
  PROVE  Erreichbar'
<1>1. /\ anlauf[a].ph = "unterwegs" /\ Annehmbar(a) /\ anlauf[a].alter <= NONCE_FRISCH
      /\ anlauf' = [anlauf EXCEPT ![a] = [anlauf[a] EXCEPT !.ph = "angenommen"]]
      /\ pool' = anlauf[a].ids
      /\ weite' = anlauf[a].alter + neben[a] /\ neben' = [neben EXCEPT ![a] = 0]
      /\ UNCHANGED <<lokal, gemeldetBis, verbraucht>>
  BY DEF RelayNimmt, Annehmbar, Gilt, Setze, geraet, meta, peers
<1>2. anlauf \in [Anlauf -> Anruf(hoch, spk)] BY TypFlach
<1>3. PICK r : r = anlauf[a] OBVIOUS
<1>4. /\ anlauf'[a] = [r EXCEPT !.ph = "angenommen"] /\ r \in Anruf(hoch, spk)
      /\ \A b \in Anlauf : b # a => anlauf'[b] = anlauf[b]
  BY <1>1, <1>2, <1>3
<1>5. anlauf'[a].ph = "angenommen" BY <1>4 DEF Anruf
<1>6. \A b \in Anlauf : Annehmbar(b)' => b # a /\ Annehmbar(b) /\ anlauf'[b] = anlauf[b]
  BY <1>4, <1>5 DEF Annehmbar, Gilt
<1>7. Belegt' = Belegt BY <1>1, <1>4, <1>5 DEF Belegt
<1>8. \A b \in Anlauf : b # a => neben'[b] = neben[b] /\ (Luft(b)' <=> Luft(b))
  <2>1. neben \in [Anlauf -> 0 .. Cardinality(Anlauf)] BY DEF GeschichteTypeOK
  <2>2. \A b \in Anlauf : b # a => neben'[b] = neben[b] BY <1>1, <2>1
  <2> QED BY <1>1, <1>7, <2>2 DEF Luft
<1>9. AnrufeDa'
  <2>1. ASSUME NEW b \in Anlauf, Annehmbar(b)', Reicht(Breite(b))'
        PROVE  anlauf'[b].ids \subseteq lokal \cup verbraucht
    <3>1. /\ Annehmbar(b) /\ anlauf'[b] = anlauf[b] /\ neben'[b] = neben[b]
      BY <1>6, <1>8, <2>1
    <3>2. Reicht(Breite(b)) BY <2>1, <3>1 DEF Breite, Reicht
    <3> QED BY <3>1, <3>2 DEF Erreichbar, AnrufeDa
  <2> QED BY <1>1, <2>1 DEF AnrufeDa
<1>10. AnrufeNah'
  <2>1. ASSUME NEW b \in Anlauf, Annehmbar(b)', NEW k \in anlauf'[b].ids \cap lokal'
        PROVE  \/ Tiefe(k, lokal', gemeldetBis') <= BUENDEL_MAX + Saetze(anlauf'[b].alter)
               \/ /\ Luft(b)'
                  /\ Tiefe(k, lokal', gemeldetBis')
                       <= BUENDEL_MAX + Saetze(anlauf'[b].alter) + VORRAT
    <3>1. b # a /\ Annehmbar(b) /\ anlauf'[b] = anlauf[b] BY <1>6, <2>1
    <3>2. k \in anlauf[b].ids \cap lokal BY <1>1, <2>1, <3>1
    <3>3. \/ Tiefe(k, lokal, gemeldetBis) <= BUENDEL_MAX + Saetze(anlauf[b].alter)
          \/ /\ Luft(b)
             /\ Tiefe(k, lokal, gemeldetBis) <= BUENDEL_MAX + Saetze(anlauf[b].alter) + VORRAT
      BY <3>1, <3>2 DEF Erreichbar, AnrufeNah
    <3> QED BY <1>1, <1>8, <3>1, <3>3
  <2> QED BY <2>1 DEF AnrufeNah
<1>11. ASSUME NEW k \in pool' \cap lokal'
       PROVE  Tiefe(k, lokal', gemeldetBis') + Saetze(Cardinality(Wartend'))
                <= BUENDEL_MAX + Saetze(weite')
  <2>1. k \in anlauf[a].ids \cap lokal BY <1>1, <1>11
  <2>2. /\ anlauf[a].ids \subseteq 1 .. hoch /\ anlauf[a].alter \in Nat
    BY AnrufZahlen
  <2>3. PICK t, i, w, m : /\ t = Tiefe(k, lokal, gemeldetBis) /\ i = anlauf[a].alter
                          /\ w = Cardinality(Wartend') /\ m = neben[a]
    OBVIOUS
  <2>4. t \in Nat /\ i \in Nat
    <3>1. k \in Nat BY <2>1, <2>2
    <3> QED BY <1>1, <2>2, <2>3, <3>1, TiefeJetzt
  <2>5. /\ BUENDEL_MAX \in Nat /\ VORRAT \in Nat /\ m \in Nat /\ i + m \in Nat
    BY <2>3, <2>4, VerhaeltnisIst, GeschichteJetzt
  <2>6. PICK W1 : W1 = Wartend' OBVIOUS
  <2>7. W1 \subseteq Belegt /\ W1 \subseteq Anlauf /\ Belegt \subseteq Anlauf
    BY <1>7, <2>6 DEF Belegt, Wartend
  <2>8. /\ w \in Nat /\ Cardinality(Belegt) \in Nat
        /\ w <= Cardinality(Belegt) /\ Cardinality(Belegt) <= m
    <3>1. IsFiniteSet(Belegt) /\ Cardinality(Belegt) \in Nat BY BelegtZahl
    <3>2. Cardinality(Belegt) <= m BY <1>1, <2>3 DEF Gezaehlte
    <3> QED BY <2>3, <2>6, <2>7, <3>1, <3>2, TeilEndlich
  <2>9. /\ Saetze(i) \in Nat /\ Saetze(w) \in Nat /\ Saetze(i + w) = Saetze(i) + Saetze(w)
        /\ Saetze(i + m) \in Nat
    BY <2>4, <2>5, <2>8, SaetzeIst
  <2>10. t + Saetze(w) <= BUENDEL_MAX + Saetze(i + m)
    <3>1. CASE t <= BUENDEL_MAX + Saetze(i)
      <4>1. i + w \in Nat /\ i + w <= i + m BY <2>4, <2>5, <2>8
      <4>2. Saetze(i + w) <= Saetze(i + m) BY <2>5, <4>1, SaetzeIst
      <4> QED BY <2>4, <2>5, <2>9, <3>1, <4>2
    <3>2. CASE Luft(a) /\ t <= BUENDEL_MAX + Saetze(i) + VORRAT
      <4>1. Cardinality(Belegt) < m BY <2>3, <3>2 DEF Luft
      <4>2. i + w \in Nat /\ (i + w) + 1 \in Nat /\ (i + w) + 1 <= i + m
        BY <2>4, <2>5, <2>8, <4>1
      <4>3. Saetze((i + w) + 1) <= Saetze(i + m) /\ Saetze((i + w) + 1) = Saetze(i + w) + VORRAT
        BY <2>5, <4>2, SaetzeIst
      <4> QED BY <2>4, <2>5, <2>9, <3>2, <4>3
    <3>3. \/ t <= BUENDEL_MAX + Saetze(i)
          \/ Luft(a) /\ t <= BUENDEL_MAX + Saetze(i) + VORRAT
      BY <1>1, <2>1, <2>3 DEF Erreichbar, AnrufeNah
    <3> QED BY <3>1, <3>2, <3>3
  <2>11. Saetze(weite') = Saetze(i + m) BY <1>1, <2>3
  <2>12. Tiefe(k, lokal', gemeldetBis') = t BY <1>1, <2>3
  <2> QED BY <2>3, <2>10, <2>11, <2>12
<1>12. AngebotNah' BY <1>11 DEF AngebotNah
<1>13. ImmerEinloesbar'
  <2>1. Reicht(weite)' => Reicht(Breite(a)) BY <1>1 DEF Reicht, Breite
  <2>2. Reicht(Breite(a)) => anlauf[a].ids \subseteq lokal \cup verbraucht
    BY <1>1 DEF Erreichbar, AnrufeDa
  <2>3. AngebotDa' <=> anlauf[a].ids \subseteq lokal \cup verbraucht BY <1>1 DEF AngebotDa
  <2> QED BY <2>1, <2>2, <2>3, EinloesbarDanach
<1> QED BY <1>9, <1>10, <1>12, <1>13 DEF Erreichbar

(* An answer: the mark rises, every key is registered, and the next refill *)
(* will be a set on top of all.                                            *)
LEMMA AntwortErreichbar ==
  ASSUME BestandTypeOK, BestandTypeOK', GeschichteTypeOK, Gezaehlte, Erreichbar, Ordnung,
         NEW a \in Anlauf, AntwortKommt(a)
  PROVE  Erreichbar'
<1>1. /\ anlauf[a].ph = "angenommen" /\ anlauf[a].fuer # "niemand"
      /\ anlauf' = [anlauf EXCEPT ![a] = Frei]
      /\ UNCHANGED <<lokal, hoch, pool, verbraucht, neben, weite>>
  BY DEF AntwortKommt, Setze, geraet, relay, peers, geschichte
<1>2. Fertig(lokal, gemeldetBis')
  <2>1. Fertig(lokal', gemeldetBis') BY AntwortOrdnung
  <2> QED BY <1>1, <2>1
<1>3. anlauf \in [Anlauf -> Anruf(hoch, spk)] BY TypFlach
<1>4. anlauf'[a].ph = "frei" /\ \A b \in Anlauf : b # a => anlauf'[b] = anlauf[b]
  BY <1>1, <1>3 DEF Frei
<1>5. \A b \in Anlauf : Annehmbar(b)' => b # a /\ Annehmbar(b) /\ anlauf'[b] = anlauf[b]
  BY <1>4 DEF Annehmbar, Gilt
<1>6. ASSUME NEW k \in 1 .. hoch
      PROVE  /\ Tiefe(k, lokal', gemeldetBis') <= Tiefe(k, lokal, gemeldetBis) + VORRAT
             /\ (Fertig(lokal, gemeldetBis) =>
                   Tiefe(k, lokal', gemeldetBis') = Tiefe(k, lokal, gemeldetBis))
             /\ Tiefe(k, lokal, gemeldetBis) \in Nat /\ Tiefe(k, lokal', gemeldetBis') \in Nat
  <2>1. PICK h, L, g, g1 : h = hoch /\ L = lokal /\ g = gemeldetBis /\ g1 = gemeldetBis' OBVIOUS
  <2>2. h \in Nat /\ L \subseteq 1 .. h /\ g \in {-1} \cup (0 .. h) /\ k \in Nat BY <2>1, TypFlach
  <2>3. g1 \in {-1} \cup (0 .. h) BY <1>1, <2>1, TypNachher
  <2>4. /\ Tiefe(k, L, g) \in Nat /\ Cardinality(Ab(k, L)) \in Nat
        /\ Cardinality(Ab(k, L)) <= Tiefe(k, L, g)
        /\ (Fertig(L, g) => Tiefe(k, L, g) = Cardinality(Ab(k, L)) + VORRAT)
    BY <2>2, TiefeMisst
  <2>5. Tiefe(k, L, g1) = Cardinality(Ab(k, L)) + VORRAT
    <3>1. Fertig(L, g1) BY <1>2, <2>1
    <3> QED BY <2>2, <2>3, <3>1, TiefeMisst
  <2>6. VORRAT \in Nat BY VerhaeltnisIst
  <2>7. Tiefe(k, L, g1) <= Tiefe(k, L, g) + VORRAT /\ Tiefe(k, L, g1) \in Nat
    BY <2>4, <2>5, <2>6
  <2>8. Fertig(L, g) => Tiefe(k, L, g1) = Tiefe(k, L, g) BY <2>4, <2>5
  <2>9. lokal' = L BY <1>1, <2>1
  <2> QED BY <2>1, <2>4, <2>7, <2>8, <2>9
<1>7. ASSUME NEW b \in Anlauf, Annehmbar(b)'
      PROVE  Luft(b)'
  <2>1. PICK B1 : B1 = Belegt' OBVIOUS
  <2>2. B1 = Belegt \ {a} /\ a \in Belegt BY <1>1, <1>4, <2>1 DEF Belegt
  <2>3. IsFiniteSet(Belegt) /\ Cardinality(Belegt) \in Nat BY BelegtZahl
  <2>4. Cardinality(B1) = Cardinality(Belegt) - 1 BY <2>2, <2>3, FS_RemoveElement
  <2>5. anlauf[b].ph = "unterwegs" BY <1>5, <1>7 DEF Annehmbar
  <2>6. Cardinality(Belegt) <= neben[b] /\ neben[b] \in Nat
    BY <2>5, GeschichteJetzt DEF Gezaehlte
  <2>7. Cardinality(B1) < neben[b] BY <2>3, <2>4, <2>6
  <2>8. neben'[b] = neben[b] BY <1>1
  <2> QED BY <1>1, <1>2, <2>1, <2>7, <2>8 DEF Luft
<1>8. AnrufeDa'
  <2>1. ASSUME NEW b \in Anlauf, Annehmbar(b)', Reicht(Breite(b))'
        PROVE  anlauf'[b].ids \subseteq lokal \cup verbraucht
    <3>1. Annehmbar(b) /\ anlauf'[b] = anlauf[b] /\ neben'[b] = neben[b] BY <1>1, <1>5, <2>1
    <3>2. Reicht(Breite(b)) BY <2>1, <3>1 DEF Breite, Reicht
    <3> QED BY <3>1, <3>2 DEF Erreichbar, AnrufeDa
  <2> QED BY <1>1, <2>1 DEF AnrufeDa
<1>9. ASSUME NEW b \in Anlauf, Annehmbar(b)', NEW k \in anlauf'[b].ids \cap lokal'
      PROVE  Tiefe(k, lokal', gemeldetBis') <= BUENDEL_MAX + Saetze(anlauf'[b].alter) + VORRAT
  <2>1. Annehmbar(b) /\ anlauf'[b] = anlauf[b] BY <1>5, <1>9
  <2>2. anlauf[b].ids \subseteq 1 .. hoch /\ Saetze(anlauf[b].alter) \in Nat BY AnrufZahlen
  <2>3. k \in anlauf[b].ids \cap lokal /\ k \in 1 .. hoch BY <1>1, <1>9, <2>1, <2>2
  <2>4. PICK t, t1, s : /\ t = Tiefe(k, lokal, gemeldetBis) /\ t1 = Tiefe(k, lokal', gemeldetBis')
                        /\ s = Saetze(anlauf[b].alter)
    OBVIOUS
  <2>5. /\ t \in Nat /\ t1 \in Nat /\ s \in Nat /\ t1 <= t + VORRAT
        /\ (Fertig(lokal, gemeldetBis) => t1 = t)
    BY <1>6, <2>2, <2>3, <2>4
  <2>6. t <= BUENDEL_MAX + s \/ (Luft(b) /\ t <= BUENDEL_MAX + s + VORRAT)
    BY <2>1, <2>3, <2>4 DEF Erreichbar, AnrufeNah
  <2>7. Luft(b) => Fertig(lokal, gemeldetBis) BY DEF Luft
  <2>8. BUENDEL_MAX \in Nat /\ VORRAT \in Nat BY VerhaeltnisIst
  <2>9. t1 <= BUENDEL_MAX + s + VORRAT BY <2>5, <2>6, <2>7, <2>8
  <2> QED BY <2>1, <2>4, <2>9
<1>10. AnrufeNah' BY <1>7, <1>9 DEF AnrufeNah
<1>11. ASSUME NEW k \in pool' \cap lokal'
       PROVE  Tiefe(k, lokal', gemeldetBis') + Saetze(Cardinality(Wartend'))
                <= BUENDEL_MAX + Saetze(weite')
  <2>1. pool \subseteq 1 .. hoch BY TypFlach
  <2>2. k \in pool \cap lokal /\ k \in 1 .. hoch BY <1>1, <1>11, <2>1
  <2>3. PICK W1 : W1 = Wartend' OBVIOUS
  <2>4. W1 = Wartend \ {a} /\ a \in Wartend BY <1>1, <1>4, <2>3 DEF Wartend
  <2>5. IsFiniteSet(Wartend) /\ Cardinality(Wartend) \in Nat
    <3>1. Wartend \subseteq Anlauf BY DEF Wartend
    <3> QED BY <3>1, AnlaufTeil
  <2>6. Cardinality(W1) = Cardinality(Wartend) - 1 /\ IsFiniteSet(W1)
    BY <2>4, <2>5, FS_RemoveElement
  <2>7. Cardinality(W1) \in Nat BY <2>6, FS_CardinalityType
  <2>8. PICK t, t1, w1, z :
          /\ t = Tiefe(k, lokal, gemeldetBis) /\ t1 = Tiefe(k, lokal', gemeldetBis')
          /\ w1 = Cardinality(W1) /\ z = Saetze(weite)
    OBVIOUS
  <2>9. w1 \in Nat /\ Cardinality(Wartend) = w1 + 1 BY <2>5, <2>6, <2>7, <2>8
  <2>10. Saetze(w1) \in Nat /\ Saetze(w1 + 1) = Saetze(w1) + VORRAT BY <2>9, SaetzeIst
  <2>11. t + Saetze(w1 + 1) <= BUENDEL_MAX + z
    BY <2>2, <2>8, <2>9 DEF Erreichbar, AngebotNah
  <2>12. t \in Nat /\ t1 \in Nat /\ t1 <= t + VORRAT BY <1>6, <2>2, <2>8
  <2>13. BUENDEL_MAX \in Nat /\ VORRAT \in Nat /\ z \in Nat
    BY <2>8, VerhaeltnisIst, GeschichteJetzt, SaetzeIst
  <2>14. t1 + Saetze(w1) <= BUENDEL_MAX + z BY <2>10, <2>11, <2>12, <2>13
  <2>15. Saetze(weite') = z BY <1>1, <2>8
  <2> QED BY <2>3, <2>8, <2>14, <2>15
<1>12. AngebotNah' BY <1>11 DEF AngebotNah
<1>13. ImmerEinloesbar' BY <1>1 DEF Erreichbar, ImmerEinloesbar, AngebotDa
<1> QED BY <1>8, <1>10, <1>12, <1>13 DEF Erreichbar

(* A call ends, or goes on with nobody, or somebody else, waiting for it.  *)
Vermindert(a) ==
    \/ anlauf'[a].ph = "frei"
    \/ /\ anlauf'[a].ph = anlauf[a].ph /\ anlauf'[a].ids = anlauf[a].ids
       /\ anlauf'[a].alter = anlauf[a].alter
       /\ anlauf'[a].fuer # "niemand" => anlauf[a].fuer # "niemand"
       /\ neben'[a] = neben[a]

LEMMA VermindertBleibt ==
  ASSUME \A a \in Anlauf : Vermindert(a)
  PROVE  /\ \A a \in Anlauf : AnrufBleibt(a)
         /\ Wartend' \subseteq Wartend /\ Belegt' \subseteq Belegt
<1>1. \A a \in Anlauf : AnrufBleibt(a) BY DEF Vermindert, AnrufBleibt
<1>2. Wartend' \subseteq Wartend BY DEF Vermindert, Wartend
<1>3. Belegt' \subseteq Belegt BY DEF Vermindert, Belegt
<1> QED BY <1>1, <1>2, <1>3

LEMMA GleichVermindert ==
  ASSUME anlauf' = anlauf, neben' = neben
  PROVE  \A a \in Anlauf : Vermindert(a)
BY DEF Vermindert

LEMMA SetzeVermindert ==
  ASSUME BestandTypeOK, NEW a \in Anlauf, NEW r, Setze(a, r),
         GeschichteTypeOK,
         \/ r = Frei /\ neben' = [neben EXCEPT ![a] = 0]
         \/ r = Frei /\ neben' = neben
         \/ r = [anlauf[a] EXCEPT !.fuer = "niemand"] /\ neben' = neben
  PROVE  \A b \in Anlauf : Vermindert(b)
<1>1. anlauf \in [Anlauf -> Anruf(hoch, spk)] BY TypFlach
<1>2. anlauf'[a] = r /\ \A b \in Anlauf : b # a => anlauf'[b] = anlauf[b] BY <1>1 DEF Setze
<1>3. PICK q : q = anlauf[a] OBVIOUS
<1>4. q \in Anruf(hoch, spk) BY <1>1, <1>3
<1>5. neben \in [Anlauf -> 0 .. Cardinality(Anlauf)] BY DEF GeschichteTypeOK
<1>6. \A b \in Anlauf : b # a => neben'[b] = neben[b] BY <1>5
<1>7. CASE r = Frei
  <2>1. anlauf'[a].ph = "frei" BY <1>2, <1>7 DEF Frei
  <2> QED BY <1>2, <1>6, <2>1 DEF Vermindert
<1>8. CASE r = [q EXCEPT !.fuer = "niemand"] /\ neben' = neben
  <2>1. r.ph = q.ph /\ r.ids = q.ids /\ r.alter = q.alter /\ r.fuer = "niemand"
    BY <1>4, <1>8 DEF Anruf
  <2> QED BY <1>2, <1>3, <1>8, <2>1 DEF Vermindert
<1> QED BY <1>3, <1>7, <1>8

(* No key is added and the mark stays. *)
LEMMA WenigerErreichbar ==
  ASSUME BestandTypeOK, BestandTypeOK', GeschichteTypeOK, Gezaehlte, Erreichbar,
         lokal' \subseteq lokal, gemeldetBis' = gemeldetBis,
         lokal \subseteq lokal' \cup verbraucht', verbraucht \subseteq verbraucht',
         pool' \subseteq pool, weite' = weite, \A a \in Anlauf : Vermindert(a)
  PROVE  Erreichbar'
<1>1. Behalten BY DEF Behalten
<1>2. ASSUME NEW k \in 1 .. hoch, k \in lokal' PROVE k \in lokal /\ Seichter(k)
  <2>1. PICK h, L, g, L1 : h = hoch /\ L = lokal /\ g = gemeldetBis /\ L1 = lokal' OBVIOUS
  <2>2. h \in Nat /\ L \subseteq 1 .. h /\ L1 \subseteq L BY <2>1, TypFlach
  <2>3. Tiefe(k, L1, g) <= Tiefe(k, L, g) BY <2>2, TiefeMonoton
  <2>4. Fertig(lokal, gemeldetBis) => Fertig(lokal', gemeldetBis') BY DEF Fertig
  <2>5. gemeldetBis' = g BY <2>1
  <2>6. Seichter(k) BY <2>1, <2>3, <2>4, <2>5 DEF Seichter
  <2> QED BY <1>2, <2>6
<1>3. /\ \A a \in Anlauf : AnrufBleibt(a)
      /\ Wartend' \subseteq Wartend /\ Belegt' \subseteq Belegt
  BY VermindertBleibt
<1> QED BY <1>1, <1>2, <1>3, SeichterErreichbar

(* The relay does not know the device: every key had been registered, and  *)
(* the whole supply goes again.                                            *)
LEMMA LoginErreichbar ==
  ASSUME BestandTypeOK, BestandTypeOK', GeschichteTypeOK, Gezaehlte, Erreichbar, Ordnung, Login
  PROVE  Erreichbar'
<1>1. /\ verbindung = "login"
      /\ UNCHANGED <<lokal, hoch, anlauf, pool, verbraucht, neben, weite>>
      /\ gemeldetBis' = gemeldetBis \/ gemeldetBis' = -1
  BY DEF Login, geraet, relay, peers, meta, Nie, geschichte
<1>2. \A a \in Anlauf : Vermindert(a) BY <1>1, GleichVermindert
<1>3. CASE gemeldetBis' = gemeldetBis BY <1>1, <1>2, <1>3, WenigerErreichbar
<1>4. CASE gemeldetBis' = -1
  <2>1. Fertig(lokal, gemeldetBis) BY <1>1 DEF Ordnung, GemeldetVorLogin
  <2>2. ASSUME NEW k \in 1 .. hoch PROVE Seichter(k)
    <3>1. PICK h, L, g : h = hoch /\ L = lokal /\ g = gemeldetBis OBVIOUS
    <3>2. /\ h \in Nat /\ L \subseteq 1 .. h /\ g \in {-1} \cup (0 .. h) /\ k \in Nat
          /\ Fertig(L, g)
      BY <2>1, <3>1, TypFlach
    <3>3. /\ Tiefe(k, L, -1) = Cardinality(Ab(k, L)) /\ Cardinality(Ab(k, L)) \in Nat
          /\ Tiefe(k, L, g) = Cardinality(Ab(k, L)) + VORRAT
      BY <3>2, TiefeMisst
    <3>4. VORRAT \in Nat BY VerhaeltnisIst
    <3>5. Tiefe(k, L, -1) + VORRAT <= Tiefe(k, L, g) BY <3>3, <3>4
    <3>6. lokal' = L /\ gemeldetBis' = -1 BY <1>1, <1>4, <3>1
    <3> QED BY <3>1, <3>5, <3>6 DEF Seichter
  <2>3. Behalten BY <1>1 DEF Behalten
  <2>4. /\ \A a \in Anlauf : AnrufBleibt(a)
        /\ Wartend' \subseteq Wartend /\ Belegt' \subseteq Belegt
    BY <1>2, VermindertBleibt
  <2>5. verbraucht \subseteq verbraucht' /\ pool' \subseteq pool /\ weite' = weite BY <1>1
  <2>6. \A k \in 1 .. hoch : k \in lokal' => k \in lokal /\ Seichter(k) BY <1>1, <2>2
  <2> QED BY <2>3, <2>4, <2>5, <2>6, SeichterErreichbar
<1> QED BY <1>1, <1>3, <1>4

LEMMA ScheitertVermindert ==
  ASSUME BestandTypeOK, GeschichteTypeOK, NEW a \in Anlauf, Scheitert(a)
  PROVE  /\ \A b \in Anlauf : Vermindert(b)
         /\ UNCHANGED <<lokal, gemeldetBis, pool, verbraucht, neben, weite>>
<1>1. /\ Setze(a, IF anlauf[a].ph = "unterwegs" THEN [anlauf[a] EXCEPT !.fuer = "niemand"] ELSE Frei)
      /\ UNCHANGED <<lokal, gemeldetBis, pool, verbraucht, neben, weite>>
  BY DEF Scheitert, geraet, meta, relay, peers, geschichte
<1>2. PICK r : r = IF anlauf[a].ph = "unterwegs" THEN [anlauf[a] EXCEPT !.fuer = "niemand"] ELSE Frei
  OBVIOUS
<1>3. Setze(a, r) /\ (r = Frei \/ r = [anlauf[a] EXCEPT !.fuer = "niemand"]) BY <1>1, <1>2
<1>4. \A b \in Anlauf : Vermindert(b) BY <1>1, <1>3, SetzeVermindert
<1> QED BY <1>1, <1>4

LEMMA ScheitertErreichbar ==
  ASSUME BestandTypeOK, BestandTypeOK', GeschichteTypeOK, Gezaehlte, Erreichbar,
         NEW a \in Anlauf, Scheitert(a)
  PROVE  Erreichbar'
BY ScheitertVermindert, WenigerErreichbar

LEMMA EndeVermindert ==
  ASSUME BestandTypeOK, GeschichteTypeOK, NEW a \in Anlauf, Setze(a, Frei),
         neben' = [neben EXCEPT ![a] = 0]
  PROVE  \A b \in Anlauf : Vermindert(b)
<1>1. PICK r : r = Frei OBVIOUS
<1>2. Setze(a, r) BY <1>1
<1> QED BY <1>1, <1>2, SetzeVermindert

LEMMA EndeErreichbar ==
  ASSUME BestandTypeOK, BestandTypeOK', GeschichteTypeOK, Gezaehlte, Erreichbar,
         NEW a \in Anlauf, Setze(a, Frei), neben' = [neben EXCEPT ![a] = 0],
         UNCHANGED <<lokal, gemeldetBis, pool, verbraucht, weite>>
  PROVE  Erreichbar'
BY EndeVermindert, WenigerErreichbar

LEMMA AbrissVermindert ==
  ASSUME BestandTypeOK, Abriss
  PROVE  /\ \A a \in Anlauf : Vermindert(a)
         /\ UNCHANGED <<lokal, gemeldetBis, pool, verbraucht, neben, weite>>
<1>1. /\ anlauf' = [a \in Anlauf |-> IF anlauf[a].fuer = "verbinden"
                                       THEN [anlauf[a] EXCEPT !.fuer = "ueberholt"] ELSE anlauf[a]]
      /\ UNCHANGED <<lokal, gemeldetBis, pool, verbraucht, neben, weite>>
  BY DEF Abriss, geraet, meta, relay, peers, geschichte
<1>2. ASSUME NEW a \in Anlauf PROVE Vermindert(a)
  <2>1. PICK q : q = anlauf[a] OBVIOUS
  <2>2. q \in Anruf(hoch, spk) BY <2>1, TypFlach
  <2>3. PICK u : u = [q EXCEPT !.fuer = "ueberholt"] OBVIOUS
  <2>4. u.ph = q.ph /\ u.ids = q.ids /\ u.alter = q.alter BY <2>2, <2>3 DEF Anruf
  <2>5. anlauf'[a] = IF q.fuer = "verbinden" THEN u ELSE q BY <1>1, <2>1, <2>3
  <2> QED BY <1>1, <2>1, <2>4, <2>5 DEF Vermindert
<1> QED BY <1>1, <1>2

LEMMA AbrissErreichbar ==
  ASSUME BestandTypeOK, BestandTypeOK', GeschichteTypeOK, Gezaehlte, Erreichbar, Abriss
  PROVE  Erreichbar'
BY AbrissVermindert, WenigerErreichbar

(* The app dies: no answer comes any more; the requests may still arrive,  *)
(* and the start may refill.                                               *)
LEMMA AbsturzVermindert ==
  ASSUME BestandTypeOK, Absturz
  PROVE  /\ \A a \in Anlauf : Vermindert(a)
         /\ UNCHANGED <<gemeldetBis, pool, verbraucht, neben, weite>>
<1>1. /\ anlauf' = [a \in Anlauf |-> IF anlauf[a].ph = "unterwegs"
                                       THEN [anlauf[a] EXCEPT !.fuer = "niemand"] ELSE Frei]
      /\ UNCHANGED <<gemeldetBis, pool, verbraucht, neben, weite>>
  BY DEF Absturz, meta, relay, peers, geschichte
<1>2. ASSUME NEW a \in Anlauf PROVE Vermindert(a)
  <2>1. PICK q : q = anlauf[a] OBVIOUS
  <2>2. q \in Anruf(hoch, spk) BY <2>1, TypFlach
  <2>3. PICK u : u = [q EXCEPT !.fuer = "niemand"] OBVIOUS
  <2>4. u.ph = q.ph /\ u.ids = q.ids /\ u.alter = q.alter /\ u.fuer = "niemand"
    BY <2>2, <2>3 DEF Anruf
  <2>5. anlauf'[a] = IF q.ph = "unterwegs" THEN u ELSE Frei BY <1>1, <2>1, <2>3
  <2> QED BY <1>1, <2>1, <2>4, <2>5 DEF Vermindert, Frei
<1> QED BY <1>1, <1>2

LEMMA AbsturzErreichbar ==
  ASSUME BestandTypeOK, BestandTypeOK', GeschichteTypeOK, Gezaehlte, Erreichbar, Absturz
  PROVE  Erreichbar'
<1>1. UNCHANGED <<gemeldetBis, pool, verbraucht, neben, weite>> BY AbsturzVermindert
<1>2. \A a \in Anlauf : Vermindert(a) BY AbsturzVermindert
<1>3. /\ \A a \in Anlauf : AnrufBleibt(a)
      /\ Wartend' \subseteq Wartend /\ Belegt' \subseteq Belegt
  BY <1>2, VermindertBleibt
<1>4. PICK L1, h1 : /\ lokal' = L1 /\ hoch' = h1
                    /\ Ergaenzt(lokal, hoch, L1, h1) /\ BeimStart(lokal, hoch, h1)
  BY AbsturzIst
<1>5. ASSUME NEW k \in lokal
      PROVE  /\ Tiefe(k, lokal, gemeldetBis) <= HOECHSTZAHL => k \in lokal'
             /\ Seichter(k)
  <2>1. PICK h, L, g : h = hoch /\ L = lokal /\ g = gemeldetBis OBVIOUS
  <2>2. h \in Nat /\ L \subseteq 1 .. h /\ g \in {-1} \cup (0 .. h) BY <2>1, TypFlach
  <2>3. Ergaenzt(L, h, L1, h1) /\ BeimStart(L, h, h1) /\ k \in L BY <1>4, <1>5, <2>1
  <2>4. UNTERGRENZE + VORRAT <= BUENDEL_MAX /\ BUENDEL_MAX <= HOECHSTZAHL BY VerhaeltnisIst
  <2>5. /\ Tiefe(k, L, g) <= HOECHSTZAHL => k \in L1
        /\ \/ Tiefe(k, L1, g) <= BUENDEL_MAX
           \/ L1 \subseteq L /\ Tiefe(k, L1, g) <= Tiefe(k, L, g)
    BY <2>2, <2>3, <2>4, TiefeNachStart
  <2>6. L1 \subseteq L => (Fertig(L, g) => Fertig(L1, g)) BY DEF Fertig
  <2>7. lokal' = L1 /\ gemeldetBis' = g BY <1>1, <1>4, <2>1
  <2> QED BY <2>1, <2>5, <2>6, <2>7 DEF Seichter
<1>6. Behalten BY <1>5 DEF Behalten
<1>7. ASSUME NEW k \in 1 .. hoch, k \in lokal' PROVE k \in lokal /\ Seichter(k)
  <2>1. lokal' \subseteq lokal \cup (hoch + 1 .. h1) BY <1>4 DEF Ergaenzt, Neueste
  <2>2. hoch \in Nat BY TypFlach
  <2>3. k \notin hoch + 1 .. h1 BY <2>2
  <2>4. k \in lokal BY <1>7, <2>1, <2>3
  <2> QED BY <1>5, <2>4
<1>8. verbraucht \subseteq verbraucht' /\ pool' \subseteq pool /\ weite' = weite BY <1>1
<1> QED BY <1>3, <1>6, <1>7, <1>8, SeichterErreichbar

LEMMA ErstnachrichtErreichbar ==
  ASSUME BestandTypeOK, BestandTypeOK', GeschichteTypeOK, Gezaehlte, Erreichbar, Erstnachricht
  PROVE  Erreichbar'
<1>1. /\ UNCHANGED <<gemeldetBis, anlauf, pool, neben, weite>>
      /\ \E n \in offen : /\ lokal' = lokal \ {gezogen[n]}
                          /\ verbraucht' = verbraucht \cup ({gezogen[n]} \cap lokal)
  BY DEF Erstnachricht, meta, relay, geschichte
<1>2. \A a \in Anlauf : Vermindert(a) BY <1>1, GleichVermindert
<1>3. /\ lokal' \subseteq lokal /\ lokal \subseteq lokal' \cup verbraucht'
      /\ verbraucht \subseteq verbraucht' /\ pool' \subseteq pool
  BY <1>1
<1> QED BY <1>1, <1>2, <1>3, WenigerErreichbar

(* A step of the relay, of a peer, of the line, or none. *)
LEMMA FernErreichbar ==
  ASSUME BestandTypeOK, BestandTypeOK', GeschichteTypeOK, Gezaehlte, Erreichbar, pool' \subseteq pool,
         UNCHANGED <<lokal, gemeldetBis, anlauf, verbraucht, neben, weite>>
  PROVE  Erreichbar'
<1>1. \A a \in Anlauf : Vermindert(a) BY GleichVermindert
<1> QED BY <1>1, WenigerErreichbar

LEMMA ErreichbarSchritt ==
  ASSUME BestandTypeOK, BestandTypeOK', GeschichteTypeOK, Gezaehlte, Ordnung, Erreichbar, [VorratNext]_vorratVars
  PROVE  Erreichbar'
<1>1. CASE Verbinde BY <1>1, VerbindeErreichbar
<1>2. CASE VerbindeOhneAnmeldung
  <2>1. pool' \subseteq pool /\ UNCHANGED <<lokal, gemeldetBis, anlauf, verbraucht, neben, weite>>
    BY <1>2 DEF VerbindeOhneAnmeldung, geraet, meta, relay, peers, geschichte
  <2> QED BY <2>1, FernErreichbar
<1>3. CASE Login BY <1>3, LoginErreichbar
<1>4. CASE FuelleNachUndMelde BY <1>4, FuelleNachErreichbar
<1>5. ASSUME NEW a \in Anlauf, RelayNimmt(a) PROVE Erreichbar' BY <1>5, NimmtErreichbar
<1>6. ASSUME NEW a \in Anlauf, RelayLehntAb(a) PROVE Erreichbar'
  <2>1. /\ Setze(a, Frei) /\ neben' = [neben EXCEPT ![a] = 0]
        /\ UNCHANGED <<lokal, gemeldetBis, pool, verbraucht, weite>>
    BY <1>6 DEF RelayLehntAb, geraet, meta, relay, peers
  <2> QED BY <2>1, EndeErreichbar
<1>7. ASSUME NEW a \in Anlauf, AntwortKommt(a) PROVE Erreichbar' BY <1>7, AntwortErreichbar
<1>8. ASSUME NEW a \in Anlauf, Scheitert(a) PROVE Erreichbar' BY <1>8, ScheitertErreichbar
<1>9. ASSUME NEW a \in Anlauf, Verhallt(a) PROVE Erreichbar'
  <2>1. /\ Setze(a, Frei) /\ neben' = [neben EXCEPT ![a] = 0]
        /\ UNCHANGED <<lokal, gemeldetBis, pool, verbraucht, weite>>
    BY <1>9 DEF Verhallt, geraet, meta, relay, peers
  <2> QED BY <2>1, EndeErreichbar
<1>10. CASE Abriss BY <1>10, AbrissErreichbar
<1>11. CASE Absturz BY <1>11, AbsturzErreichbar
<1>12. CASE RelayVergisst
  <2>1. pool' \subseteq pool /\ UNCHANGED <<lokal, gemeldetBis, anlauf, verbraucht, neben, weite>>
    BY <1>12 DEF RelayVergisst, geraet, meta, peers, geschichte
  <2> QED BY <2>1, FernErreichbar
<1>13. CASE PeerZieht
  <2>1. pool' \subseteq pool /\ UNCHANGED <<lokal, gemeldetBis, anlauf, verbraucht, neben, weite>>
    BY <1>13 DEF PeerZieht, geraet, meta, geschichte
  <2> QED BY <2>1, FernErreichbar
<1>14. CASE Erstnachricht BY <1>14, ErstnachrichtErreichbar
<1>15. CASE UNCHANGED vorratVars
  <2>1. pool' \subseteq pool /\ UNCHANGED <<lokal, gemeldetBis, anlauf, verbraucht, neben, weite>>
    BY <1>15 DEF vorratVars, geraet, meta, relay, peers, geschichte
  <2> QED BY <2>1, FernErreichbar
<1> QED BY <1>1, <1>2, <1>3, <1>4, <1>5, <1>6, <1>7, <1>8, <1>9, <1>10, <1>11, <1>12, <1>13,
           <1>14, <1>15 DEF VorratNext

LEMMA ErreichbarInit ==
  ASSUME VorratInit
  PROVE  Erreichbar
<1>1. pool = {} /\ \A a \in Anlauf : anlauf[a].ph = "frei" BY DEF VorratInit, Frei
<1>2. \A a \in Anlauf : ~Annehmbar(a) BY <1>1 DEF Annehmbar
<1>3. AnrufeDa /\ AnrufeNah BY <1>2 DEF AnrufeDa, AnrufeNah
<1>4. AngebotNah /\ ImmerEinloesbar BY <1>1 DEF AngebotNah, ImmerEinloesbar, AngebotDa
<1> QED BY <1>3, <1>4 DEF Erreichbar

----------------------------------------------------------------------------
(* The history: what a request and the offered upload had beside them.     *)
Nebenher == GeschichteTypeOK /\ Gezaehlte

(* A call begins. *)
LEMMA BeginnGezaehlt ==
  ASSUME BestandTypeOK, Nebenher, NEW a \in Anlauf, anlauf[a].ph = "frei",
         anlauf'[a].ph = "unterwegs", neben' = Gezaehlt(a), weite' = weite,
         \A b \in Anlauf : b # a => /\ anlauf'[b].ph = anlauf[b].ph
                                    /\ anlauf'[b].fuer = anlauf[b].fuer
  PROVE  Nebenher'
<1>1. PICK B, B1, W1 : B = Belegt /\ B1 = Belegt' /\ W1 = Wartend' OBVIOUS
<1>2. B1 = B \cup {a} /\ a \notin B BY <1>1 DEF Belegt
<1>3. W1 = Wartend BY <1>1 DEF Wartend
<1>4. IsFiniteSet(B) /\ Cardinality(B) \in Nat BY <1>1, BelegtZahl
<1>5. Cardinality(B1) = Cardinality(B) + 1 BY <1>2, <1>4, FS_AddElement
<1>6. Cardinality(B1) <= Cardinality(Anlauf) /\ Cardinality(Anlauf) \in Nat
  <2>1. B1 \subseteq Anlauf BY <1>1 DEF Belegt
  <2> QED BY <2>1, AnlaufTeil
<1>7. ASSUME NEW b \in Anlauf
      PROVE  /\ neben'[b] \in 0 .. Cardinality(Anlauf)
             /\ anlauf'[b].ph = "unterwegs" => Cardinality(B1) <= neben'[b]
  <2>1. neben[b] \in 0 .. Cardinality(Anlauf) BY DEF Nebenher, GeschichteTypeOK
  <2>2. neben'[b] = IF (b = a \/ anlauf[b].ph = "unterwegs") /\ neben[b] <= Cardinality(B)
                      THEN Cardinality(B) + 1 ELSE neben[b]
    BY <1>1 DEF Gezaehlt
  <2>3. anlauf'[b].ph = "unterwegs" => b = a \/ anlauf[b].ph = "unterwegs" OBVIOUS
  <2> QED BY <1>4, <1>5, <1>6, <2>1, <2>2, <2>3
<1>8. GeschichteTypeOK'
  <2>1. neben' = [b \in Anlauf |-> neben'[b]] BY DEF Gezaehlt
  <2>2. neben' \in [Anlauf -> 0 .. Cardinality(Anlauf)] BY <1>7, <2>1
  <2> QED BY <2>2 DEF Nebenher, GeschichteTypeOK
<1>9. Gezaehlte' BY <1>1, <1>3, <1>7 DEF Nebenher, Gezaehlte
<1> QED BY <1>8, <1>9 DEF Nebenher

LEMMA MeldetGezaehlt ==
  ASSUME BestandTypeOK, Nebenher, NEW a \in Anlauf, NEW L, NEW h, NEW fuer, NEW anrufe,
         anrufe = anlauf \/ anrufe = Gealtert, Meldet(a, L, h, anrufe, fuer)
  PROVE  Nebenher'
<1>1. /\ anlauf[a].ph = "frei" /\ neben' = Gezaehlt(a) /\ weite' = weite
      /\ \/ anlauf' = [anlauf EXCEPT ![a] = NeuerAnruf(fuer)]
         \/ anlauf' = [Gealtert EXCEPT ![a] = NeuerAnruf(fuer)]
  BY DEF Meldet
<1>2. anlauf \in [Anlauf -> Anruf(hoch, spk)] /\ DOMAIN Gealtert = Anlauf
  BY TypFlach DEF Gealtert
<1>3. /\ anlauf'[a] = NeuerAnruf(fuer)
      /\ \A b \in Anlauf : b # a => anlauf'[b] = anlauf[b] \/ anlauf'[b] = Gealtert[b]
  BY <1>1, <1>2
<1>4. anlauf'[a].ph = "unterwegs" BY <1>3 DEF NeuerAnruf
<1>5. \A b \in Anlauf : b # a => /\ anlauf'[b].ph = anlauf[b].ph
                                 /\ anlauf'[b].fuer = anlauf[b].fuer
  BY <1>3, GealtertIst
<1> QED BY <1>1, <1>4, <1>5, BeginnGezaehlt

(* The relay takes an upload: no more wait for an answer than were beside  *)
(* it.                                                                     *)
LEMMA NimmtGezaehlt ==
  ASSUME BestandTypeOK, Nebenher, NEW a \in Anlauf, RelayNimmt(a)
  PROVE  Nebenher'
<1>1. /\ anlauf[a].ph = "unterwegs" /\ anlauf[a].alter <= NONCE_FRISCH
      /\ anlauf' = [anlauf EXCEPT ![a] = [anlauf[a] EXCEPT !.ph = "angenommen"]]
      /\ weite' = anlauf[a].alter + neben[a] /\ neben' = [neben EXCEPT ![a] = 0]
  BY DEF RelayNimmt, Gilt, Setze
<1>2. anlauf \in [Anlauf -> Anruf(hoch, spk)] BY TypFlach
<1>3. PICK r : r = anlauf[a] OBVIOUS
<1>4. /\ anlauf'[a] = [r EXCEPT !.ph = "angenommen"] /\ r \in Anruf(hoch, spk)
      /\ \A b \in Anlauf : b # a => anlauf'[b] = anlauf[b]
  BY <1>1, <1>2, <1>3
<1>5. anlauf'[a].ph = "angenommen" BY <1>4 DEF Anruf
<1>6. Belegt' = Belegt BY <1>1, <1>4, <1>5 DEF Belegt
<1>7. neben \in [Anlauf -> 0 .. Cardinality(Anlauf)] BY DEF Nebenher, GeschichteTypeOK
<1>8. PICK i, m : i = anlauf[a].alter /\ m = neben[a] OBVIOUS
<1>9. /\ i \in Nat /\ i <= NONCE_FRISCH /\ NONCE_FRISCH \in Nat /\ Cardinality(Anlauf) \in Nat
      /\ m \in 0 .. Cardinality(Anlauf)
  BY <1>1, <1>7, <1>8, AnrufZahlen, VerhaeltnisIst
<1>10. GeschichteTypeOK'
  <2>1. 0 \in 0 .. Cardinality(Anlauf) BY <1>9
  <2>2. neben' \in [Anlauf -> 0 .. Cardinality(Anlauf)] BY <1>1, <1>7, <2>1
  <2>3. i + m \in 0 .. NONCE_FRISCH + Cardinality(Anlauf) BY <1>9
  <2> QED BY <1>1, <1>8, <2>2, <2>3 DEF GeschichteTypeOK
<1>11. \A b \in Anlauf : anlauf'[b].ph = "unterwegs" => Cardinality(Belegt') <= neben'[b]
  BY <1>1, <1>4, <1>5, <1>6, <1>7 DEF Nebenher, Gezaehlte
<1>12. Cardinality(Wartend') <= weite'
  <2>1. PICK W1 : W1 = Wartend' OBVIOUS
  <2>2. W1 \subseteq Belegt BY <1>6, <2>1 DEF Belegt, Wartend
  <2>3. Cardinality(W1) \in Nat /\ Cardinality(W1) <= Cardinality(Belegt)
    BY <2>2, BelegtZahl, TeilEndlich
  <2>4. Cardinality(Belegt) <= m /\ Cardinality(Belegt) \in Nat
    BY <1>1, <1>8, BelegtZahl DEF Nebenher, Gezaehlte
  <2>5. Cardinality(W1) <= i + m BY <1>9, <2>3, <2>4
  <2> QED BY <1>1, <1>8, <2>1, <2>5
<1>13. Gezaehlte' BY <1>11, <1>12 DEF Gezaehlte
<1> QED BY <1>10, <1>13 DEF Nebenher

(* Calls end, or lose the one who waits for them. *)
LEMMA WenigerGezaehlt ==
  ASSUME Nebenher, weite' = weite, \A a \in Anlauf : Vermindert(a),
         neben' = neben \/ \E a \in Anlauf : neben' = [neben EXCEPT ![a] = 0]
  PROVE  Nebenher'
<1>1. /\ Wartend' \subseteq Wartend /\ Belegt' \subseteq Belegt BY VermindertBleibt
<1>2. /\ Cardinality(Belegt') <= Cardinality(Belegt) /\ Cardinality(Belegt') \in Nat
      /\ Cardinality(Wartend') <= Cardinality(Wartend) /\ Cardinality(Wartend') \in Nat
      /\ Cardinality(Belegt) \in Nat /\ Cardinality(Wartend) \in Nat
  BY <1>1, BelegtZahl, WenigerBelegt
<1>3. GeschichteTypeOK'
  <2>1. neben \in [Anlauf -> 0 .. Cardinality(Anlauf)] BY DEF Nebenher, GeschichteTypeOK
  <2>2. 0 \in 0 .. Cardinality(Anlauf) BY VerhaeltnisIst
  <2>3. neben' \in [Anlauf -> 0 .. Cardinality(Anlauf)] BY <2>1, <2>2
  <2> QED BY <2>3 DEF Nebenher, GeschichteTypeOK
<1>4. ASSUME NEW a \in Anlauf, anlauf'[a].ph = "unterwegs"
      PROVE  Cardinality(Belegt') <= neben'[a]
  <2>1. anlauf[a].ph = "unterwegs" /\ neben'[a] = neben[a] BY <1>4 DEF Vermindert
  <2>2. Cardinality(Belegt) <= neben[a] /\ neben[a] \in Nat
    BY <2>1, GeschichteJetzt DEF Nebenher, Gezaehlte
  <2> QED BY <1>2, <2>1, <2>2
<1>5. Cardinality(Wartend') <= weite'
  <2>1. NONCE_FRISCH + Cardinality(Anlauf) \in Nat BY VerhaeltnisIst
  <2>2. weite \in Nat BY <2>1 DEF Nebenher, GeschichteTypeOK
  <2> QED BY <1>2, <2>2 DEF Nebenher, Gezaehlte
<1> QED BY <1>3, <1>4, <1>5 DEF Nebenher, Gezaehlte

(* A step that touches neither the calls nor the history. *)
LEMMA GleichGezaehlt ==
  ASSUME Nebenher, UNCHANGED <<anlauf, neben, weite>>
  PROVE  Nebenher'
<1>1. \A a \in Anlauf : Vermindert(a) BY GleichVermindert
<1> QED BY <1>1, WenigerGezaehlt

LEMMA NebenherSchritt ==
  ASSUME BestandTypeOK, Nebenher, [VorratNext]_vorratVars
  PROVE  Nebenher'
<1>0. GeschichteTypeOK BY DEF Nebenher
<1>1. CASE Verbinde
  <2>1. PICK a, fuer : a \in Anlauf /\ fuer = "verbinden" /\ Meldet(a, lokal, hoch, anlauf, fuer)
    BY <1>1, VerbindeIst
  <2> QED BY <2>1, MeldetGezaehlt
<1>2. CASE VerbindeOhneAnmeldung
  <2>1. UNCHANGED <<anlauf, neben, weite>> BY <1>2 DEF VerbindeOhneAnmeldung, geschichte
  <2> QED BY <2>1, GleichGezaehlt
<1>3. CASE Login
  <2>1. UNCHANGED <<anlauf, neben, weite>> BY <1>3 DEF Login, geschichte
  <2> QED BY <2>1, GleichGezaehlt
<1>4. CASE FuelleNachUndMelde
  <2>1. PICK a, L1, h1, fuer :
          a \in Anlauf /\ fuer = "nachschub" /\ Meldet(a, L1, h1, Gealtert, fuer)
    BY <1>4, FuelleNachIst
  <2>2. PICK anrufe : anrufe = Gealtert OBVIOUS
  <2>3. Meldet(a, L1, h1, anrufe, fuer) BY <2>1, <2>2
  <2> QED BY <2>1, <2>2, <2>3, MeldetGezaehlt
<1>5. ASSUME NEW a \in Anlauf, RelayNimmt(a) PROVE Nebenher' BY <1>5, NimmtGezaehlt
<1>6. ASSUME NEW a \in Anlauf, RelayLehntAb(a) PROVE Nebenher'
  <2>1. Setze(a, Frei) /\ neben' = [neben EXCEPT ![a] = 0] /\ weite' = weite
    BY <1>6 DEF RelayLehntAb
  <2>2. \A b \in Anlauf : Vermindert(b) BY <1>0, <2>1, EndeVermindert
  <2> QED BY <2>1, <2>2, WenigerGezaehlt
<1>7. ASSUME NEW a \in Anlauf, AntwortKommt(a) PROVE Nebenher'
  <2>1. Setze(a, Frei) /\ neben' = neben /\ weite' = weite BY <1>7 DEF AntwortKommt, geschichte
  <2>2. PICK r : r = Frei OBVIOUS
  <2>3. Setze(a, r) BY <2>1, <2>2
  <2>4. r = Frei /\ neben' = neben BY <2>1, <2>2
  <2>5. \A b \in Anlauf : Vermindert(b) BY <1>0, <2>3, <2>4, SetzeVermindert
  <2> QED BY <2>1, <2>5, WenigerGezaehlt
<1>8. ASSUME NEW a \in Anlauf, Scheitert(a) PROVE Nebenher'
  <2>1. (\A b \in Anlauf : Vermindert(b)) /\ neben' = neben /\ weite' = weite
    BY <1>0, <1>8, ScheitertVermindert
  <2> QED BY <2>1, WenigerGezaehlt
<1>9. ASSUME NEW a \in Anlauf, Verhallt(a) PROVE Nebenher'
  <2>1. Setze(a, Frei) /\ neben' = [neben EXCEPT ![a] = 0] /\ weite' = weite
    BY <1>9 DEF Verhallt
  <2>2. \A b \in Anlauf : Vermindert(b) BY <1>0, <2>1, EndeVermindert
  <2> QED BY <2>1, <2>2, WenigerGezaehlt
<1>10. CASE Abriss
  <2>1. (\A b \in Anlauf : Vermindert(b)) /\ neben' = neben /\ weite' = weite
    BY <1>10, AbrissVermindert
  <2> QED BY <2>1, WenigerGezaehlt
<1>11. CASE Absturz
  <2>1. (\A b \in Anlauf : Vermindert(b)) /\ neben' = neben /\ weite' = weite
    BY <1>11, AbsturzVermindert
  <2> QED BY <2>1, WenigerGezaehlt
<1>12. CASE RelayVergisst
  <2>1. UNCHANGED <<anlauf, neben, weite>> BY <1>12 DEF RelayVergisst, geschichte
  <2> QED BY <2>1, GleichGezaehlt
<1>13. CASE PeerZieht
  <2>1. UNCHANGED <<anlauf, neben, weite>> BY <1>13 DEF PeerZieht, geschichte
  <2> QED BY <2>1, GleichGezaehlt
<1>14. CASE Erstnachricht
  <2>1. UNCHANGED <<anlauf, neben, weite>> BY <1>14 DEF Erstnachricht, geschichte
  <2> QED BY <2>1, GleichGezaehlt
<1>15. CASE UNCHANGED vorratVars
  <2>1. UNCHANGED <<anlauf, neben, weite>> BY <1>15 DEF vorratVars, geschichte
  <2> QED BY <2>1, GleichGezaehlt
<1> QED BY <1>1, <1>2, <1>3, <1>4, <1>5, <1>6, <1>7, <1>8, <1>9, <1>10, <1>11, <1>12, <1>13,
           <1>14, <1>15 DEF VorratNext

LEMMA NebenherInit ==
  ASSUME VorratInit
  PROVE  Nebenher
<1>1. /\ neben = [a \in Anlauf |-> 0] /\ weite = 0 /\ \A a \in Anlauf : anlauf[a].ph = "frei"
  BY DEF VorratInit, Frei
<1>2. NONCE_FRISCH \in Nat /\ Cardinality(Anlauf) \in Nat BY VerhaeltnisIst
<1>3. GeschichteTypeOK BY <1>1, <1>2 DEF GeschichteTypeOK
<1>4. PICK W : W = Wartend OBVIOUS
<1>5. W = {} BY <1>1, <1>4 DEF Wartend
<1>6. Cardinality(Wartend) = 0 BY <1>4, <1>5, FS_EmptySet
<1>7. Gezaehlte BY <1>1, <1>6 DEF Gezaehlte
<1> QED BY <1>3, <1>7 DEF Nebenher

THEOREM NebenherBleibt == (VorratSpec => []Nebenher)
<1>1. VorratInit => Nebenher BY NebenherInit
<1>2. BestandTypeOK /\ Nebenher /\ [VorratNext]_vorratVars => Nebenher' BY NebenherSchritt
<1>3. VorratSpec => []BestandTypeOK BY BestandTyp
<1> QED BY <1>1, <1>2, <1>3, PTL DEF VorratSpec

(* PrekeySupply: the store, the marks, the calls and the relay's bundle    *)
(* are well formed, and what is counted beside a call stays within the     *)
(* calls there are and the refills a nonce outlives.                       *)
THEOREM VorratTyp == (VorratSpec => []VorratTypeOK)
<1>1. BestandTypeOK /\ Nebenher => VorratTypeOK BY DEF VorratTypeOK, Nebenher
<1> QED BY <1>1, BestandTyp, NebenherBleibt, PTL

(* PrekeySupply, for every upload and through every loss, refusal, crash   *)
(* and forgetting: whatever the relay may still hand out is on the device, *)
(* or has opened a message ("Lokal muss er aber bleiben", 159;             *)
(* _fuelleVorratAuf trims at 889-894), as long as the device keeps a       *)
(* bundle and one refill for every refill and every call the upload had    *)
(* beside it, its own call counted.  With the code's numbers these may be  *)
(* two for the EC keys (200 + 2 * 100 of 400) and one for the Kyber keys   *)
(* (50 + 40 of 100): an upload with another call beside it is covered for  *)
(* the EC keys and not for the Kyber keys.                                 *)
THEOREM VorratEinloesbar == (VorratSpec => []ImmerEinloesbar)
<1>1. VorratInit => Erreichbar BY ErreichbarInit
<1>2. BestandTypeOK /\ BestandTypeOK' /\ Nebenher /\ Ordnung /\ Erreichbar /\ [VorratNext]_vorratVars
        => Erreichbar'
  BY ErreichbarSchritt DEF Nebenher
<1>3. VorratSpec => []BestandTypeOK /\ []Nebenher /\ []Ordnung
  BY BestandTyp, NebenherBleibt, OrdnungBleibt, PTL
<1>4. Erreichbar => ImmerEinloesbar BY DEF Erreichbar
<1> QED BY <1>1, <1>2, <1>3, <1>4, PTL DEF VorratSpec
=============================================================================
