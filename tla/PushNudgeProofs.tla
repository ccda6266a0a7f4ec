--------------------------- MODULE PushNudgeProofs ---------------------------
(***************************************************************************)
(* Theorems about PushNudge, for every set of devices, every cap and any   *)
(* number of rows and faults.                                              *)
(***************************************************************************)
EXTENDS PushNudge, FiniteSetTheorems, TLAPS

----------------------------------------------------------------------------
(* The inductive invariant. *)

(* Nobody has asked for a nudge for a row that is not written yet, and a   *)
(* row whose sender waits for its ack is written.                          *)
GeschriebenVorGefordert ==
    /\ \A z \in Zeile : z >= naechste => weck[z] = "nie" /\ ziel[z] = Keins
    /\ \A z \in vorAck : z < naechste /\ ziel[z] \in Geraet

(* A key stands for exactly one task. *)
SchluesselLebt ==
    \A g \in Geraet : bereit[g] + unterwegs[g] = (IF nochmal[g] = "kein" THEN 0 ELSE 1)
Gedeckelt == Cardinality(Schluessel) <= PUSH_LAUFEND_MAX

IInv ==
    /\ TypeOK
    /\ GeschriebenVorGefordert
    /\ SchluesselLebt
    /\ Gedeckelt
    /\ NichtsVergessen

(* What is about the coalescing alone. *)
Rest == TypeOK /\ GeschriebenVorGefordert /\ SchluesselLebt /\ NichtsVergessen

----------------------------------------------------------------------------
LEMMA InitIInv == Init => IInv
<1> SUFFICES ASSUME Init PROVE IInv OBVIOUS
<1>1. Schluessel = {} BY DEF Init, Schluessel
<1>2. Cardinality(Schluessel) = 0 BY <1>1, FS_EmptySet
<1>3. Gedeckelt BY <1>2, PushAssumption DEF Gedeckelt
<1>4. TypeOK BY PushAssumption DEF Init, TypeOK, Zeile
<1>5. GeschriebenVorGefordert /\ SchluesselLebt
  BY DEF Init, GeschriebenVorGefordert, SchluesselLebt, Zeile
<1>6. NichtsVergessen BY DEF Init, NichtsVergessen, Gefordert, An
<1> QED BY <1>3, <1>4, <1>5, <1>6 DEF IInv

(* The set of keys is finite and has a size. *)
LEMMA SchluesselEndlich ==
  ASSUME TypeOK
  PROVE  IsFiniteSet(Schluessel) /\ Cardinality(Schluessel) \in Nat
BY PushAssumption, FS_Subset, FS_CardinalityType DEF Schluessel

(* Fewer keys stay under the cap. *)
LEMMA WenigerSchluessel ==
  ASSUME TypeOK, Gedeckelt, Schluessel' \subseteq Schluessel
  PROVE  Gedeckelt'
<1>1. IsFiniteSet(Schluessel) /\ Cardinality(Schluessel) \in Nat BY SchluesselEndlich
<1>2. /\ IsFiniteSet(Schluessel') /\ Cardinality(Schluessel') \in Nat
      /\ Cardinality(Schluessel') <= Cardinality(Schluessel)
  BY <1>1, FS_Subset, FS_CardinalityType
<1> QED BY <1>1, <1>2, PushAssumption DEF Gedeckelt

----------------------------------------------------------------------------
(* A message is written. *)

LEMMA SchreibtHaelt ==
  ASSUME Rest, NEW g \in Geraet, Schreibt(g), UNCHANGED <<anstoss, leitung, endpunkt, weck>>,
         stoerungen' = stoerungen, vorAck' \in {vorAck, vorAck \cup {naechste}}
  PROVE  Rest'
<1>1. naechste \in Zeile /\ naechste' = naechste + 1
  BY PushAssumption DEF Rest, TypeOK, Schreibt, Zeile
<1>2. TypeOK'
  <2>1. naechste' \in 1 .. ZEILEN_MAX + 1
    BY <1>1, PushAssumption DEF Schreibt, Zeile
  <2>2. schlange' \subseteq {z \in Zeile : z < naechste'} /\ vorAck' \subseteq Zeile
    BY <1>1, PushAssumption DEF Rest, TypeOK, Schreibt, Zeile
  <2>3. ziel' \in [Zeile -> Geraet \cup {Keins}]
    BY <1>1 DEF Rest, TypeOK, Schreibt
  <2> QED BY <2>1, <2>2, <2>3 DEF Rest, TypeOK, anstoss
<1>3. GeschriebenVorGefordert'
  BY <1>1, PushAssumption DEF Rest, TypeOK, Schreibt, GeschriebenVorGefordert, Zeile
<1>4. SchluesselLebt' BY DEF Rest, SchluesselLebt, anstoss
<1>5. NichtsVergessen'
  <2>1. \A z \in Zeile : weck[z] = "gefordert" => z # naechste
    BY <1>1 DEF Rest, GeschriebenVorGefordert, TypeOK, Zeile
  <2>2. \A h \in Geraet : Gefordert(h)' = Gefordert(h)
    BY <1>1, <2>1 DEF Rest, TypeOK, Schreibt, Gefordert, An, Zeile
  <2> QED BY <2>2 DEF Rest, NichtsVergessen, anstoss
<1> QED BY <1>2, <1>3, <1>4, <1>5 DEF Rest

LEMMA SendetHaelt ==
  ASSUME IInv, NEW g \in Geraet, SendetLive(g) \/ Puffert(g)
  PROVE  IInv'
<1>1. Rest'
  BY SchreibtHaelt DEF IInv, Rest, SendetLive, Puffert
<1>2. Schluessel' = Schluessel
  BY DEF SendetLive, Puffert, Schluessel, anstoss
<1>3. Gedeckelt' BY <1>2, WenigerSchluessel DEF IInv
<1> QED BY <1>1, <1>3 DEF IInv, Rest

----------------------------------------------------------------------------
(* A nudge is asked for. *)

LEMMA AckHaelt ==
  ASSUME IInv, NEW z \in Zeile, AckFertig(z)
  PROVE  IInv'
<1> DEFINE g == ziel[z]
<1>1. g \in Geraet /\ z < naechste
  BY DEF IInv, AckFertig, GeschriebenVorGefordert
<1>2. stosse_im_hintergrund_an(g, z) /\ UNCHANGED <<ziel, schlange, naechste, endpunkt, leitung,
                                                    unterwegs, stoerungen>>
      /\ vorAck' = vorAck \ {z}
  BY DEF AckFertig
<1>3. weck' \in [Zeile -> {"nie", "gefordert", "angestossen", "entfallen", "abgeholt"}]
      /\ \A y \in Zeile : y # z => weck'[y] = weck[y]
  BY <1>2 DEF stosse_im_hintergrund_an, IInv, TypeOK
<1>4. GeschriebenVorGefordert'
  BY <1>1, <1>2, <1>3 DEF IInv, TypeOK, GeschriebenVorGefordert, Zeile
<1>5. \A h \in Geraet : h # g => Gefordert(h)' = Gefordert(h)
  BY <1>2, <1>3 DEF Gefordert, An
<1>6. CASE SchonUnterwegs(g) /\ Merkt(g) /\ UNCHANGED bereit
  <2>1. nochmal' = [nochmal EXCEPT ![g] = "ja"] /\ nochmal[g] # "kein"
    BY <1>6 DEF Merkt, SchonUnterwegs
  <2>2. TypeOK' BY <1>2, <1>3, <1>6, <2>1 DEF IInv, TypeOK
  <2>3. SchluesselLebt' BY <1>1, <1>2, <1>6, <2>1 DEF IInv, TypeOK, SchluesselLebt
  <2>4. Schluessel' \subseteq Schluessel BY <1>1, <2>1 DEF IInv, TypeOK, Schluessel
  <2>5. Gedeckelt' BY <2>4, WenigerSchluessel DEF IInv
  <2>6. NichtsVergessen'
    BY <1>1, <1>2, <1>5, <1>6, <2>1 DEF IInv, TypeOK, NichtsVergessen
  <2> QED BY <1>4, <2>2, <2>3, <2>5, <2>6 DEF IInv
<1>7. CASE ~SchonUnterwegs(g) /\ UNCHANGED <<nochmal, bereit>>
           /\ weck' = [weck EXCEPT ![z] = "entfallen"]
  <2>1. TypeOK' BY <1>2, <1>3, <1>7 DEF IInv, TypeOK
  <2>2. SchluesselLebt' BY <1>2, <1>7 DEF IInv, SchluesselLebt
  <2>3. Schluessel' \subseteq Schluessel BY <1>7 DEF Schluessel
  <2>4. Gedeckelt' BY <2>3, WenigerSchluessel DEF IInv
  <2>5. \A h \in Geraet : Gefordert(h)' \subseteq Gefordert(h)
    BY <1>2, <1>7 DEF IInv, TypeOK, Gefordert, An
  <2>6. NichtsVergessen' BY <1>2, <1>7, <2>5 DEF IInv, NichtsVergessen
  <2> QED BY <1>4, <2>1, <2>2, <2>4, <2>6 DEF IInv
<1>8. CASE /\ ~SchonUnterwegs(g) /\ ~Voll
           /\ nochmal' = [nochmal EXCEPT ![g] = "nein"]
           /\ bereit' = [bereit EXCEPT ![g] = @ + 1]
  <2>1. nochmal[g] = "kein" BY <1>8 DEF SchonUnterwegs
  <2>2. bereit[g] = 0 /\ unterwegs[g] = 0
    BY <1>1, <2>1 DEF IInv, TypeOK, SchluesselLebt
  <2>3. TypeOK' BY <1>1, <1>2, <1>3, <1>8, <2>2 DEF IInv, TypeOK
  <2>4. SchluesselLebt' BY <1>1, <1>2, <1>8, <2>2 DEF IInv, TypeOK, SchluesselLebt
  <2>5. Schluessel' = Schluessel \cup {g} /\ g \notin Schluessel
    BY <1>1, <1>8, <2>1 DEF IInv, TypeOK, Schluessel
  <2>6. IsFiniteSet(Schluessel) /\ Cardinality(Schluessel) \in Nat
    BY SchluesselEndlich DEF IInv
  <2>7. Cardinality(Schluessel') = Cardinality(Schluessel) + 1
    BY <2>5, <2>6, FS_AddElement
  <2>8. Gedeckelt' BY <1>8, <2>6, <2>7, PushAssumption DEF Gedeckelt, Voll
  <2>9. bereit'[g] > 0 /\ \A h \in Geraet : h # g => bereit'[h] = bereit[h] /\ nochmal'[h] = nochmal[h]
    BY <1>1, <1>8, <2>2 DEF IInv, TypeOK
  <2>10. NichtsVergessen' BY <1>5, <2>9 DEF IInv, NichtsVergessen
  <2> QED BY <1>4, <2>3, <2>4, <2>8, <2>10 DEF IInv
<1> QED BY <1>2, <1>6, <1>7, <1>8 DEF stosse_im_hintergrund_an

(* The sender is gone before its ack: no nudge. *)
LEMMA AckScheitertHaelt ==
  ASSUME IInv, NEW z \in Zeile, AckScheitert(z)
  PROVE  IInv'
<1>1. TypeOK' BY PushAssumption DEF IInv, TypeOK, AckScheitert, Stoerung, anstoss
<1>2. GeschriebenVorGefordert'
  BY PushAssumption DEF IInv, TypeOK, GeschriebenVorGefordert, AckScheitert, Zeile
<1>3. SchluesselLebt' BY DEF IInv, SchluesselLebt, AckScheitert, anstoss
<1>4. Schluessel' = Schluessel BY DEF AckScheitert, anstoss, Schluessel
<1>5. Gedeckelt' BY <1>4, WenigerSchluessel DEF IInv
<1>6. \A h \in Geraet : Gefordert(h)' \subseteq Gefordert(h)
  BY DEF IInv, TypeOK, AckScheitert, Gefordert, An
<1>7. NichtsVergessen' BY <1>6 DEF IInv, NichtsVergessen, AckScheitert, anstoss
<1> QED BY <1>1, <1>2, <1>3, <1>5, <1>7 DEF IInv

----------------------------------------------------------------------------
(* The task. *)

(* What a POST or an end does to the rows: no new one is asked for, and    *)
(* none of the device is left that was.                                    *)
LEMMA WeckNachAnstoss ==
  ASSUME IInv, NEW g \in Geraet, UNCHANGED relay,
         \/ weck' = [z \in Zeile |-> IF ziel[z] = g /\ weck[z] \in {"nie", "gefordert"}
                                     THEN "angestossen" ELSE weck[z]]
         \/ weck' = [z \in Zeile |-> IF z \in Gefordert(g) THEN "entfallen" ELSE weck[z]]
  PROVE  /\ weck' \in [Zeile -> {"nie", "gefordert", "angestossen", "entfallen", "abgeholt"}]
         /\ GeschriebenVorGefordert'
         /\ Gefordert(g)' = {}
         /\ \A h \in Geraet : Gefordert(h)' \subseteq Gefordert(h)
<1>1. weck' \in [Zeile -> {"nie", "gefordert", "angestossen", "entfallen", "abgeholt"}]
  BY DEF IInv, TypeOK
<1>2. GeschriebenVorGefordert'
  BY PushAssumption DEF IInv, TypeOK, GeschriebenVorGefordert, relay, Gefordert, An
<1>3. Gefordert(g)' = {} /\ \A h \in Geraet : Gefordert(h)' \subseteq Gefordert(h)
  BY DEF IInv, TypeOK, relay, Gefordert, An
<1> QED BY <1>1, <1>2, <1>3

(* stosse_an keeps the invariant of the task that calls it: the one that   *)
(* was about to start, or the one that goes round again.                   *)
LEMMA StosseAnHaelt ==
  ASSUME IInv, NEW g \in Geraet, NEW rest, stosse_an(g, rest), UNCHANGED <<relay, leitung>>,
         bereit' = [bereit EXCEPT ![g] = 0],
         rest \in {nochmal, [nochmal EXCEPT ![g] = "nein"]},
         nochmal[g] # "kein", rest[g] # "kein"
  PROVE  IInv'
<1>1. nochmal' \in [Geraet -> {"kein", "nein", "ja"}] /\ unterwegs' \in [Geraet -> 0 .. 1]
      /\ stoerungen' \in 0 .. STOERUNGEN_MAX
  BY PushAssumption DEF IInv, TypeOK, stosse_an, Postet, Endet, Stoerung
<1>2. /\ weck' \in [Zeile -> {"nie", "gefordert", "angestossen", "entfallen", "abgeholt"}]
      /\ GeschriebenVorGefordert'
      /\ Gefordert(g)' = {}
      /\ \A h \in Geraet : Gefordert(h)' \subseteq Gefordert(h)
  BY WeckNachAnstoss DEF stosse_an, Postet
<1>3. TypeOK'
  <2>1. bereit' \in [Geraet -> 0 .. 1] BY DEF IInv, TypeOK
  <2>2. UNCHANGED <<ziel, schlange, naechste, vorAck, endpunkt, leitung>> BY DEF relay
  <2> QED BY <1>1, <1>2, <2>1, <2>2 DEF IInv, TypeOK
<1>4. SchluesselLebt'
  <2>1. \A h \in Geraet : h # g => /\ nochmal'[h] = nochmal[h] /\ unterwegs'[h] = unterwegs[h]
                                   /\ bereit'[h] = bereit[h]
    BY DEF IInv, TypeOK, stosse_an, Postet, Endet
  <2>2. bereit'[g] = 0 /\ \/ unterwegs'[g] = 1 /\ nochmal'[g] # "kein"
                          \/ unterwegs'[g] = 0 /\ nochmal'[g] = "kein"
    BY DEF IInv, TypeOK, stosse_an, Postet, Endet
  <2> QED BY <2>1, <2>2 DEF IInv, SchluesselLebt
<1>5. Schluessel' \subseteq Schluessel
  BY DEF IInv, TypeOK, stosse_an, Postet, Endet, Schluessel
<1>6. Gedeckelt' BY <1>5, WenigerSchluessel DEF IInv
<1>7. NichtsVergessen'
  <2>1. \A h \in Geraet : h # g => nochmal'[h] = nochmal[h] /\ bereit'[h] = bereit[h]
    BY DEF IInv, TypeOK, stosse_an, Postet, Endet
  <2> QED BY <1>2, <2>1 DEF IInv, NichtsVergessen
<1> QED BY <1>2, <1>3, <1>4, <1>6, <1>7 DEF IInv

LEMMA AufgabeHaelt ==
  ASSUME IInv, NEW g \in Geraet, AufgabeBeginnt(g)
  PROVE  IInv'
<1>1. bereit[g] = 1 /\ nochmal[g] # "kein"
  BY DEF IInv, TypeOK, SchluesselLebt, AufgabeBeginnt
<1>2. bereit' = [bereit EXCEPT ![g] = 0]
  BY <1>1 DEF IInv, TypeOK, AufgabeBeginnt
<1> QED BY <1>1, <1>2, StosseAnHaelt DEF AufgabeBeginnt

LEMMA PostFertigHaelt ==
  ASSUME IInv, NEW g \in Geraet, PostFertig(g)
  PROVE  IInv'
<1>1. unterwegs[g] = 1 /\ bereit[g] = 0 /\ nochmal[g] # "kein"
  BY DEF IInv, TypeOK, SchluesselLebt, PostFertig
<1>2. bereit' = [bereit EXCEPT ![g] = 0]
  BY <1>1 DEF IInv, TypeOK, PostFertig
<1>3. CASE stosse_an(g, [nochmal EXCEPT ![g] = "nein"])
  <2>1. [nochmal EXCEPT ![g] = "nein"][g] # "kein" BY DEF IInv, TypeOK
  <2> QED BY <1>1, <1>2, <1>3, <2>1, StosseAnHaelt DEF PostFertig
<1>4. CASE nochmal[g] # "ja" /\ Endet(g) /\ UNCHANGED <<stoerungen, weck>>
  <2>1. UNCHANGED <<relay, bereit, leitung>> BY DEF PostFertig
  <2>2. Gefordert(g) = {} BY <1>1, <1>4 DEF IInv, NichtsVergessen
  <2>3. TypeOK' BY <1>4, <2>1 DEF IInv, TypeOK, Endet, relay
  <2>4. GeschriebenVorGefordert' BY <1>4, <2>1 DEF IInv, GeschriebenVorGefordert, relay
  <2>5. SchluesselLebt' BY <1>1, <1>4, <2>1 DEF IInv, TypeOK, SchluesselLebt, Endet
  <2>6. Schluessel' \subseteq Schluessel BY <1>4 DEF IInv, TypeOK, Endet, Schluessel
  <2>7. Gedeckelt' BY <2>6, WenigerSchluessel DEF IInv
  <2>8. \A h \in Geraet : Gefordert(h)' = Gefordert(h)
    BY <1>4, <2>1 DEF Gefordert, An, relay
  <2>9. \A h \in Geraet : h # g => nochmal'[h] = nochmal[h] /\ bereit'[h] = bereit[h]
    BY <1>4, <2>1 DEF IInv, TypeOK, Endet
  <2>10. NichtsVergessen' BY <2>2, <2>8, <2>9 DEF IInv, NichtsVergessen
  <2> QED BY <2>3, <2>4, <2>5, <2>7, <2>10 DEF IInv
<1> QED BY <1>3, <1>4 DEF PostFertig

----------------------------------------------------------------------------
(* The line and the restart. *)

LEMMA LeitungHaelt ==
  ASSUME IInv, NEW g \in Geraet, UNCHANGED anstoss,
         \/ Verbindet(g) \/ SetzeEndpunkt(g) \/ Trennt(g) \/ RaeumtAb(g)
         \/ \E z \in Zeile : Bestaetigt(g, z)
  PROVE  IInv'
<1>1. UNCHANGED <<ziel, naechste, vorAck>> /\ schlange' \subseteq schlange
  BY DEF Verbindet, SetzeEndpunkt, Trennt, RaeumtAb, Bestaetigt, relay
<1>2. weck' \in [Zeile -> {"nie", "gefordert", "angestossen", "entfallen", "abgeholt"}]
      /\ \A z \in Zeile : /\ weck[z] = "gefordert" <=> weck'[z] = "gefordert"
                          /\ z >= naechste => weck'[z] = weck[z]
  <2>1. CASE UNCHANGED weck
    BY <2>1 DEF IInv, TypeOK
  <2>2. CASE \E z \in Zeile : Bestaetigt(g, z)
    <3>1. PICK y \in Zeile : Bestaetigt(g, y) BY <2>2
    <3>2. weck' = [weck EXCEPT ![y] = IF @ = "gefordert" THEN @ ELSE "abgeholt"]
      BY <3>1 DEF Bestaetigt
    <3>3. \A z \in Zeile : z >= naechste => z # y
      BY <3>1, PushAssumption DEF IInv, TypeOK, Bestaetigt, Zeile
    <3> QED BY <3>2, <3>3 DEF IInv, TypeOK
  <2> QED BY <2>1, <2>2 DEF Verbindet, SetzeEndpunkt, Trennt, RaeumtAb
<1>3. TypeOK'
  BY <1>1, <1>2, PushAssumption
  DEF IInv, TypeOK, Verbindet, SetzeEndpunkt, Trennt, RaeumtAb, Bestaetigt, Stoerung, relay, anstoss
<1>4. GeschriebenVorGefordert' BY <1>1, <1>2 DEF IInv, GeschriebenVorGefordert
<1>5. SchluesselLebt' BY DEF IInv, SchluesselLebt, anstoss
<1>6. Schluessel' = Schluessel BY DEF Schluessel, anstoss
<1>7. Gedeckelt' BY <1>6, WenigerSchluessel DEF IInv
<1>8. \A h \in Geraet : Gefordert(h)' = Gefordert(h) BY <1>1, <1>2 DEF Gefordert, An
<1>9. NichtsVergessen' BY <1>8 DEF IInv, NichtsVergessen, anstoss
<1> QED BY <1>3, <1>4, <1>5, <1>7, <1>9 DEF IInv

LEMMA NeustartHaelt ==
  ASSUME IInv, Neustart
  PROVE  IInv'
<1>1. weck' \in [Zeile -> {"nie", "gefordert", "angestossen", "entfallen", "abgeholt"}]
      /\ \A z \in Zeile : weck'[z] # "gefordert"
  BY DEF IInv, TypeOK, Neustart
<1>2. TypeOK' BY <1>1, PushAssumption DEF IInv, TypeOK, Neustart, Stoerung
<1>3. GeschriebenVorGefordert'
  <2>1. \A z \in Zeile : z >= naechste => weck'[z] = "nie" /\ ziel'[z] = Keins
    BY DEF IInv, TypeOK, GeschriebenVorGefordert, Neustart, Zeile
  <2> QED BY <2>1 DEF GeschriebenVorGefordert, Neustart
<1>4. SchluesselLebt' BY DEF SchluesselLebt, Neustart
<1>5. Schluessel' = {} BY DEF Schluessel, Neustart
<1>6. Gedeckelt' BY <1>5, WenigerSchluessel DEF IInv
<1>7. NichtsVergessen' BY <1>1 DEF NichtsVergessen, Gefordert, An
<1> QED BY <1>2, <1>3, <1>4, <1>6, <1>7 DEF IInv

----------------------------------------------------------------------------
LEMMA Schritt == IInv /\ [Next]_vars => IInv'
<1> SUFFICES ASSUME IInv, [Next]_vars PROVE IInv' OBVIOUS
<1>1. CASE UNCHANGED vars
  <2>1. UNCHANGED <<ziel, schlange, naechste, vorAck, endpunkt, nochmal, bereit, unterwegs,
                    leitung, stoerungen, weck>>
    BY <1>1 DEF vars, relay, anstoss
  <2>2. Schluessel' = Schluessel BY <2>1 DEF Schluessel
  <2>3. Gedeckelt' BY <2>2, WenigerSchluessel DEF IInv
  <2>4. TypeOK' BY <2>1 DEF IInv, TypeOK
  <2>5. GeschriebenVorGefordert' /\ SchluesselLebt' /\ NichtsVergessen'
    BY <2>1 DEF IInv, GeschriebenVorGefordert, SchluesselLebt, NichtsVergessen, Gefordert, An
  <2> QED BY <2>3, <2>4, <2>5 DEF IInv
<1>2. CASE \E g \in Geraet : SendetLive(g) \/ Puffert(g)
  BY <1>2, SendetHaelt
<1>3. CASE \E g \in Geraet : AufgabeBeginnt(g) \/ PostFertig(g)
  BY <1>3, AufgabeHaelt, PostFertigHaelt
<1>4. CASE \E g \in Geraet : \/ Verbindet(g) \/ SetzeEndpunkt(g) \/ Trennt(g) \/ RaeumtAb(g)
                             \/ \E z \in Zeile : Bestaetigt(g, z)
  <2>1. UNCHANGED anstoss
    BY <1>4 DEF Verbindet, SetzeEndpunkt, Trennt, RaeumtAb, Bestaetigt
  <2> QED BY <1>4, <2>1, LeitungHaelt
<1>5. CASE \E z \in Zeile : AckFertig(z) \/ AckScheitert(z)
  BY <1>5, AckHaelt, AckScheitertHaelt
<1>6. CASE Neustart
  BY <1>6, NeustartHaelt
<1> QED BY <1>1, <1>2, <1>3, <1>4, <1>5, <1>6 DEF Next

(* The invariant holds in every state the relay reaches. *)
THEOREM Invariante == Spec => []IInv
BY InitIInv, Schritt, PTL DEF Spec

(* Every variable keeps its type: no device ever has two tasks. *)
THEOREM TypKorrekt == Spec => []TypeOK
<1>1. IInv => TypeOK BY DEF IInv
<1> QED BY <1>1, Invariante, PTL

(* At most one nudge to a device and PUSH_LAUFEND_MAX in all are under     *)
(* way, and a key of _anstoss_nochmal never outlives its task.             *)
THEOREM EinAnstoss == Spec => []EinAnstossJeGeraet
<1>1. IInv => EinAnstossJeGeraet
  BY DEF IInv, EinAnstossJeGeraet, SchluesselLebt, Gedeckelt
<1> QED BY <1>1, Invariante, PTL

(* A row that came while a nudge was under way is never forgotten by the   *)
(* coalescing.                                                             *)
THEOREM KeinNachzueglerVergessen == Spec => []NichtsVergessen
<1>1. IInv => NichtsVergessen BY DEF IInv
<1> QED BY <1>1, Invariante, PTL
=============================================================================
