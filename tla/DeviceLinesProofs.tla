------------------------ MODULE DeviceLinesProofs ------------------------
(***************************************************************************)
(* Theorems about DeviceLines, for every set of devices, keys, connections *)
(* and list changes.                                                       *)
(***************************************************************************)
EXTENDS DeviceLines, FiniteSetTheorems, TLAPS

----------------------------------------------------------------------------
(* The inductive invariant.                                                *)

(* Between accept and its end a handler knows its device. *)
HandlerKenntGeraet ==
    \A w \in Ws : ws[w].ph \notin {"neu", "zu"} => ws[w].g \in Geraet

(* Before the first list there are no keys anywhere. *)
OhneListeKeinSchluessel ==
    epoche = 0 => /\ \A g \in Geraet : liste[g] = Keiner
                  /\ \A w \in Ws : ws[w].schluessel = Keiner

IInv ==
    /\ TypeOK
    /\ HandlerKenntGeraet
    /\ EintragLebt
    /\ NachweisFolgtLeitung
    /\ OhneListeKeinSchluessel
    /\ AbmeldungErreichtLeitung
    /\ ZeileNurMitListe

(* The parts of the state the actions on one connection and on the tables  *)
(* leave alone.                                                            *)
LeitungenBleiben == UNCHANGED <<connections, nachweisfaehig, ws, auftrag>>

----------------------------------------------------------------------------
LEMMA InitIInv == Init => IInv
  BY KeinerAssumption, MaxAssumption
  DEF Init, IInv, TypeOK, HandlerKenntGeraet, EintragLebt, NachweisFolgtLeitung,
      OhneListeKeinSchluessel, AbmeldungErreichtLeitung, ZeileNurMitListe,
      OhneHandler, Phase, Frist, Mitglieder

(* Deleting rows keeps the tables well typed and inside the list. *)
LEMMA LoeschenHaelt ==
  ASSUME IInv, NEW S \in SUBSET Geraet, LoescheGeraete(S), UNCHANGED <<epoche, liste>>
  PROVE  /\ zeilen' \subseteq Geraet /\ gesehen' \subseteq zeilen'
         /\ alter' \in [Geraet -> Frist]
         /\ spkVon' \in [Geraet -> Schluessel \cup {Keiner}]
         /\ ZeileNurMitListe'
  BY KeinerAssumption
  DEF IInv, TypeOK, ZeileNurMitListe, LoescheGeraete, Frist, Mitglieder

(* What a step of the tables alone has to show. *)
LEMMA NurTabellen ==
  ASSUME IInv, LeitungenBleiben, UNCHANGED <<epoche, liste>>,
         zeilen' \subseteq Geraet, gesehen' \subseteq zeilen',
         alter' \in [Geraet -> Frist],
         spkVon' \in [Geraet -> Schluessel \cup {Keiner}],
         ZeileNurMitListe'
  PROVE  IInv'
  BY DEF IInv, LeitungenBleiben, TypeOK, HandlerKenntGeraet, EintragLebt,
         NachweisFolgtLeitung, OhneListeKeinSchluessel, AbmeldungErreichtLeitung,
         Abgemeldet, WirdGetrennt

LEMMA RegisterHaelt ==
  ASSUME IInv, NEW g \in Geraet, NEW k \in Schluessel, NEW b \in BOOLEAN, Register(g, k, b)
  PROVE  IInv'
<1>1. LeitungenBleiben /\ UNCHANGED <<epoche, liste>>
  BY DEF Register, LeitungenBleiben
<1>2. PICK S \in Raeumbar(g) :
        \/ Trage(g, IF b THEN k ELSE Keiner, S)
        \/ LoescheGeraete(S) /\ S # {}
  BY DEF Register
<1>3. S \in SUBSET Geraet
  BY DEF Raeumbar, Totes, IInv, TypeOK
<1>4. CASE Trage(g, IF b THEN k ELSE Keiner, S)
  <2>1. /\ zeilen' \subseteq Geraet /\ gesehen' \subseteq zeilen'
        /\ alter' \in [Geraet -> Frist]
        /\ spkVon' \in [Geraet -> Schluessel \cup {Keiner}]
    BY <1>3, <1>4 DEF Trage, IInv, TypeOK, Frist
  <2>2. ZeileNurMitListe'
    BY <1>1, <1>3, <1>4, KeinerAssumption
    DEF Register, Trage, IInv, TypeOK, ZeileNurMitListe, Mitglieder
  <2> QED BY <1>1, <2>1, <2>2, NurTabellen
<1>5. CASE LoescheGeraete(S)
  BY <1>1, <1>3, <1>5, LoeschenHaelt, NurTabellen
<1> QED BY <1>2, <1>4, <1>5

LEMMA VergesseHaelt ==
  ASSUME IInv, Vergesse
  PROVE  IInv'
<1>1. LeitungenBleiben /\ UNCHANGED <<epoche, liste>>
  BY DEF Vergesse, LeitungenBleiben
<1>2. Vergessene \in SUBSET Geraet
  BY DEF Vergessene, IInv, TypeOK
<1> QED BY <1>1, <1>2, LoeschenHaelt, NurTabellen DEF Vergesse

LEMMA AlternHaelt ==
  ASSUME IInv, NEW g \in Geraet, Altern(g)
  PROVE  IInv'
<1>1. LeitungenBleiben /\ UNCHANGED <<epoche, liste>>
  BY DEF Altern, LeitungenBleiben
<1>2. /\ zeilen' \subseteq Geraet /\ gesehen' \subseteq zeilen'
      /\ alter' \in [Geraet -> Frist]
      /\ spkVon' \in [Geraet -> Schluessel \cup {Keiner}]
  BY DEF Altern, IInv, TypeOK, Frist
<1>3. ZeileNurMitListe'
  BY DEF Altern, IInv, ZeileNurMitListe, Mitglieder
<1> QED BY <1>1, <1>2, <1>3, NurTabellen

----------------------------------------------------------------------------
(* Steps of a connection that is not registered. *)

(* A connection the relay has not registered is in no entry. *)
LEMMA NichtEingetragen ==
  ASSUME IInv, NEW w \in Ws, ws[w].ph \notin Eingetragen
  PROVE  \A g \in Geraet : connections[g] # w
  BY KeinerAssumption DEF IInv, EintragLebt

(* What a step of one unregistered handler has to show. *)
Handler == [ph : Phase, g : Geraet \cup {Keiner}, schluessel : Schluessel \cup {Keiner},
            nachweis : BOOLEAN, zu : BOOLEAN]

LEMMA NurHandler ==
  ASSUME IInv, NEW w \in Ws, ws[w].ph \notin Eingetragen,
         ws' \in [Ws -> Handler], \A v \in Ws : v # w => ws'[v] = ws[v],
         ws'[w].ph \notin {"neu", "zu"} => ws'[w].g \in Geraet,
         epoche = 0 => ws'[w].schluessel = Keiner,
         UNCHANGED <<epoche, liste, connections, nachweisfaehig, auftrag>>,
         zeilen' \subseteq Geraet, gesehen' \subseteq zeilen',
         alter' \in [Geraet -> Frist],
         spkVon' \in [Geraet -> Schluessel \cup {Keiner}],
         ZeileNurMitListe'
  PROVE  IInv'
<1>1. \A h \in Geraet : connections[h] # w
  BY NichtEingetragen
<1>2. TypeOK' BY DEF IInv, TypeOK, Handler
<1>3. HandlerKenntGeraet' BY DEF IInv, HandlerKenntGeraet
<1>4. EintragLebt' /\ NachweisFolgtLeitung'
  BY <1>1 DEF IInv, TypeOK, EintragLebt, NachweisFolgtLeitung
<1>5. OhneListeKeinSchluessel' BY DEF IInv, OhneListeKeinSchluessel
<1>6. AbmeldungErreichtLeitung'
  BY <1>1 DEF IInv, TypeOK, AbmeldungErreichtLeitung, Abgemeldet, WirdGetrennt
<1> QED BY <1>2, <1>3, <1>4, <1>5, <1>6 DEF IInv

(* Tables that did not change are still well typed and inside the list. *)
LEMMA TabellenBleiben ==
  ASSUME IInv, UNCHANGED tabellen
  PROVE  /\ UNCHANGED <<epoche, liste>>
         /\ zeilen' \subseteq Geraet /\ gesehen' \subseteq zeilen'
         /\ alter' \in [Geraet -> Frist]
         /\ spkVon' \in [Geraet -> Schluessel \cup {Keiner}]
         /\ ZeileNurMitListe'
  BY DEF tabellen, IInv, TypeOK, ZeileNurMitListe, Mitglieder

LEMMA VorraumHaelt ==
  ASSUME IInv, NEW w \in Ws, NEW g \in Geraet, Vorraum(w, g)
  PROVE  IInv'
<1>1. ws[w].ph \notin Eingetragen
  BY DEF Vorraum, Eingetragen
<1>2. PICK r \in Handler : /\ ws' = [ws EXCEPT ![w] = r]
                           /\ r.ph \notin {"neu", "zu"} => r.g \in Geraet
                           /\ r.schluessel \in {Keiner, liste[g]}
  <2>1. CASE Verlaesst(w)
    <3>1. OhneHandler("zu") \in Handler BY DEF OhneHandler, Handler, Phase
    <3>2. ws' = [ws EXCEPT ![w] = OhneHandler("zu")] BY <2>1 DEF Verlaesst
    <3> QED BY <3>1, <3>2 DEF OhneHandler
  <2>2. CASE ~Verlaesst(w)
    <3> DEFINE r == [ph |-> "vorraum", g |-> g, schluessel |-> liste[g],
                     nachweis |-> FALSE, zu |-> FALSE]
    <3>1. ws' = [ws EXCEPT ![w] = r] BY <2>2 DEF Vorraum
    <3>2. r \in Handler BY DEF Handler, Phase, IInv, TypeOK
    <3> QED BY <3>1, <3>2
  <2> QED BY <2>1, <2>2
<1>3. /\ ws' \in [Ws -> Handler] /\ \A v \in Ws : v # w => ws'[v] = ws[v]
      /\ ws'[w].ph \notin {"neu", "zu"} => ws'[w].g \in Geraet
      /\ epoche = 0 => ws'[w].schluessel = Keiner
  BY <1>2 DEF IInv, TypeOK, OhneListeKeinSchluessel, Handler
<1> QED BY <1>1, <1>3, NurHandler, TabellenBleiben DEF Vorraum

LEMMA AbrissHaelt ==
  ASSUME IInv, NEW w \in Ws, Abriss(w)
  PROVE  IInv'
<1>1. ws[w].ph \notin Eingetragen
  BY DEF Abriss, Eingetragen
<1>2. /\ ws' \in [Ws -> Handler] /\ \A v \in Ws : v # w => ws'[v] = ws[v]
      /\ ws'[w].ph \notin {"neu", "zu"} => ws'[w].g \in Geraet
      /\ epoche = 0 => ws'[w].schluessel = Keiner
  BY DEF Abriss, IInv, TypeOK, Verlaesst, OhneHandler, Handler, Phase
<1> QED BY <1>1, <1>2, NurHandler, TabellenBleiben DEF Abriss

LEMMA AnmeldenHaelt ==
  ASSUME IInv, NEW w \in Ws, NEW n \in BOOLEAN, Anmelden(w, n)
  PROVE  IInv'
<1>1. ws[w].ph \notin Eingetragen
  BY DEF Anmelden, Eingetragen
<1>2. /\ ws' \in [Ws -> Handler] /\ \A v \in Ws : v # w => ws'[v] = ws[v]
      /\ ws'[w].ph \notin {"neu", "zu"} => ws'[w].g \in Geraet
      /\ epoche = 0 => ws'[w].schluessel = Keiner
  <2>1. ws \in [Ws -> Handler]
    BY DEF IInv, TypeOK, Handler
  <2>2. ws' \in [Ws -> Handler]
    <3>1. "begruesst" \in Phase
      BY DEF Phase
    <3> QED BY <2>1, <3>1 DEF Anmelden, Handler
  <2>3. \A v \in Ws : v # w => ws'[v] = ws[v]
    BY <2>1 DEF Anmelden, Handler
  <2>4. ws'[w].g = ws[w].g
    BY <2>1 DEF Anmelden, Handler
  <2>5. ws'[w].schluessel = ws[w].schluessel
    BY <2>1 DEF Anmelden, Handler
  <2>6. ws[w].g \in Geraet
    BY DEF Anmelden, IInv, HandlerKenntGeraet
  <2>7. epoche = 0 => ws[w].schluessel = Keiner
    BY DEF IInv, OhneListeKeinSchluessel
  <2> QED BY <2>2, <2>3, <2>4, <2>5, <2>6, <2>7
<1>3. ws[w].g \in Geraet
  BY DEF Anmelden, IInv, HandlerKenntGeraet
<1>4. /\ zeilen' \subseteq Geraet /\ gesehen' \subseteq zeilen'
      /\ alter' \in [Geraet -> Frist]
      /\ spkVon' \in [Geraet -> Schluessel \cup {Keiner}]
  BY <1>3 DEF Anmelden, IInv, TypeOK, Frist
<1>5. ZeileNurMitListe'
  BY DEF Anmelden, IInv, ZeileNurMitListe, Mitglieder
<1> QED BY <1>1, <1>2, <1>4, <1>5, NurHandler DEF Anmelden
----------------------------------------------------------------------------
(* Steps around registration. *)

(* Closing a line, or moving a handler on, leaves the rest of every handler alone. *)
LEMMA VerdraengeHaelt ==
  ASSUME IInv, NEW w \in Ws, Verdraenge(w)
  PROVE  IInv'
<1> DEFINE o == AlteLeitung(w)
<1>1. /\ ws[w].ph = "begruesst" /\ ws[w].g \in Geraet
      /\ o \in Ws /\ ws[o].ph \in Eingetragen /\ o # w
      /\ UNCHANGED <<tabellen, connections, nachweisfaehig, auftrag>>
  BY DEF Verdraenge, MussVerdraengen, AlteLeitung, IInv, TypeOK, HandlerKenntGeraet,
         EintragLebt, Eingetragen
<1>2. \A h \in Geraet : connections[h] # w
  BY <1>1, NichtEingetragen DEF Eingetragen
<1>3. ws \in [Ws -> Handler]
  BY DEF IInv, TypeOK, Handler
<1>4. [ws[w] EXCEPT !.ph = "verdraengt"] \in Handler
  BY <1>3 DEF Handler, Phase
<1>5. [ws[o] EXCEPT !.zu = TRUE] \in Handler
  BY <1>1, <1>3 DEF Handler
<1>6. ws' = [ws EXCEPT ![w] = [ws[w] EXCEPT !.ph = "verdraengt"],
                       ![o] = [ws[o] EXCEPT !.zu = TRUE]]
  BY <1>1, <1>3 DEF Verdraenge
<1>7. ws' \in [Ws -> Handler]
  BY <1>1, <1>3, <1>4, <1>5, <1>6
<1>8. \A v \in Ws : ws'[v].g = ws[v].g
  BY <1>1, <1>3, <1>6 DEF Handler
<1>9. \A v \in Ws : ws'[v].schluessel = ws[v].schluessel
  BY <1>1, <1>3, <1>6 DEF Handler
<1>10. \A v \in Ws : ws'[v].nachweis = ws[v].nachweis
  BY <1>1, <1>3, <1>6 DEF Handler
<1>11. \A v \in Ws \ {w} : ws'[v].ph = ws[v].ph
  BY <1>1, <1>3, <1>6 DEF Handler
<1>12. \A v \in Ws : ~ws'[v].zu => ~ws[v].zu
  BY <1>1, <1>3, <1>6 DEF Handler
<1>13. TypeOK' BY <1>1, <1>7, TabellenBleiben DEF IInv, TypeOK, Handler, tabellen
<1>14. HandlerKenntGeraet' BY <1>1, <1>8, <1>11 DEF IInv, HandlerKenntGeraet
<1>15. EintragLebt'
  BY <1>1, <1>2, <1>8, <1>11 DEF IInv, TypeOK, EintragLebt
<1>16. NachweisFolgtLeitung'
  BY <1>1, <1>10 DEF IInv, TypeOK, NachweisFolgtLeitung
<1>17. OhneListeKeinSchluessel'
  BY <1>1, <1>9 DEF IInv, OhneListeKeinSchluessel, tabellen
<1>18. AbmeldungErreichtLeitung'
  BY <1>1, <1>2, <1>8, <1>9, <1>11, <1>12
  DEF IInv, TypeOK, AbmeldungErreichtLeitung, Abgemeldet, WirdGetrennt, tabellen
<1>19. ZeileNurMitListe' BY <1>1, TabellenBleiben
<1> QED BY <1>13, <1>14, <1>15, <1>16, <1>17, <1>18, <1>19 DEF IInv

LEMMA EintragenHaelt ==
  ASSUME IInv, NEW w \in Ws, Eintragen(w)
  PROVE  IInv'
<1> DEFINE g == ws[w].g
           p == IF ListeGeaendert(w) THEN "abweisung" ELSE "offen"
<1>1. /\ ws[w].ph \in {"begruesst", "verdraengt"} /\ g \in Geraet
      /\ UNCHANGED <<tabellen, auftrag>>
  BY DEF Eintragen, TrageEin, IInv, HandlerKenntGeraet
<1>2. \A h \in Geraet : connections[h] # w
  BY <1>1, NichtEingetragen DEF Eingetragen
<1>3. ws \in [Ws -> Handler]
  BY DEF IInv, TypeOK, Handler
<1>4. p \in Eingetragen /\ [ws[w] EXCEPT !.ph = p] \in Handler
  BY <1>3 DEF Handler, Phase, Eingetragen
<1>5. ws' = [ws EXCEPT ![w] = [ws[w] EXCEPT !.ph = p]]
  BY <1>3 DEF Eintragen, TrageEin
<1>6. ws' \in [Ws -> Handler]
  BY <1>3, <1>4, <1>5
<1>7. \A v \in Ws : ws'[v].g = ws[v].g
  BY <1>3, <1>5 DEF Handler
<1>8. \A v \in Ws : ws'[v].schluessel = ws[v].schluessel
  BY <1>3, <1>5 DEF Handler
<1>9. \A v \in Ws : ws'[v].nachweis = ws[v].nachweis
  BY <1>3, <1>5 DEF Handler
<1>10. ws'[w].ph = p /\ \A v \in Ws \ {w} : ws'[v].ph = ws[v].ph
  BY <1>3, <1>5 DEF Handler
<1>11. \A v \in Ws : ~ws'[v].zu => ~ws[v].zu
  BY <1>3, <1>5 DEF Handler
<1>12. connections' = [connections EXCEPT ![g] = w]
  BY DEF Eintragen, TrageEin
<1>13. nachweisfaehig' = [nachweisfaehig EXCEPT ![g] = ws[w].nachweis]
  BY DEF Eintragen, TrageEin
<1>14. ws[w].nachweis \in BOOLEAN
  BY <1>3 DEF Handler
<1>15. TypeOK'
  BY <1>1, <1>6, <1>12, <1>13, <1>14, TabellenBleiben DEF IInv, TypeOK, Handler, tabellen
<1>16. HandlerKenntGeraet'
  BY <1>1, <1>7, <1>10 DEF IInv, HandlerKenntGeraet
<1>17. EintragLebt'
  BY <1>1, <1>2, <1>4, <1>7, <1>10, <1>12 DEF IInv, TypeOK, EintragLebt
<1>18. NachweisFolgtLeitung'
  BY <1>1, <1>9, <1>12, <1>13, KeinerAssumption DEF IInv, TypeOK, NachweisFolgtLeitung
<1>19. OhneListeKeinSchluessel'
  BY <1>1, <1>8 DEF IInv, OhneListeKeinSchluessel, tabellen
<1>20. ~ListeGeaendert(w) => ~Abgemeldet(w)'
  BY <1>1, <1>3, <1>7, <1>8
  DEF ListeGeaendert, Abgemeldet, IInv, TypeOK, OhneListeKeinSchluessel, tabellen
<1>21. AbmeldungErreichtLeitung'
  BY <1>1, <1>2, <1>7, <1>8, <1>10, <1>11, <1>12, <1>20
  DEF IInv, TypeOK, AbmeldungErreichtLeitung, Abgemeldet, WirdGetrennt, tabellen
<1>22. ZeileNurMitListe' BY <1>1, TabellenBleiben
<1> QED BY <1>15, <1>16, <1>17, <1>18, <1>19, <1>21, <1>22 DEF IInv

LEMMA EndeHaelt ==
  ASSUME IInv, NEW w \in Ws, Ende(w)
  PROVE  IInv'
<1> DEFINE g == ws[w].g
           eigen == connections[g] = w
<1>1. /\ ws[w].ph \in Eingetragen /\ g \in Geraet
      /\ UNCHANGED <<tabellen, auftrag>>
  BY DEF Ende, IInv, HandlerKenntGeraet, Eingetragen
<1>2. /\ connections' = [connections EXCEPT ![g] = IF eigen THEN Keiner ELSE @]
      /\ nachweisfaehig' = [nachweisfaehig EXCEPT ![g] = IF eigen THEN Keiner ELSE @]
  BY DEF Ende
<1>3. ws' = [ws EXCEPT ![w] = OhneHandler("zu")] /\ ws \in [Ws -> Handler]
  BY DEF Ende, Verlaesst, IInv, TypeOK, Handler
<1>4. \A v \in Ws \ {w} : ws'[v] = ws[v]
  BY <1>3
<1>5. OhneHandler("zu") \in Handler
  BY DEF OhneHandler, Handler, Phase
<1>6. \A h \in Geraet : connections'[h] # w /\ connections'[h] \in {connections[h], Keiner}
  BY <1>1, <1>2, KeinerAssumption DEF IInv, TypeOK, EintragLebt
<1>7. TypeOK' BY <1>1, <1>2, <1>5, <1>3, TabellenBleiben DEF IInv, TypeOK, Handler, tabellen
<1>8. HandlerKenntGeraet'
  BY <1>3 DEF IInv, HandlerKenntGeraet, OhneHandler
<1>9. EintragLebt'
  BY <1>6, <1>4 DEF IInv, TypeOK, EintragLebt
<1>10. NachweisFolgtLeitung'
  BY <1>1, <1>2, <1>6, <1>4 DEF IInv, TypeOK, EintragLebt, NachweisFolgtLeitung
<1>11. OhneListeKeinSchluessel'
  BY <1>1, <1>3 DEF IInv, OhneListeKeinSchluessel, OhneHandler, tabellen
<1>12. AbmeldungErreichtLeitung'
  <2>1. \A h \in Geraet : connections'[h] # Keiner =>
           /\ connections'[h] = connections[h] /\ connections[h] \in Ws
           /\ ws'[connections[h]] = ws[connections[h]]
    BY <1>4, <1>6 DEF IInv, TypeOK
  <2>2. liste' = liste /\ auftrag' = auftrag
    BY <1>1 DEF tabellen
  <2> QED BY <2>1, <2>2 DEF IInv, AbmeldungErreichtLeitung, Abgemeldet, WirdGetrennt
<1>13. ZeileNurMitListe' BY <1>1, TabellenBleiben
<1> QED BY <1>7, <1>8, <1>9, <1>10, <1>11, <1>12, <1>13 DEF IInv
---------------------------------------------------------
----------------------------------------------------------------------------
(* List changes, the lines they cut, and the restart. *)

LEMMA SetzeListeHaelt ==
  ASSUME IInv, NEW a \in Auftrag, NEW neu \in Liste, NEW u \in Geraet, SetzeListe(a, neu, u)
  PROVE  IInv'
<1>1. /\ UNCHANGED <<connections, nachweisfaehig, ws>>
      /\ epoche' = epoche + 1 /\ epoche < EPOCHE_MAX /\ liste' = neu
      /\ LoescheGeraete(Weg(neu)) /\ Untaetig(a)
      /\ auftrag' = [auftrag EXCEPT ![a].rest = Weg(neu)]
  BY DEF SetzeListe
<1>2. neu \in [Geraet -> Schluessel \cup {Keiner}]
  BY DEF Liste
<1>3. Weg(neu) \in SUBSET Geraet
  BY DEF Weg, Mitglieder, IInv, TypeOK
<1>4. epoche \in Nat /\ epoche' \in 0 .. EPOCHE_MAX /\ epoche' # 0
  BY <1>1, MaxAssumption DEF IInv, TypeOK
<1>5. auftrag \in [Auftrag -> [rest : SUBSET Geraet, bei : Ws \cup {Keiner}]]
  BY DEF IInv, TypeOK
<1>6. auftrag' \in [Auftrag -> [rest : SUBSET Geraet, bei : Ws \cup {Keiner}]]
  BY <1>1, <1>3, <1>5
<1>7. TypeOK'
  BY <1>1, <1>2, <1>3, <1>4, <1>6 DEF IInv, TypeOK, LoescheGeraete, Frist
<1>8. HandlerKenntGeraet' /\ EintragLebt' /\ NachweisFolgtLeitung'
  BY <1>1 DEF IInv, HandlerKenntGeraet, EintragLebt, NachweisFolgtLeitung
<1>9. OhneListeKeinSchluessel'
  BY <1>4 DEF OhneListeKeinSchluessel
<1>10. auftrag'[a].rest = Weg(neu) /\ \A b \in Auftrag \ {a} : auftrag'[b] = auftrag[b]
  BY <1>1, <1>5
<1>11. AbmeldungErreichtLeitung'
  <2> SUFFICES ASSUME NEW g \in Geraet, connections[g] # Keiner,
                      ws[connections[g]].ph = "offen", ~ws[connections[g]].zu,
                      Abgemeldet(connections[g])'
               PROVE  WirdGetrennt(connections[g])'
    BY <1>1 DEF AbmeldungErreichtLeitung
  <2> DEFINE w == connections[g]
  <2>1. w \in Ws /\ ws[w].g = g
    BY DEF IInv, TypeOK, EintragLebt
  <2>2. ws[w].schluessel # Keiner /\ neu[g] # ws[w].schluessel
    BY <1>1, <2>1 DEF Abgemeldet
  <2>3. CASE liste[g] = ws[w].schluessel
    <3>1. g \in Weg(neu) BY <2>2, <2>3 DEF Weg, Mitglieder
    <3> QED BY <1>1, <1>10, <2>1, <3>1 DEF WirdGetrennt
  <2>4. CASE liste[g] # ws[w].schluessel
    <3>1. PICK b \in Auftrag : g \in auftrag[b].rest \/ auftrag[b].bei = w
      BY <2>1, <2>2, <2>4 DEF IInv, AbmeldungErreichtLeitung, Abgemeldet, WirdGetrennt
    <3>2. b # a BY <1>1, <2>1, <3>1, KeinerAssumption DEF Untaetig
    <3> QED BY <1>1, <1>10, <2>1, <3>1, <3>2 DEF WirdGetrennt
  <2> QED BY <2>3, <2>4
<1>12. ZeileNurMitListe'
  BY <1>1, <1>2 DEF IInv, TypeOK, ZeileNurMitListe, LoescheGeraete, Weg, Mitglieder
<1> QED BY <1>7, <1>8, <1>9, <1>11, <1>12 DEF IInv

LEMMA TrennBeginnHaelt ==
  ASSUME IInv, NEW a \in Auftrag, TrennBeginn(a)
  PROVE  IInv'
<1>1. auftrag \in [Auftrag -> [rest : SUBSET Geraet, bei : Ws \cup {Keiner}]]
  BY DEF IInv, TypeOK
<1>2. PICK g \in auftrag[a].rest :
        auftrag' = [auftrag EXCEPT ![a] = [rest |-> auftrag[a].rest \ {g}, bei |-> connections[g]]]
  BY <1>1 DEF TrennBeginn
<1>3. auftrag[a].bei = Keiner /\ UNCHANGED <<tabellen, connections, nachweisfaehig, ws>>
  BY DEF TrennBeginn
<1>4. g \in Geraet /\ connections[g] \in Ws \cup {Keiner}
  BY <1>1, <1>2 DEF IInv, TypeOK
<1>5. auftrag' \in [Auftrag -> [rest : SUBSET Geraet, bei : Ws \cup {Keiner}]]
  BY <1>1, <1>2, <1>4
<1>6. /\ auftrag'[a].rest = auftrag[a].rest \ {g} /\ auftrag'[a].bei = connections[g]
      /\ \A b \in Auftrag \ {a} : auftrag'[b] = auftrag[b]
  BY <1>1, <1>2
<1>7. TypeOK' BY <1>3, <1>5, TabellenBleiben DEF IInv, TypeOK, tabellen
<1>8. HandlerKenntGeraet' /\ EintragLebt' /\ NachweisFolgtLeitung'
  BY <1>3 DEF IInv, HandlerKenntGeraet, EintragLebt, NachweisFolgtLeitung
<1>9. OhneListeKeinSchluessel'
  BY <1>3 DEF IInv, OhneListeKeinSchluessel, tabellen
<1>10. AbmeldungErreichtLeitung'
  <2> SUFFICES ASSUME NEW h \in Geraet, connections[h] # Keiner,
                      ws[connections[h]].ph = "offen", ~ws[connections[h]].zu,
                      Abgemeldet(connections[h])
               PROVE  WirdGetrennt(connections[h])'
    BY <1>3 DEF AbmeldungErreichtLeitung, Abgemeldet, tabellen
  <2>1. PICK b \in Auftrag : ws[connections[h]].g \in auftrag[b].rest
                              \/ auftrag[b].bei = connections[h]
    BY DEF IInv, AbmeldungErreichtLeitung, WirdGetrennt
  <2>2. ws[connections[h]].g = h
    BY DEF IInv, EintragLebt
  <2>3. h \in auftrag'[b].rest \/ auftrag'[b].bei = connections[h]
    BY <1>3, <1>6, <2>1, <2>2
  <2> QED BY <1>3, <2>2, <2>3 DEF WirdGetrennt
<1>11. ZeileNurMitListe' BY <1>3, TabellenBleiben
<1> QED BY <1>7, <1>8, <1>9, <1>10, <1>11 DEF IInv

LEMMA TrennSchlussHaelt ==
  ASSUME IInv, NEW a \in Auftrag, TrennSchluss(a)
  PROVE  IInv'
<1> DEFINE w == auftrag[a].bei
           z == ws[w].ph # "zu"
<1>1. auftrag \in [Auftrag -> [rest : SUBSET Geraet, bei : Ws \cup {Keiner}]]
      /\ ws \in [Ws -> Handler]
  BY DEF IInv, TypeOK, Handler
<1>2. w \in Ws /\ UNCHANGED <<tabellen, connections, nachweisfaehig>>
  BY <1>1 DEF TrennSchluss
<1>3. z \in BOOLEAN /\ [ws[w] EXCEPT !.zu = z] \in Handler
  BY <1>1, <1>2 DEF Handler
<1>4. ws' = [ws EXCEPT ![w] = [ws[w] EXCEPT !.zu = z]]
  BY <1>1, <1>2 DEF TrennSchluss
<1>5. auftrag' = [auftrag EXCEPT ![a] = [auftrag[a] EXCEPT !.bei = Keiner]]
  BY <1>1 DEF TrennSchluss
<1>6. auftrag' \in [Auftrag -> [rest : SUBSET Geraet, bei : Ws \cup {Keiner}]]
      /\ ws' \in [Ws -> Handler]
  BY <1>1, <1>2, <1>3, <1>4, <1>5
<1>7. \A v \in Ws : ws'[v].g = ws[v].g
  BY <1>1, <1>4 DEF Handler
<1>8. \A v \in Ws : ws'[v].schluessel = ws[v].schluessel
  BY <1>1, <1>4 DEF Handler
<1>9. \A v \in Ws : ws'[v].nachweis = ws[v].nachweis
  BY <1>1, <1>4 DEF Handler
<1>10. \A v \in Ws : ws'[v].ph = ws[v].ph
  BY <1>1, <1>4 DEF Handler
<1>11. \A v \in Ws \ {w} : ws'[v].zu = ws[v].zu
  BY <1>1, <1>4 DEF Handler
<1>12. ws'[w].ph = "offen" => ws'[w].zu
  BY <1>1, <1>2, <1>4, <1>10 DEF Handler
<1>13. \A b \in Auftrag : /\ auftrag'[b].rest = auftrag[b].rest
                          /\ b # a => auftrag'[b].bei = auftrag[b].bei
  BY <1>1, <1>5
<1>14. TypeOK' BY <1>2, <1>6, TabellenBleiben DEF IInv, TypeOK, Handler, tabellen
<1>15. HandlerKenntGeraet' BY <1>7, <1>10 DEF IInv, HandlerKenntGeraet
<1>16. EintragLebt' BY <1>2, <1>7, <1>10 DEF IInv, TypeOK, EintragLebt
<1>17. NachweisFolgtLeitung' BY <1>2, <1>9 DEF IInv, TypeOK, NachweisFolgtLeitung
<1>18. OhneListeKeinSchluessel' BY <1>2, <1>8 DEF IInv, OhneListeKeinSchluessel, tabellen
<1>19. AbmeldungErreichtLeitung'
  <2> SUFFICES ASSUME NEW h \in Geraet, NEW v \in Ws, v = connections[h],
                      ws'[v].ph = "offen", ~ws'[v].zu, Abgemeldet(v)
               PROVE  WirdGetrennt(v)'
    BY <1>2, <1>7, <1>8, KeinerAssumption
    DEF AbmeldungErreichtLeitung, Abgemeldet, tabellen, IInv, TypeOK
  <2>1. v # w BY <1>12
  <2>2. PICK b \in Auftrag : ws[v].g \in auftrag[b].rest \/ auftrag[b].bei = v
    BY <1>10, <1>11, <2>1, KeinerAssumption DEF IInv, AbmeldungErreichtLeitung, WirdGetrennt
  <2> QED BY <1>7, <1>13, <2>1, <2>2 DEF WirdGetrennt
<1>20. ZeileNurMitListe' BY <1>2, TabellenBleiben
<1> QED BY <1>14, <1>15, <1>16, <1>17, <1>18, <1>19, <1>20 DEF IInv

LEMMA NeustartHaelt ==
  ASSUME IInv, Neustart
  PROVE  IInv'
<1>1. Vergessene \in SUBSET Geraet /\ LoescheGeraete(Vergessene) /\ UNCHANGED <<epoche, liste>>
  BY DEF Neustart, Vergessene, IInv, TypeOK
<1>2. /\ connections' = [g \in Geraet |-> Keiner]
      /\ nachweisfaehig' = [g \in Geraet |-> Keiner]
      /\ auftrag' = [a \in Auftrag |-> [rest |-> {}, bei |-> Keiner]]
      /\ ws' = [w \in Ws |-> IF ws[w].ph = "neu" THEN ws[w] ELSE OhneHandler("zu")]
  BY DEF Neustart
<1>3. OhneHandler("zu") \in Handler
  BY DEF OhneHandler, Handler, Phase
<1>4. ws' \in [Ws -> Handler]
  BY <1>2, <1>3 DEF IInv, TypeOK, Handler
<1>5. TypeOK'
  BY <1>1, <1>2, <1>4, LoeschenHaelt DEF IInv, TypeOK, Handler
<1>6. HandlerKenntGeraet'
  BY <1>2 DEF HandlerKenntGeraet, OhneHandler
<1>7. EintragLebt' /\ NachweisFolgtLeitung' /\ AbmeldungErreichtLeitung'
  BY <1>2 DEF EintragLebt, NachweisFolgtLeitung, AbmeldungErreichtLeitung
<1>8. OhneListeKeinSchluessel'
  BY <1>1, <1>2 DEF IInv, OhneListeKeinSchluessel, OhneHandler
<1>9. ZeileNurMitListe' BY <1>1, LoeschenHaelt
<1> QED BY <1>5, <1>6, <1>7, <1>8, <1>9 DEF IInv

----------------------------------------------------------------------------
(* Every step keeps the invariant: one case per action. *)
LEMMA SchrittHaelt == IInv /\ [Next]_vars => IInv'
<1> SUFFICES ASSUME IInv, [Next]_vars PROVE IInv'
  OBVIOUS
<1>1. CASE UNCHANGED vars
  BY <1>1, TabellenBleiben, NurTabellen DEF vars, LeitungenBleiben
<1>2. CASE \E g \in Geraet, k \in Schluessel, b \in BOOLEAN : Register(g, k, b)
  BY <1>2, RegisterHaelt
<1>3. CASE Vergesse \/ \E g \in Geraet : Altern(g)
  BY <1>3, VergesseHaelt, AlternHaelt
<1>4. CASE \E w \in Ws : \E g \in Kommt[w] : Vorraum(w, g)
  BY <1>4, VorraumHaelt, EingabenAssumption
<1>5. CASE \E w \in Ws : \E n \in Ansage[w] : Anmelden(w, n)
  BY <1>5, AnmeldenHaelt, EingabenAssumption
<1>6. CASE \E w \in Ws : Abriss(w) \/ Verdraenge(w) \/ Eintragen(w) \/ Ende(w)
  BY <1>6, AbrissHaelt, VerdraengeHaelt, EintragenHaelt, EndeHaelt
<1>7. CASE \E a \in Auftrag, neu \in Liste, u \in Geraet : SetzeListe(a, neu, u)
  BY <1>7, SetzeListeHaelt
<1>8. CASE \E a \in Auftrag : TrennBeginn(a) \/ TrennSchluss(a)
  BY <1>8, TrennBeginnHaelt, TrennSchlussHaelt
<1>9. CASE Neustart
  BY <1>9, NeustartHaelt
<1> QED BY <1>1, <1>2, <1>3, <1>4, <1>5, <1>6, <1>7, <1>8, <1>9 DEF Next

(* The inductive invariant holds in every state. *)
THEOREM Invariante == Spec => []IInv
<1> QED BY InitIInv, SchrittHaelt, PTL DEF Spec

(* The state always has its type. *)
THEOREM TypOK == Spec => []TypeOK
<1>1. IInv => TypeOK BY DEF IInv
<1> QED BY <1>1, Invariante, PTL

(* No sender is ever pointed at a dead socket, and the receipt flag beside *)
(* a line is that line's own.                                              *)
THEOREM LeitungenStimmen == Spec => []LeitungStimmt
<1>1. IInv => LeitungStimmt BY DEF IInv, LeitungStimmt
<1> QED BY <1>1, Invariante, PTL

(* A registered line that showed a key which has left the list is going to *)
(* be cut, however login, replacement and list changes interleave.         *)
THEOREM AbmeldungErreicht == Spec => []AbmeldungErreichtLeitung
<1>1. IInv => AbmeldungErreichtLeitung BY DEF IInv
<1> QED BY <1>1, Invariante, PTL

(* No registration brings the row of a signed-out device back. *)
THEOREM ZeilenInDerListe == Spec => []ZeileNurMitListe
<1>1. IInv => ZeileNurMitListe BY DEF IInv
<1> QED BY <1>1, Invariante, PTL

----------------------------------------------------------------------------
(* The roof over the devices of an address. *)

Dach == TypeOK /\ HoechstensGeraeteMax

LEMMA WenigerZeilen ==
  ASSUME Dach, NEW S, zeilen' = zeilen \ S
  PROVE  HoechstensGeraeteMax'
<1>1. IsFiniteSet(zeilen)
  BY GeraetAssumption, FS_Subset DEF Dach, TypeOK
<1>2. /\ Cardinality(zeilen) \in Nat /\ Cardinality(zeilen') \in Nat
      /\ Cardinality(zeilen') <= Cardinality(zeilen)
  BY <1>1, FS_Subset, FS_CardinalityType
<1> QED BY <1>2, MaxAssumption DEF Dach, HoechstensGeraeteMax

LEMMA RegisterDach ==
  ASSUME Dach, NEW g \in Geraet, NEW k \in Schluessel, NEW b \in BOOLEAN, Register(g, k, b)
  PROVE  HoechstensGeraeteMax'
<1>1. IsFiniteSet(zeilen) /\ Cardinality(zeilen) \in Nat
  BY GeraetAssumption, FS_Subset, FS_CardinalityType DEF Dach, TypeOK
<1>2. PICK S \in Raeumbar(g) :
        \/ Trage(g, IF b THEN k ELSE Keiner, S)
        \/ LoescheGeraete(S) /\ S # {}
  BY DEF Register
<1>3. CASE LoescheGeraete(S)
  BY <1>3, WenigerZeilen DEF LoescheGeraete
<1>4. CASE zeilen' = (zeilen \ S) \cup {g}
  <2>1. CASE g \in zeilen
    BY <1>4, <2>1 DEF Raeumbar, Dach, HoechstensGeraeteMax
  <2>2. CASE g \notin zeilen /\ Cardinality(zeilen) < GERAETE_MAX
    <3>1. zeilen' = zeilen \cup {g} BY <1>4, <2>2 DEF Raeumbar
    <3>2. Cardinality(zeilen') = Cardinality(zeilen) + 1 BY <1>1, <2>2, <3>1, FS_AddElement
    <3> QED BY <1>1, <2>2, <3>2, MaxAssumption DEF HoechstensGeraeteMax
  <2>3. CASE g \notin zeilen /\ ~(Cardinality(zeilen) < GERAETE_MAX)
    <3>1. PICK t \in zeilen : S = {t} BY <2>3 DEF Raeumbar, Totes
    <3>2. IsFiniteSet(zeilen \ {t}) /\ Cardinality(zeilen \ {t}) = Cardinality(zeilen) - 1
      BY <1>1, <3>1, FS_RemoveElement
    <3>3. zeilen' = (zeilen \ {t}) \cup {g} /\ g \notin zeilen \ {t} BY <1>4, <2>3, <3>1
    <3>4. Cardinality(zeilen') = Cardinality(zeilen \ {t}) + 1
      BY <3>2, <3>3, FS_AddElement
    <3>5. Cardinality(zeilen') = Cardinality(zeilen) BY <1>1, <3>2, <3>4
    <3> QED BY <3>5 DEF Dach, HoechstensGeraeteMax
  <2> QED BY <2>1, <2>2, <2>3
<1> QED BY <1>2, <1>3, <1>4 DEF Trage

(* An address never has more rows than GERAETE_MAX, evictions and rolled-  *)
(* back registrations included.                                            *)
THEOREM DachHaelt == Spec => []HoechstensGeraeteMax
<1>1. Init => HoechstensGeraeteMax
  BY FS_EmptySet, MaxAssumption DEF Init, HoechstensGeraeteMax
<1>2. TypeOK /\ HoechstensGeraeteMax /\ [Next]_vars => HoechstensGeraeteMax'
  <2> SUFFICES ASSUME Dach, [Next]_vars PROVE HoechstensGeraeteMax'
    BY DEF Dach
  <2>1. CASE UNCHANGED zeilen
    BY <2>1 DEF Dach, HoechstensGeraeteMax
  <2>2. CASE \E g \in Geraet, k \in Schluessel, b \in BOOLEAN : Register(g, k, b)
    BY <2>2, RegisterDach
  <2>3. CASE \E S : zeilen' = zeilen \ S
    BY <2>3, WenigerZeilen
  <2>4. CASE Vergesse \/ Neustart
    BY <2>3, <2>4 DEF Vergesse, Neustart, LoescheGeraete
  <2>5. CASE \E a \in Auftrag, neu \in Liste, u \in Geraet : SetzeListe(a, neu, u)
    BY <2>3, <2>5 DEF SetzeListe, LoescheGeraete
  <2>6. CASE \E g \in Geraet : Altern(g)
    BY <2>1, <2>6 DEF Altern
  <2>7. CASE \E w \in Ws : \/ \E g \in Kommt[w] : Vorraum(w, g)
                           \/ \E n \in Ansage[w] : Anmelden(w, n)
                           \/ Abriss(w) \/ Verdraenge(w) \/ Eintragen(w) \/ Ende(w)
    BY <2>1, <2>7
    DEF Vorraum, Anmelden, Abriss, Verdraenge, Eintragen, TrageEin, Ende, tabellen
  <2>8. CASE \E a \in Auftrag : TrennBeginn(a) \/ TrennSchluss(a)
    BY <2>1, <2>8 DEF TrennBeginn, TrennSchluss, tabellen
  <2>9. CASE UNCHANGED vars
    BY <2>1, <2>9 DEF vars, tabellen
  <2> QED BY <2>2, <2>4, <2>5, <2>6, <2>7, <2>8, <2>9 DEF Next
<1> QED BY <1>1, <1>2, TypOK, PTL DEF Spec
=============================================================================
