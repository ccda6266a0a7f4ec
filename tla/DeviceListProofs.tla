--------------------------- MODULE DeviceListProofs ---------------------------
(***************************************************************************)
(* Theorems about DeviceList, for any number of devices, ids, changes and  *)
(* lost or late messages: it implements DeviceListPromise, no two versions *)
(* of one epoch are ever about, the open requests are for ids outside the  *)
(* list, and no device erases its words without a reason.                  *)
(***************************************************************************)
EXTENDS DeviceList, FiniteSetTheorems, SequenceTheorems, TLAPS

----------------------------------------------------------------------------
(* The inductive invariant. *)

Typen ==
    /\ epoche \in 0 .. EPOCHE_MAX /\ liste \subseteq Eintrag
    /\ posts \subseteq Post
    /\ kennung \in [Geraet -> Kennung \cup {0}]
    /\ gemerkt \in [Geraet -> Fassung] /\ abruf \in [Geraet -> Fassung \cup {Niemand}]
    /\ auftrag \in [Geraet -> Auftrag \cup {Niemand}]
    /\ \A d \in Geraet : auftrag[d] # Niemand => kennung[d] \in Kennung

Eindeutig(L) == \A e, f \in L : (e.id = f.id \/ e.geraet = f.geraet) => e = f

ListeStimmt == (epoche = 0 <=> liste = {}) /\ Eindeutig(liste)

(* The versions the devices hold, are being sent, or were told to be       *)
(* accepted, with the stored one.                                          *)
Erfuhr(d) == auftrag[d] # Niemand /\ auftrag[d].ort = "ok"
Bekannt ==
    {Jetzt} \cup {gemerkt[d] : d \in Geraet}
            \cup {abruf[d] : d \in {c \in Geraet : abruf[c] # Niemand}}
            \cup {auftrag[d].neu : d \in {c \in Geraet : Erfuhr(c)}}

(* One version for each epoch, none newer than the stored one. *)
VersionenStimmen ==
    /\ \A f \in Bekannt : f.epoche <= epoche
    /\ \A f, g \in Bekannt : f.epoche = g.epoche => f = g

(* The next version N of list L, by op. *)
Naechste(op, L, N) ==
    /\ op.art = "anlegen" => L = {} /\ N = {op.von}
    /\ op.art # "anlegen" => L # {}
    /\ op.art = "zurueck" => N = {op.von}
    /\ op.art = "nur" => N = {e \in L : e.id = op.von.id}
    /\ op.art = "ab" => N = {e \in L : e.id # op.wen.id}
    /\ op.art = "zu" => N = L \cup {op.wen}

(* A POST under way that would fit was made from the stored version. *)
PostsStimmen ==
    \A p \in posts :
        /\ p.neu.epoche <= epoche + 1
        /\ p.neu.epoche = epoche + 1 => /\ p.neu.liste # {} /\ Eindeutig(p.neu.liste)
                                        /\ Naechste(p.op, liste, p.neu.liste)

IInv == Typen /\ ListeStimmt /\ VersionenStimmen /\ PostsStimmen

LEMMA InitIInv == Init => IInv
<1> SUFFICES ASSUME Init PROVE IInv OBVIOUS
<1>1. Leer \in Fassung BY ListenAssumption DEF Leer, Fassung
<1>2. Typen BY <1>1, ListenAssumption DEF Init, Typen
<1>3. ListeStimmt /\ PostsStimmen BY DEF Init, ListeStimmt, Eindeutig, PostsStimmen
<1>4. Bekannt = {Leer} BY DEF Init, Bekannt, Jetzt, Leer, Erfuhr
<1>5. VersionenStimmen BY <1>4 DEF VersionenStimmen, Leer, Init
<1> QED BY <1>2, <1>3, <1>5 DEF IInv

----------------------------------------------------------------------------
(* A version taken by a device is the newer of two that are known. *)

LEMMA BekanntSind ==
  ASSUME NEW d \in Geraet
  PROVE  /\ Jetzt \in Bekannt /\ gemerkt[d] \in Bekannt
         /\ abruf[d] # Niemand => abruf[d] \in Bekannt
         /\ Erfuhr(d) => auftrag[d].neu \in Bekannt
BY DEF Bekannt

LEMMA JetztTyp == Typen => Jetzt \in Fassung
BY DEF Typen, Jetzt, Fassung

(* What a device reads from the relay is the stored version, whatever it   *)
(* held before.                                                            *)
LEMMA LiestGespeicherte ==
  ASSUME IInv, NEW d \in Geraet
  PROVE  Neuere(d, Jetzt) = Jetzt
<1>1. gemerkt[d] \in Bekannt /\ Jetzt \in Bekannt BY BekanntSind
<1>2. Jetzt.epoche = epoche BY DEF Jetzt
<1>3. gemerkt[d].epoche <= epoche BY <1>1 DEF IInv, VersionenStimmen
<1>4. gemerkt[d].epoche \in Int /\ epoche \in Int BY DEF IInv, Typen, Fassung
<1>5. gemerkt[d].epoche = epoche => gemerkt[d] = Jetzt
  BY <1>1, <1>2 DEF IInv, VersionenStimmen
<1> QED BY <1>2, <1>3, <1>4, <1>5 DEF Neuere

(* Steps that leave the relay's list and its POSTs alone, and show no      *)
(* device a version it could not know.                                     *)
LEMMA NurBekanntes ==
  ASSUME IInv, Typen', UNCHANGED <<epoche, liste>>, posts' \subseteq posts, Bekannt' \subseteq Bekannt
  PROVE  IInv'
<1>1. ListeStimmt' BY DEF IInv, ListeStimmt
<1>2. VersionenStimmen' BY DEF IInv, VersionenStimmen
<1>3. PostsStimmen' BY DEF IInv, PostsStimmen
<1> QED BY <1>1, <1>2, <1>3 DEF IInv

(* The set of known versions after a step that gives device d version f.   *)
LEMMA ImmerNochBekannt ==
  ASSUME UNCHANGED <<epoche, liste>>,
         \A d \in Geraet : gemerkt'[d] \in Bekannt,
         \A d \in Geraet : abruf'[d] # Niemand => abruf'[d] \in Bekannt,
         \A d \in Geraet : Erfuhr(d)' => auftrag'[d].neu \in Bekannt
  PROVE  Bekannt' \subseteq Bekannt
<1>1. Jetzt' = Jetzt BY DEF Jetzt
<1> QED BY <1>1 DEF Bekannt

----------------------------------------------------------------------------
(* The steps. *)

LEMMA ErmitteltHaelt ==
  ASSUME IInv, NEW d \in Geraet, ErmitteltKennung(d)
  PROVE  IInv'
<1>1. UNCHANGED <<relay, gemerkt, abruf, auftrag>> BY DEF ErmitteltKennung
<1>2. PICK k \in Kennung : kennung' = [kennung EXCEPT ![d] = k]
  BY ListenAssumption DEF ErmitteltKennung
<1>3. Typen' BY <1>1, <1>2 DEF IInv, Typen, relay
<1>4. Bekannt' \subseteq Bekannt BY <1>1 DEF Bekannt, Jetzt, Erfuhr, relay
<1> QED BY <1>1, <1>3, <1>4, NurBekanntes DEF relay

LEMMA HoltHaelt ==
  ASSUME IInv, NEW d \in Geraet, holeGeraeteliste(d)
  PROVE  IInv'
<1>1. /\ UNCHANGED <<relay, kennung, gemerkt, auftrag>>
      /\ abruf' = [abruf EXCEPT ![d] = Jetzt]
  BY DEF holeGeraeteliste
<1>2. Typen' BY <1>1, JetztTyp DEF IInv, Typen, relay
<1>3. \A c \in Geraet : abruf'[c] = abruf[c] \/ abruf'[c] = Jetzt BY <1>1 DEF IInv, Typen
<1>4. Bekannt' \subseteq Bekannt
  BY <1>1, <1>3, BekanntSind, ImmerNochBekannt DEF relay, Erfuhr
<1> QED BY <1>1, <1>2, <1>4, NurBekanntes DEF relay

LEMMA KommtHaelt ==
  ASSUME IInv, NEW d \in Geraet, NEW wobei, Kommt(d, wobei)
  PROVE  IInv'
<1>1. /\ abruf[d] # Niemand
      /\ UNCHANGED <<relay, kennung, auftrag>>
      /\ abruf' = [abruf EXCEPT ![d] = Niemand]
      /\ gemerkt' = [gemerkt EXCEPT ![d] = Neuere(d, abruf[d])]
  BY DEF Kommt
<1>2. Neuere(d, abruf[d]) \in {abruf[d], gemerkt[d]} BY DEF Neuere
<1>3. Typen' BY <1>1, <1>2 DEF IInv, Typen, relay
<1>4. \A c \in Geraet : /\ abruf'[c] # Niemand => abruf'[c] = abruf[c]
                        /\ gemerkt'[c] \in {gemerkt[c], abruf[d], gemerkt[d]}
  BY <1>1, <1>2 DEF IInv, Typen
<1>5. Bekannt' \subseteq Bekannt
  BY <1>1, <1>4, BekanntSind, ImmerNochBekannt DEF relay, Erfuhr
<1> QED BY <1>1, <1>3, <1>5, NurBekanntes DEF relay

LEMMA TrittBeiHaelt ==
  ASSUME IInv, NEW d \in Geraet, trittBei(d)
  PROVE  IInv'
<1>1. /\ abruf[d] # Niemand
      /\ UNCHANGED <<epoche, liste, posts, auftrag>>
      /\ abruf' = [abruf EXCEPT ![d] = Niemand]
      /\ gemerkt' = [gemerkt EXCEPT ![d] = Neuere(d, abruf[d])]
      /\ FreieKennung(d, Neuere(d, abruf[d]).liste)
  BY DEF trittBei
<1>2. Neuere(d, abruf[d]) \in {abruf[d], gemerkt[d]} BY DEF Neuere
<1>3. kennung' = kennung \/ \E k \in Kennung : kennung' = [kennung EXCEPT ![d] = k]
  BY <1>1 DEF FreieKennung
<1>4. /\ kennung' \in [Geraet -> Kennung \cup {0}]
      /\ \A c \in Geraet : kennung[c] \in Kennung => kennung'[c] \in Kennung
  BY <1>3 DEF IInv, Typen
<1>5. Typen' BY <1>1, <1>2, <1>4 DEF IInv, Typen
<1>6. \A c \in Geraet : /\ abruf'[c] # Niemand => abruf'[c] = abruf[c]
                        /\ gemerkt'[c] \in {gemerkt[c], abruf[d], gemerkt[d]}
  BY <1>1, <1>2 DEF IInv, Typen
<1>7. Bekannt' \subseteq Bekannt
  BY <1>1, <1>6, BekanntSind, ImmerNochBekannt DEF Erfuhr
<1> QED BY <1>1, <1>5, <1>7, NurBekanntes

LEMMA BeginntHaelt ==
  ASSUME IInv, NEW d \in Geraet, NEW art \in {"anlegen", "ab", "nur", "zu", "zurueck"},
         NEW wen \in Eintrag, Beginnt(d, art, wen)
  PROVE  IInv'
<1> DEFINE a == [art |-> art, wen |-> wen, ort |-> "holt", versuch |-> 0, neu |-> Leer]
<1>1. /\ UNCHANGED <<relay, kennung, gemerkt, abruf>> /\ kennung[d] # 0
      /\ auftrag' = [auftrag EXCEPT ![d] = a]
  BY DEF Beginnt
<1>2. a \in Auftrag BY ListenAssumption DEF Auftrag, Leer, Fassung
<1>3. Typen' BY <1>1, <1>2 DEF IInv, Typen, relay
<1>4. \A c \in Geraet : Erfuhr(c)' => auftrag'[c] = auftrag[c] /\ Erfuhr(c)
  BY <1>1 DEF IInv, Typen, Erfuhr
<1>5. Bekannt' \subseteq Bekannt
  BY <1>1, <1>4, BekanntSind, ImmerNochBekannt DEF relay
<1> QED BY <1>1, <1>3, <1>5, NurBekanntes DEF relay

(* The next version is made from the stored one. *)
LEMMA UnterschriftStimmt ==
  ASSUME IInv, NEW d \in Geraet, Unterschreibt(d), ~(Verwirft(d) /\ UNCHANGED posts)
  PROVE  \E p \in Post :
           /\ posts' = posts \cup {p}
           /\ auftrag' = [auftrag EXCEPT ![d].ort = "wartet", ![d].neu = p.neu]
           /\ p.neu.epoche = epoche + 1
           /\ p.neu.liste # {} /\ Eindeutig(p.neu.liste)
           /\ Naechste(p.op, liste, p.neu.liste)
<1> DEFINE a == auftrag[d]
           ich == [id |-> kennung'[d], geraet |-> d]
           neu == [epoche |-> epoche + 1, liste |-> Aendere(d, liste)]
           op == [art |-> a.art, von |-> ich, wen |-> IF a.art = "zurueck" THEN ich ELSE a.wen]
           p == [op |-> op, neu |-> neu]
<1>1. Neuere(d, Jetzt) = Jetzt /\ Jetzt.epoche = epoche /\ Jetzt.liste = liste
  BY LiestGespeicherte DEF Jetzt
<1>2. /\ a # Niemand /\ FormStimmt(d, liste, neu.liste) /\ epoche < EPOCHE_MAX
      /\ IF a.art = "anlegen" THEN epoche = 0 ELSE epoche > 0
      /\ IF a.art = "zurueck" THEN FreieKennung(d, liste) ELSE UNCHANGED kennung
      /\ posts' = posts \cup {p}
      /\ auftrag' = [auftrag EXCEPT ![d].ort = "wartet", ![d].neu = neu]
  BY <1>1 DEF Unterschreibt
<1>3. a \in Auftrag /\ kennung[d] \in Kennung /\ epoche \in 0 .. EPOCHE_MAX /\ liste \subseteq Eintrag
      /\ kennung \in [Geraet -> Kennung \cup {0}]
  BY <1>2 DEF IInv, Typen
<1>4. a.art \in {"anlegen", "ab", "nur", "zu", "zurueck"} /\ a.wen \in Eintrag BY <1>3 DEF Auftrag
<1>5. kennung'[d] \in Kennung
  <2>1. UNCHANGED kennung \/ \E k \in Kennung : kennung' = [kennung EXCEPT ![d] = k]
    BY <1>2 DEF FreieKennung
  <2> QED BY <1>3, <2>1
<1>6. ich \in Eintrag /\ ich.id = kennung'[d] BY <1>5 DEF Eintrag
<1>7. a.art # "zurueck" => kennung' = kennung BY <1>2
<1>8. /\ a.art = "ab" => neu.liste = {e \in liste : e.id # a.wen.id}
      /\ a.art = "nur" => neu.liste = {e \in liste : e.id = kennung[d]}
      /\ a.art = "zu" => neu.liste = liste \cup {a.wen}
      /\ a.art \in {"anlegen", "zurueck"} => neu.liste = {ich}
  BY DEF Aendere
<1> DEFINE N == neu.liste
<1> HIDE DEF ich
<1>9. N \subseteq Eintrag BY <1>3, <1>4, <1>6, <1>8
<1>10. N # {} /\ Eindeutig(N)
  <2>1. N # {} BY <1>2 DEF FormStimmt
  <2>2. Eindeutig(liste) BY DEF IInv, ListeStimmt
  <2>3. CASE a.art = "ab" \/ a.art = "nur"
    <3>1. N \subseteq liste
      <4> HIDE DEF neu
      <4> QED BY <1>8, <2>3
    <3> HIDE DEF N
    <3> QED BY <2>1, <2>2, <3>1 DEF Eindeutig
  <2>4. CASE a.art \in {"anlegen", "zurueck"} BY <1>8, <2>4 DEF Eindeutig
  <2>5. CASE a.art = "zu"
    <3>1. \A e \in liste : e.id # a.wen.id /\ e.geraet # a.wen.geraet BY <1>2, <2>5 DEF FormStimmt
    <3>2. N = liste \cup {a.wen} BY <1>8, <2>5
    <3> QED BY <2>2, <3>1, <3>2 DEF Eindeutig
  <2> QED BY <1>4, <2>1, <2>3, <2>4, <2>5
<1>11. liste = {} <=> epoche = 0 BY DEF IInv, ListeStimmt
<1>12. op.art = a.art /\ op.von = ich /\ (a.art # "zurueck" => op.wen = a.wen) OBVIOUS
<1>13. neu \in Fassung
  <2>1. epoche + 1 \in 0 .. EPOCHE_MAX BY <1>2, <1>3, ListenAssumption
  <2> QED BY <1>9, <2>1 DEF Fassung
<1>14. op \in Operation BY <1>4, <1>6 DEF Operation
<1> HIDE DEF op, neu
<1>15. Naechste(op, liste, N)
  BY <1>2, <1>3, <1>4, <1>6, <1>7, <1>8, <1>11, <1>12 DEF Naechste
<1>16. p \in Post /\ p.neu = neu /\ p.op = op BY <1>13, <1>14 DEF Post
<1>17. neu.epoche = epoche + 1 BY DEF neu
<1> QED BY <1>2, <1>10, <1>15, <1>16, <1>17

LEMMA UnterschreibtHaelt ==
  ASSUME IInv, NEW d \in Geraet, Unterschreibt(d)
  PROVE  IInv'
<1>1. Neuere(d, Jetzt) = Jetzt BY LiestGespeicherte
<1>2. /\ auftrag[d] # Niemand
      /\ gemerkt' = [gemerkt EXCEPT ![d] = Jetzt]
      /\ IF auftrag[d].art = "zurueck" THEN FreieKennung(d, Jetzt.liste) ELSE UNCHANGED kennung
      /\ UNCHANGED <<epoche, liste, abruf>>
  BY <1>1 DEF Unterschreibt
<1>3. UNCHANGED kennung \/ \E k \in Kennung : kennung' = [kennung EXCEPT ![d] = k]
  BY <1>2 DEF FreieKennung
<1>4. kennung' \in [Geraet -> Kennung \cup {0}]
      /\ \A c \in Geraet : auftrag[c] # Niemand => kennung'[c] \in Kennung
  BY <1>3 DEF IInv, Typen
<1>5. \A c \in Geraet : gemerkt'[c] \in {gemerkt[c], Jetzt} BY <1>2 DEF IInv, Typen
<1>6. gemerkt' \in [Geraet -> Fassung] BY <1>2, JetztTyp DEF IInv, Typen
<1>7. CASE Verwirft(d) /\ UNCHANGED posts
  <2>2. auftrag' \in [Geraet -> Auftrag \cup {Niemand}]
        /\ \A c \in Geraet : /\ auftrag'[c] # Niemand => auftrag[c] # Niemand
                             /\ Erfuhr(c)' => auftrag'[c] = auftrag[c] /\ Erfuhr(c)
    BY <1>7 DEF IInv, Typen, Verwirft, Erfuhr
  <2>3. Typen' BY <1>2, <1>4, <1>6, <1>7, <2>2 DEF IInv, Typen
  <2>4. Bekannt' \subseteq Bekannt
    BY <1>2, <1>5, <2>2, BekanntSind, ImmerNochBekannt
  <2> QED BY <1>2, <1>7, <2>3, <2>4, NurBekanntes
<1>8. CASE ~(Verwirft(d) /\ UNCHANGED posts)
  <2>1. PICK p \in Post :
           /\ posts' = posts \cup {p}
           /\ auftrag' = [auftrag EXCEPT ![d].ort = "wartet", ![d].neu = p.neu]
           /\ p.neu.epoche = epoche + 1
           /\ p.neu.liste # {} /\ Eindeutig(p.neu.liste)
           /\ Naechste(p.op, liste, p.neu.liste)
    BY <1>8, UnterschriftStimmt
  <2>2. p.neu \in Fassung BY DEF Post
  <2>3. auftrag' \in [Geraet -> Auftrag \cup {Niemand}]
        /\ \A c \in Geraet : /\ auftrag'[c] # Niemand => auftrag[c] # Niemand
                             /\ Erfuhr(c)' => auftrag'[c] = auftrag[c] /\ Erfuhr(c)
    BY ZenonT(30), <1>2, <2>1, <2>2 DEF IInv, Typen, Auftrag, Erfuhr
  <2>4. Typen' BY <1>2, <1>4, <1>6, <2>1, <2>3 DEF IInv, Typen
  <2>5. Bekannt' \subseteq Bekannt
    BY <1>2, <1>5, <2>3, BekanntSind, ImmerNochBekannt
  <2>6. ListeStimmt' BY <1>2 DEF IInv, ListeStimmt
  <2>7. VersionenStimmen' BY <1>2, <2>5 DEF IInv, VersionenStimmen
  <2>8. PostsStimmen'
    <3>1. \A q \in posts' : q \in posts \/ q = p BY <2>1
    <3>2. epoche \in Int BY DEF IInv, Typen
    <3> QED BY <1>2, <2>1, <3>1, <3>2 DEF IInv, PostsStimmen
  <2> QED BY <2>4, <2>6, <2>7, <2>8 DEF IInv
<1> QED BY <1>7, <1>8
----------------------------------------------------------------------------
(* A refused change makes no device know anything new. *)
LEMMA AbgelehntHaelt ==
  ASSUME Typen, NEW d \in Geraet, NEW was, auftrag[d] # Niemand, Abgelehnt(d, was)
  PROVE  /\ auftrag' \in [Geraet -> Auftrag \cup {Niemand}]
         /\ \A c \in Geraet : /\ auftrag'[c] # Niemand => auftrag[c] # Niemand
                              /\ Erfuhr(c)' => auftrag'[c] = auftrag[c] /\ Erfuhr(c)
BY DEF Typen, Abgelehnt, Verwirft, Auftrag, Erfuhr

(* Answers: of a new version, the sender comes to know that one at most.   *)
LEMMA AntwortHaelt ==
  ASSUME Typen, NEW p \in Post, NEW was, Antwort(p, was)
  PROVE  /\ auftrag' \in [Geraet -> Auftrag \cup {Niemand}]
         /\ \A c \in Geraet : /\ auftrag'[c] # Niemand => auftrag[c] # Niemand
                              /\ Erfuhr(c)' => \/ auftrag'[c] = auftrag[c] /\ Erfuhr(c)
                                               \/ was = "200" /\ auftrag'[c].neu = p.neu
<1> DEFINE d == p.op.von.geraet
<1>0. d \in Geraet BY DEF Post, Operation, Eintrag
<1>1. CASE UNCHANGED auftrag BY <1>1 DEF Typen, Erfuhr
<1>2. CASE auftrag[d] # Niemand /\ auftrag[d].neu = p.neu /\ was = "200"
           /\ auftrag' = [auftrag EXCEPT ![d].ort = "ok"]
  BY SMTT(30), <1>0, <1>2 DEF Typen, Erfuhr, Auftrag
<1>3. CASE auftrag[d] # Niemand /\ Abgelehnt(d, was)
  BY <1>0, <1>3, AbgelehntHaelt
<1> QED BY <1>1, <1>2, <1>3 DEF Antwort

LEMMA SetztHaelt ==
  ASSUME IInv, NEW p \in posts, setze_geraeteliste(p)
  PROVE  IInv'
<1>1. /\ p.neu.epoche <= EPOCHE_MAX
      /\ posts' = posts \ {p}
      /\ UNCHANGED <<kennung, gemerkt, abruf>>
  BY DEF setze_geraeteliste
<1>2. p \in Post /\ p.neu \in Fassung BY DEF IInv, Typen, Post
<1>3. CASE UNCHANGED <<epoche, liste>> /\ Antwort(p, IF Passt(p) THEN "403" ELSE "409")
  <2>1. /\ auftrag' \in [Geraet -> Auftrag \cup {Niemand}]
        /\ \A c \in Geraet : /\ auftrag'[c] # Niemand => auftrag[c] # Niemand
                             /\ Erfuhr(c)' => auftrag'[c] = auftrag[c] /\ Erfuhr(c)
    BY <1>2, <1>3, AntwortHaelt DEF IInv
  <2>2. Typen' BY <1>1, <1>3, <2>1 DEF IInv, Typen
  <2>3. Bekannt' \subseteq Bekannt BY <1>1, <1>3, <2>1, BekanntSind, ImmerNochBekannt
  <2> QED BY <1>1, <1>3, <2>2, <2>3, NurBekanntes
<1>4. CASE /\ Passt(p) /\ DarfSetzen(p)
           /\ epoche' = p.neu.epoche /\ liste' = p.neu.liste
           /\ Antwort(p, "200")
  <2>1. epoche' = epoche + 1 BY <1>4 DEF Passt
  <2>2. epoche \in Nat /\ epoche' \in 0 .. EPOCHE_MAX /\ liste' \subseteq Eintrag
    BY <1>2, <1>4, ListenAssumption DEF IInv, Typen, Fassung
  <2>3. Jetzt' = p.neu BY <1>2, <1>4 DEF Jetzt, Fassung
  <2>4. /\ auftrag' \in [Geraet -> Auftrag \cup {Niemand}]
        /\ \A c \in Geraet : /\ auftrag'[c] # Niemand => auftrag[c] # Niemand
                             /\ Erfuhr(c)' => \/ auftrag'[c].neu = p.neu
                                              \/ auftrag'[c] = auftrag[c] /\ Erfuhr(c)
    BY <1>2, <1>4, AntwortHaelt DEF IInv
  <2>5. Typen' BY <1>1, <2>2, <2>4 DEF IInv, Typen
  <2>6. Bekannt' \subseteq Bekannt \cup {p.neu}
    <3>1. \A c \in Geraet : gemerkt'[c] \in Bekannt BY <1>1, BekanntSind
    <3>2. \A c \in Geraet : abruf'[c] # Niemand => abruf'[c] \in Bekannt BY <1>1, BekanntSind
    <3>3. \A c \in Geraet : Erfuhr(c)' => auftrag'[c].neu \in Bekannt \cup {p.neu}
      BY <2>4, BekanntSind
    <3> QED BY <2>3, <3>1, <3>2, <3>3 DEF Bekannt
  <2>7. p.neu.liste # {} /\ Eindeutig(p.neu.liste) /\ p.neu.epoche = epoche + 1
    BY <1>4 DEF IInv, PostsStimmen, Passt
  <2>8. ListeStimmt' BY <1>4, <2>1, <2>2, <2>7 DEF ListeStimmt, Eindeutig
  <2>9. VersionenStimmen'
    <3>1. \A f \in Bekannt : f.epoche <= epoche BY DEF IInv, VersionenStimmen
    <3>2. \A f \in Bekannt : f \in Fassung
      BY JetztTyp DEF Bekannt, IInv, Typen, Auftrag, Erfuhr
    <3>3. \A f \in Bekannt : f.epoche \in Int BY <3>2 DEF Fassung
    <3>4. \A f \in Bekannt' : f.epoche <= epoche' BY <2>1, <2>2, <2>6, <2>7, <3>1, <3>3
    <3>5. \A f, g \in Bekannt' : f.epoche = g.epoche => f = g
      BY <2>2, <2>6, <2>7, <3>1, <3>3 DEF IInv, VersionenStimmen
    <3> QED BY <3>4, <3>5 DEF VersionenStimmen
  <2>10. PostsStimmen'
    <3>1. \A q \in posts' : q \in posts /\ q.neu.epoche \in Int
      BY <1>1 DEF IInv, Typen, Post, Fassung
    <3>2. \A q \in posts' : q.neu.epoche <= epoche + 1 BY <3>1 DEF IInv, PostsStimmen
    <3> QED BY <2>1, <2>2, <3>1, <3>2 DEF PostsStimmen
  <2> QED BY <2>5, <2>8, <2>9, <2>10 DEF IInv
<1> QED BY <1>3, <1>4 DEF setze_geraeteliste

LEMMA AngenommenHaelt ==
  ASSUME IInv, NEW d \in Geraet, Angenommen(d)
  PROVE  IInv'
<1> DEFINE N == auftrag[d].neu
<1>1. /\ Erfuhr(d) /\ Verwirft(d)
      /\ UNCHANGED <<relay, kennung, abruf>>
      /\ UNCHANGED gemerkt \/ gemerkt' = [gemerkt EXCEPT ![d] = Neuere(d, N)]
  BY DEF Angenommen, Erfuhr
<1>2. Neuere(d, N) \in {N, gemerkt[d]} BY DEF Neuere
<1>3. N \in Fassung /\ N \in Bekannt
  BY <1>1, BekanntSind DEF IInv, Typen, Auftrag, Erfuhr
<1>4. gemerkt' \in [Geraet -> Fassung] /\ \A c \in Geraet : gemerkt'[c] \in {gemerkt[c], N, gemerkt[d]}
  BY <1>1, <1>2, <1>3 DEF IInv, Typen
<1>5. auftrag' \in [Geraet -> Auftrag \cup {Niemand}]
      /\ \A c \in Geraet : /\ auftrag'[c] # Niemand => auftrag[c] # Niemand
                           /\ Erfuhr(c)' => auftrag'[c] = auftrag[c] /\ Erfuhr(c)
  BY <1>1 DEF IInv, Typen, Verwirft, Erfuhr
<1>6. Typen' BY <1>1, <1>4, <1>5 DEF IInv, Typen, relay
<1>7. Bekannt' \subseteq Bekannt
  BY <1>1, <1>3, <1>4, <1>5, BekanntSind, ImmerNochBekannt DEF relay
<1> QED BY <1>1, <1>6, <1>7, NurBekanntes DEF relay

LEMMA GibtAufHaelt ==
  ASSUME IInv, NEW d \in Geraet, GibtAuf(d)
  PROVE  IInv'
<1>1. Verwirft(d) /\ UNCHANGED <<relay, kennung, gemerkt, abruf>> BY DEF GibtAuf
<1>2. auftrag' \in [Geraet -> Auftrag \cup {Niemand}]
      /\ \A c \in Geraet : /\ auftrag'[c] # Niemand => auftrag[c] # Niemand
                           /\ Erfuhr(c)' => auftrag'[c] = auftrag[c] /\ Erfuhr(c)
  BY <1>1 DEF IInv, Typen, Verwirft, Erfuhr
<1>3. Typen' BY <1>1, <1>2 DEF IInv, Typen, relay
<1>4. Bekannt' \subseteq Bekannt BY <1>1, <1>2, BekanntSind, ImmerNochBekannt DEF relay
<1> QED BY <1>1, <1>3, <1>4, NurBekanntes DEF relay

(* Steps that neither the versions nor the changes under way see. *)
LEMMA NichtsDavon ==
  ASSUME IInv, UNCHANGED <<epoche, liste, kennung, gemerkt, abruf, auftrag>>, posts' \subseteq posts
  PROVE  IInv'
<1>1. Typen' BY DEF IInv, Typen
<1>2. Bekannt' \subseteq Bekannt BY DEF Bekannt, Jetzt, Erfuhr
<1> QED BY <1>1, <1>2, NurBekanntes

LEMMA SchrittHaelt == IInv /\ [Next]_vars => IInv'
<1> SUFFICES ASSUME IInv, [Next]_vars PROVE IInv' OBVIOUS
<1>1. ASSUME NEW d \in Geraet, ErmitteltKennung(d) PROVE IInv' BY <1>1, ErmitteltHaelt
<1>2. ASSUME NEW d \in Geraet, holeGeraeteliste(d) PROVE IInv' BY <1>2, HoltHaelt
<1>3. ASSUME NEW d \in Geraet, NEW wobei, Kommt(d, wobei) PROVE IInv' BY <1>3, KommtHaelt
<1>4. ASSUME NEW d \in Geraet, trittBei(d) PROVE IInv' BY <1>4, TrittBeiHaelt
<1>5. ASSUME NEW d \in Geraet, brichBeitrittAb(d) PROVE IInv'
  BY <1>5, NichtsDavon DEF brichBeitrittAb, relay
<1>6. ASSUME NEW d \in Geraet, NEW art \in {"anlegen", "ab", "nur", "zu", "zurueck"},
             NEW wen \in Eintrag, Beginnt(d, art, wen)
      PROVE  IInv'
  BY <1>6, BeginntHaelt
<1>7. ASSUME NEW d \in Geraet, Unterschreibt(d) PROVE IInv' BY <1>7, UnterschreibtHaelt
<1>8. ASSUME NEW d \in Geraet, Angenommen(d) PROVE IInv' BY <1>8, AngenommenHaelt
<1>9. ASSUME NEW d \in Geraet, GibtAuf(d) PROVE IInv' BY <1>9, GibtAufHaelt
<1>10. ASSUME NEW p \in posts, setze_geraeteliste(p) PROVE IInv' BY <1>10, SetztHaelt
<1>11. ASSUME NEW p \in posts, PostVerloren(p) PROVE IInv'
  BY <1>11, NichtsDavon DEF PostVerloren, app
<1>12. ASSUME BeitrittVerfaellt PROVE IInv'
  BY <1>12, NichtsDavon DEF BeitrittVerfaellt, app
<1>13. ASSUME UNCHANGED vars PROVE IInv' BY <1>13, NichtsDavon DEF vars, relay, app
<1> QED BY <1>1, <1>2, <1>3, <1>4, <1>5, <1>6, <1>7, <1>8, <1>9, <1>10, <1>11, <1>12, <1>13 DEF Next

(* The versions about, the stored one and the changes under way always     *)
(* fit together, for any number of devices.                                *)
THEOREM Invariante == Spec => []IInv
BY InitIInv, SchrittHaelt, PTL DEF Spec

(* No two versions of one epoch, whoever changes the list at the same time *)
(* and whatever is lost or late (KeinWiderspruch).                         *)
THEOREM OhneWiderspruch == Spec => []KeinWiderspruch
<1>1. IInv => KeinWiderspruch
  <2> SUFFICES ASSUME IInv, NEW d \in Geraet, NEW c \in Geraet
               PROVE  /\ gemerkt[d].epoche <= epoche
                      /\ gemerkt[d].epoche = epoche => gemerkt[d].liste = liste
                      /\ gemerkt[c].epoche = gemerkt[d].epoche => gemerkt[c] = gemerkt[d]
    BY DEF KeinWiderspruch
  <2>1. gemerkt[d] \in Bekannt /\ gemerkt[c] \in Bekannt /\ Jetzt \in Bekannt BY BekanntSind
  <2>2. Jetzt.epoche = epoche /\ Jetzt.liste = liste BY DEF Jetzt
  <2>3. gemerkt[d].epoche = epoche => gemerkt[d] = Jetzt
    BY <2>1, <2>2 DEF IInv, VersionenStimmen
  <2> QED BY <2>1, <2>2, <2>3 DEF IInv, VersionenStimmen
<1> QED BY <1>1, Invariante, PTL

----------------------------------------------------------------------------
(* DeviceList implements DeviceListPromise. *)

(* An accepted version is the effect of its operation on the version       *)
(* before it, and of one who may.                                          *)
LEMMA SetztEine ==
  ASSUME IInv, NEW p \in posts, Passt(p), DarfSetzen(p),
         epoche' = p.neu.epoche, liste' = p.neu.liste, letzte' = p.op
  PROVE  Versprechen!Aendert(p.op)
<1> DEFINE op == p.op
           u == op.von
           N == p.neu.liste
<1>1. p.neu.epoche = epoche + 1 BY DEF Passt
<1>2. N # {} /\ Eindeutig(N) /\ Naechste(op, liste, N) BY <1>1 DEF IInv, PostsStimmen
<1>3. Eindeutig(liste) BY DEF IInv, ListeStimmt
<1>4. op.art \in {"anlegen", "ab", "nur", "zu", "zurueck"} /\ u \in Eintrag
  BY DEF IInv, Typen, Post, Operation
<1>5. u \in liste \/ N = {u} BY DEF DarfSetzen
<1>6. op.art \in {"ab", "nur"} => u \in liste
  <2>1. op.art \in {"ab", "nur"} => N \subseteq liste
    <3> HIDE DEF N
    <3> QED BY <1>2 DEF Naechste
  <2> QED BY <1>5, <2>1
<1>7. op.art = "zu" => u \in liste
  <2>1. ASSUME op.art = "zu" PROVE liste # {} /\ liste \subseteq N BY <1>2, <2>1 DEF Naechste
  <2> QED BY <1>5, <2>1
<1>8. Versprechen!Darf(op, liste)
  BY <1>2, <1>4, <1>6, <1>7 DEF Naechste, Versprechen!Darf
<1>9. op.art = "nur" => N = {u}
  <2>1. ASSUME op.art = "nur" PROVE N = {e \in liste : e.id = u.id} /\ u \in liste
    BY <1>2, <1>6, <2>1 DEF Naechste
  <2> QED BY <1>3, <2>1 DEF Eindeutig
<1>10. N = Versprechen!Wirkung(op, liste)
  BY <1>2, <1>4, <1>9 DEF Naechste, Versprechen!Wirkung
<1>11. Versprechen!Brauchbar(N) BY <1>2 DEF Versprechen!Brauchbar, Eindeutig
<1> QED BY <1>1, <1>8, <1>10, <1>11 DEF Versprechen!Aendert

LEMMA SchrittIstEine ==
  ASSUME IInv, [Next]_vars
  PROVE  [Versprechen!Next]_<<epoche, liste, letzte>>
<1>1. ASSUME NEW p \in posts, setze_geraeteliste(p)
      PROVE  [Versprechen!Next]_<<epoche, liste, letzte>>
  <2>1. p.op \in Versprechen!Operation
    BY DEF IInv, Typen, Post, Operation, Versprechen!Operation
  <2>2. CASE Passt(p) /\ DarfSetzen(p) /\ epoche' = p.neu.epoche /\ liste' = p.neu.liste /\ letzte' = p.op
    BY <2>1, <2>2, SetztEine DEF Versprechen!Next
  <2>3. CASE UNCHANGED <<epoche, liste, letzte>> BY <2>3
  <2> QED BY <1>1, <2>2, <2>3 DEF setze_geraeteliste
<1>2. CASE UNCHANGED <<epoche, liste, letzte>> BY <1>2
<1>3. ASSUME NEW d \in Geraet,
             \/ ErmitteltKennung(d) \/ holeGeraeteliste(d)
             \/ \E wobei \in {"verbindet", "frischt", "wartet"} : Kommt(d, wobei)
             \/ trittBei(d) \/ brichBeitrittAb(d)
             \/ \E art \in {"anlegen", "ab", "nur", "zu", "zurueck"}, wen \in Eintrag : Beginnt(d, art, wen)
             \/ Unterschreibt(d) \/ Angenommen(d) \/ GibtAuf(d)
      PROVE  UNCHANGED <<epoche, liste, letzte>>
  BY <1>3 DEF ErmitteltKennung, holeGeraeteliste, Kommt, trittBei, brichBeitrittAb, Beginnt,
              Unterschreibt, Angenommen, GibtAuf, relay
<1>4. ASSUME NEW p \in posts, PostVerloren(p) PROVE UNCHANGED <<epoche, liste, letzte>>
  BY <1>4 DEF PostVerloren
<1>5. BeitrittVerfaellt => UNCHANGED <<epoche, liste, letzte>> BY DEF BeitrittVerfaellt
<1>6. UNCHANGED vars => UNCHANGED <<epoche, liste, letzte>> BY DEF vars, relay
<1> QED BY <1>1, <1>2, <1>3, <1>4, <1>5, <1>6 DEF Next

(* Every stored version is one operation on the version before it, by one  *)
(* who may (EineAenderungNachDerAnderen).                                  *)
THEOREM EineNachDerAnderen == Spec => EineAenderungNachDerAnderen
<1>1. Init => Versprechen!Init BY DEF Init, Versprechen!Init
<1>2. IInv /\ [Next]_vars => [Versprechen!Next]_<<epoche, liste, letzte>> BY SchrittIstEine
<1> QED BY <1>1, <1>2, Invariante, PTL DEF Spec, EineAenderungNachDerAnderen, Versprechen!Spec

----------------------------------------------------------------------------
(* The open requests: what goes leaves the others in place. *)

Rang(B, i) == Cardinality({j \in B : j <= i})

(* A finite set of positions has one of each rank. *)
LEMMA RangTrifft ==
  ASSUME NEW B \in SUBSET Int, IsFiniteSet(B)
  PROVE  /\ Cardinality(B) \in Nat
         /\ \A k \in 1 .. Cardinality(B) : \E i \in B : Rang(B, i) = k
<1> DEFINE bis(i) == {j \in B : j <= i}
           R == [i \in B |-> Rang(B, i)]
<1>1. Cardinality(B) \in Nat BY FS_CardinalityType
<1>2. ASSUME NEW i \in B
      PROVE  IsFiniteSet(bis(i)) /\ Rang(B, i) \in 1 .. Cardinality(B)
  <2>1. PICK T \in SUBSET B : T = bis(i) OBVIOUS
  <2>2. i \in T BY <2>1
  <2>3. IsFiniteSet(T) /\ Cardinality(T) <= Cardinality(B) BY FS_Subset
  <2>4. Cardinality(T) \in Nat /\ Cardinality(T) # 0
    BY <2>2, <2>3, FS_CardinalityType, FS_EmptySet
  <2> QED BY <1>1, <2>1, <2>3, <2>4 DEF Rang
<1>3. ASSUME NEW i \in B, NEW j \in B, i < j PROVE Rang(B, i) # Rang(B, j)
  <2>1. PICK T : T = bis(i) OBVIOUS
  <2>2. PICK U : U = bis(j) OBVIOUS
  <2>3. IsFiniteSet(U) /\ Rang(B, i) = Cardinality(T) /\ Rang(B, j) = Cardinality(U)
    BY <1>2, <2>1, <2>2 DEF Rang
  <2>4. i \in Int /\ j \in Int /\ \A x \in B : x \in Int OBVIOUS
  <2>5. \A x \in T : x \in U
    <3> SUFFICES ASSUME NEW x \in T PROVE x \in U OBVIOUS
    <3>1. x \in B /\ x <= i /\ x \in Int BY <2>1, <2>4
    <3>2. x <= j BY <1>3, <2>4, <3>1
    <3> QED BY <2>2, <3>1, <3>2
  <2>6. j \in U BY <2>2, <2>4
  <2>7. j \notin T BY <1>3, <2>1, <2>4
  <2>8. Cardinality(U) # Cardinality(T) BY <2>3, <2>5, <2>6, <2>7, FS_Subset
  <2> QED BY <2>3, <2>8
<1>4. \A i, j \in B : Rang(B, i) = Rang(B, j) => i = j
  <2>1. ASSUME NEW i \in B, NEW j \in B, i # j PROVE i < j \/ j < i BY <2>1
  <2> QED BY <1>3, <2>1
<1>5. R \in [B -> 1 .. Cardinality(B)] BY <1>2
<1>6. R \in Injection(B, 1 .. Cardinality(B))
  BY <1>4, <1>5 DEF Injection, IsInjective
<1>7. IsFiniteSet(1 .. Cardinality(B)) /\ Cardinality(1 .. Cardinality(B)) = Cardinality(B)
  BY <1>1, FS_Interval
<1>8. R \in Surjection(B, 1 .. Cardinality(B)) BY <1>6, <1>7, FS_Injection
<1>9. \A k \in 1 .. Cardinality(B) : \E i \in B : R[i] = k BY <1>8 DEF Surjection
<1> QED BY <1>1, <1>9

(* p is made of requests of q that are for other ids than K. *)
Davon(p, q, K) ==
    \A k \in DOMAIN p : \E i \in DOMAIN q : p[k] = q[i] /\ q[i].id \notin K

LEMMA OhneLaesst ==
  ASSUME NEW B \in Seq(Eintrag), NEW K
  PROVE  Ohne(B, K) \in Seq(Eintrag) /\ Len(Ohne(B, K)) <= Len(B) /\ Davon(Ohne(B, K), B, K)
<1>1. PICK S : S = {i \in DOMAIN B : B[i].id \notin K} OBVIOUS
<1>2. DOMAIN B = 1 .. Len(B) /\ Len(B) \in Nat OBVIOUS
<1>3. IsFiniteSet(1 .. Len(B)) /\ Cardinality(1 .. Len(B)) = Len(B) BY <1>2, FS_Interval
<1>4. S \in SUBSET Int /\ S \subseteq 1 .. Len(B) BY <1>1, <1>2
<1>5. IsFiniteSet(S) /\ Cardinality(S) <= Len(B) BY <1>3, <1>4, FS_Subset
<1>6. PICK n \in Nat : n = Cardinality(S) BY <1>5, FS_CardinalityType
<1> DEFINE ort == [k \in 1 .. n |-> CHOOSE i \in S : Rang(S, i) = k]
<1>7. ASSUME NEW k \in 1 .. n PROVE ort[k] \in S
  <2>1. \E i \in S : Rang(S, i) = k BY <1>4, <1>5, <1>6, RangTrifft
  <2> QED BY <2>1
<1>8. Ohne(B, K) = [k \in 1 .. n |-> B[ort[k]]] BY <1>1, <1>6 DEF Ohne, Rang
<1> HIDE DEF ort
<1>9. PICK p : p = Ohne(B, K) OBVIOUS
<1>10. p = [k \in 1 .. n |-> B[ort[k]]] BY <1>8, <1>9
<1>11. \A k \in 1 .. n : ort[k] \in DOMAIN B /\ B[ort[k]] \in Eintrag /\ B[ort[k]].id \notin K
  BY <1>1, <1>7
<1>12. p \in Seq(Eintrag) /\ Len(p) = n BY <1>10, <1>11
<1>13. Davon(p, B, K) BY <1>10, <1>11 DEF Davon
<1> QED BY <1>5, <1>6, <1>9, <1>12, <1>13

(* The newest requests stay, at most as many as there may be. *)
LEMMA NeuesteBleiben ==
  ASSUME NEW B \in Seq(Eintrag), NEW n \in Nat \ {0}, NEW z \in Int, z = Len(B) - n,
         NEW p, p = IF z > 0 THEN SubSeq(B, z + 1, Len(B)) ELSE B
  PROVE  p \in Seq(Eintrag) /\ Len(p) <= n /\ \A k \in DOMAIN p : \E i \in DOMAIN B : p[k] = B[i]
<1>1. Len(B) \in Nat /\ z \in Int OBVIOUS
<1>2. CASE z > 0
  <2>1. p = SubSeq(B, z + 1, Len(B)) BY <1>2
  <2>2. \A i \in z + 1 .. Len(B) : B[i] \in Eintrag BY <1>1, <1>2
  <2>3. z + 1 \in Int /\ z + 1 <= Len(B) BY <1>1
  <2>4. /\ p \in Seq(Eintrag) /\ Len(p) = Len(B) - (z + 1) + 1
        /\ \A i \in 1 .. Len(B) - (z + 1) + 1 : p[i] = B[z + 1 + i - 1]
    BY <1>1, <2>1, <2>2, <2>3, SubSeqProperties
  <2>5. Len(p) = n /\ DOMAIN p = 1 .. n /\ DOMAIN B = 1 .. Len(B) BY <1>1, <2>4
  <2>6. \A k \in 1 .. n : p[k] = B[z + k] /\ z + k \in 1 .. Len(B) BY <1>1, <1>2, <2>4
  <2>7. \A k \in DOMAIN p : z + k \in DOMAIN B /\ p[k] = B[z + k] BY <2>5, <2>6
  <2>8. Len(p) <= n BY <2>5
  <2> QED BY <2>4, <2>7, <2>8
<1>3. CASE ~(z > 0) BY <1>1, <1>3
<1> QED BY <1>2, <1>3

----------------------------------------------------------------------------
(* What the first invariant leaves out: how much there may be of           *)
(* everything, which requests are open, and who was a member.              *)

Groessen ==
    /\ Cardinality(liste) <= GERAETE_MAX
    /\ \A p \in posts : Cardinality(p.neu.liste) <= GERAETE_MAX

Anfragen ==
    /\ beitritte \in Seq(Eintrag) /\ Len(beitritte) <= BEITRITTE_JE_ADRESSE
    /\ BeitrittNurVonAussen

(* Who leaves was a member, when it asked and ever since: only a signed-out *)
(* device forgets it.                                                       *)
Mitglieder ==
    /\ stand \in [Geraet -> {"unbekannt", "mitglied", "draussen", "wartet", "abgemeldet"}]
    /\ mitglied \in [Geraet -> 0 .. EPOCHE_MAX]
    /\ \A d \in Geraet : stand[d] = "mitglied" => mitglied[d] > 0
    /\ \A d \in Geraet : auftrag[d] # Niemand =>
         /\ auftrag[d].ort # "holt" => auftrag[d].neu.epoche > 0
         /\ auftrag[d].art = "ab" => mitglied[d] > 0 \/ stand[d] = "abgemeldet"

(* Whoever asked for the list, or is to be let in, has an id. *)
HatKennung ==
    \A d \in Geraet : abruf[d] # Niemand \/ stand[d] \in {"draussen", "wartet"} => kennung[d] \in Kennung

Zaehler == auftraege \in 0 .. AUFTRAEGE_MAX /\ verluste \in 0 .. VERLUSTE_MAX

BInv == Groessen /\ Anfragen /\ Mitglieder /\ HatKennung /\ Zaehler

LEMMA InitBInv == Init => BInv
<1> SUFFICES ASSUME Init PROVE BInv OBVIOUS
<1>1. Cardinality({}) = 0 BY FS_EmptySet
<1>2. Groessen BY <1>1, ListenAssumption DEF Init, Groessen
<1>3. Anfragen
  <2>1. <<>> \in Seq(Eintrag) /\ Len(<<>>) = 0 /\ DOMAIN <<>> = {} OBVIOUS
  <2> QED BY <2>1, ListenAssumption DEF Init, Anfragen, BeitrittNurVonAussen
<1>4. Mitglieder /\ HatKennung BY ListenAssumption DEF Init, Mitglieder, HatKennung
<1>5. Zaehler BY ListenAssumption DEF Init, Zaehler
<1> QED BY <1>2, <1>3, <1>4, <1>5 DEF BInv

LEMMA GroessenHaelt ==
  ASSUME IInv, Groessen, [Next]_vars
  PROVE  Groessen'
<1>1. CASE liste' = liste /\ posts' \subseteq posts BY <1>1 DEF Groessen
<1>2. ASSUME NEW p \in posts, setze_geraeteliste(p) PROVE Groessen'
  <2>1. posts' \subseteq posts /\ (liste' = liste \/ liste' = p.neu.liste)
    BY <1>2 DEF setze_geraeteliste
  <2> QED BY <2>1 DEF Groessen
<1>3. ASSUME NEW d \in Geraet, Unterschreibt(d) PROVE Groessen'
  <2>1. liste' = liste BY <1>3 DEF Unterschreibt
  <2> DEFINE a == auftrag[d]
             L == Neuere(d, Jetzt)
             ich == [id |-> kennung'[d], geraet |-> d]
             neu == [epoche |-> L.epoche + 1, liste |-> Aendere(d, L.liste)]
             p == [op |-> [art |-> a.art, von |-> ich,
                           wen |-> IF a.art = "zurueck" THEN ich ELSE a.wen],
                   neu |-> neu]
  <2>2. \/ UNCHANGED posts
        \/ posts' = posts \cup {p} /\ FormStimmt(d, L.liste, neu.liste)
    BY <1>3 DEF Unterschreibt
  <2>3. p.neu.liste = neu.liste OBVIOUS
  <2> HIDE DEF p, neu, L
  <2> QED BY <2>1, <2>2, <2>3 DEF Groessen, FormStimmt
<1>4. ASSUME NEW d \in Geraet,
             \/ ErmitteltKennung(d) \/ holeGeraeteliste(d)
             \/ \E wobei \in {"verbindet", "frischt", "wartet"} : Kommt(d, wobei)
             \/ trittBei(d) \/ brichBeitrittAb(d)
             \/ \E art \in {"anlegen", "ab", "nur", "zu", "zurueck"}, wen \in Eintrag : Beginnt(d, art, wen)
             \/ Angenommen(d) \/ GibtAuf(d)
      PROVE  liste' = liste /\ posts' \subseteq posts
  BY <1>4 DEF ErmitteltKennung, holeGeraeteliste, Kommt, trittBei, brichBeitrittAb, Beginnt,
              Angenommen, GibtAuf, relay
<1>5. ASSUME NEW p \in posts, PostVerloren(p) PROVE liste' = liste /\ posts' \subseteq posts
  BY <1>5 DEF PostVerloren
<1>6. BeitrittVerfaellt => liste' = liste /\ posts' \subseteq posts BY DEF BeitrittVerfaellt
<1>7. UNCHANGED vars => liste' = liste /\ posts' \subseteq posts BY DEF vars, relay
<1> QED BY <1>1, <1>2, <1>3, <1>4, <1>5, <1>6, <1>7 DEF Next

(* A device that has an id keeps one. *)
LEMMA KennungBleibt ==
  ASSUME Typen, [Next]_vars, NEW c \in Geraet, kennung[c] \in Kennung
  PROVE  kennung'[c] \in Kennung
<1>1. CASE UNCHANGED kennung BY <1>1
<1>2. ASSUME NEW d \in Geraet, NEW L, FreieKennung(d, L) PROVE kennung'[c] \in Kennung
  BY <1>2 DEF Typen, FreieKennung
<1>3. ASSUME NEW d \in Geraet, ErmitteltKennung(d) PROVE kennung'[c] \in Kennung
  BY <1>3, ListenAssumption DEF Typen, ErmitteltKennung
<1>4. ASSUME NEW d \in Geraet, trittBei(d) PROVE kennung'[c] \in Kennung
  BY <1>2, <1>4 DEF trittBei
<1>5. ASSUME NEW d \in Geraet, Unterschreibt(d) PROVE kennung'[c] \in Kennung
  <2>1. UNCHANGED kennung \/ \E L : FreieKennung(d, L) BY <1>5 DEF Unterschreibt
  <2> QED BY <1>1, <1>2, <2>1
<1>6. ASSUME NEW d \in Geraet,
             \/ holeGeraeteliste(d) \/ \E wobei \in {"verbindet", "frischt", "wartet"} : Kommt(d, wobei)
             \/ brichBeitrittAb(d)
             \/ \E art \in {"anlegen", "ab", "nur", "zu", "zurueck"}, wen \in Eintrag : Beginnt(d, art, wen)
             \/ Angenommen(d) \/ GibtAuf(d)
      PROVE  UNCHANGED kennung
  BY <1>6 DEF holeGeraeteliste, Kommt, brichBeitrittAb, Beginnt, Angenommen, GibtAuf
<1>7. ASSUME NEW p \in posts, setze_geraeteliste(p) \/ PostVerloren(p) PROVE UNCHANGED kennung
  BY <1>7 DEF setze_geraeteliste, PostVerloren, app
<1>8. BeitrittVerfaellt \/ UNCHANGED vars => UNCHANGED kennung BY DEF BeitrittVerfaellt, vars, app
<1> QED BY <1>1, <1>3, <1>4, <1>5, <1>6, <1>7, <1>8 DEF Next

(* Requests that are left of the old ones are for none of the ids that     *)
(* came in; a new one is for an id that is not in the list.                *)
LEMMA AnfragenHaelt ==
  ASSUME Typen, HatKennung, Anfragen, [Next]_vars
  PROVE  Anfragen'
<1>0. /\ beitritte \in Seq(Eintrag) /\ Len(beitritte) <= BEITRITTE_JE_ADRESSE
      /\ \A i \in DOMAIN beitritte : beitritte[i].id \notin Kennungen(liste)
      /\ BEITRITTE_JE_ADRESSE \in Nat \ {0} /\ Len(beitritte) \in Nat
  BY ListenAssumption DEF Anfragen, BeitrittNurVonAussen
<1>1. CASE liste' = liste /\ beitritte' = beitritte
  BY <1>1 DEF Anfragen, BeitrittNurVonAussen
<1>2. ASSUME NEW p \in posts, setze_geraeteliste(p), ~(liste' = liste /\ beitritte' = beitritte)
      PROVE  Anfragen'
  <2>1. liste' = p.neu.liste /\ beitritte' = Ohne(beitritte, Kennungen(p.neu.liste))
    BY <1>2 DEF setze_geraeteliste, OhneErledigte
  <2>2. PICK K : K = Kennungen(p.neu.liste) OBVIOUS
  <2>3. /\ beitritte' \in Seq(Eintrag) /\ Len(beitritte') <= Len(beitritte)
        /\ Davon(beitritte', beitritte, K)
    BY <1>0, <2>1, <2>2, OhneLaesst
  <2>4. Len(beitritte') <= BEITRITTE_JE_ADRESSE
    <3>1. Len(beitritte') \in Nat BY <2>3
    <3> QED BY <1>0, <2>3, <3>1
  <2>5. \A i \in DOMAIN beitritte' : beitritte'[i].id \notin Kennungen(liste')
    BY <2>1, <2>2, <2>3 DEF Davon
  <2> QED BY <2>3, <2>4, <2>5 DEF Anfragen, BeitrittNurVonAussen, Kennungen
<1>3. ASSUME NEW d \in Geraet, trittBei(d), beitritte' # beitritte
      PROVE  Anfragen'
  <2>1. PICK e : e = [id |-> kennung'[d], geraet |-> d] OBVIOUS
  <2>2. liste' = liste /\ e.id \notin Kennungen(liste) /\ beantrage_beitritt(e)
    BY <1>3, <2>1 DEF trittBei
  <2>3. e \in Eintrag
    <3>1. kennung'[d] \in Kennung BY <1>3, KennungBleibt DEF HatKennung, trittBei
    <3> QED BY <2>1, <3>1 DEF Eintrag
  <2>4. PICK r : r = Ohne(beitritte, {e.id}) OBVIOUS
  <2>5. r \in Seq(Eintrag) /\ Davon(r, beitritte, {e.id}) BY <1>0, <2>4, OhneLaesst
  <2>6. PICK q : q = Append(r, e) OBVIOUS
  <2>7. /\ q \in Seq(Eintrag) /\ Len(q) = Len(r) + 1
        /\ \A i \in 1 .. Len(r) : q[i] = r[i]
        /\ q[Len(r) + 1] = e
    BY <2>3, <2>5, <2>6, AppendProperties
  <2>8. PICK z \in Int : z = Len(q) - BEITRITTE_JE_ADRESSE
    <3>1. Len(q) \in Nat BY <2>7
    <3>2. Len(q) - BEITRITTE_JE_ADRESSE \in Int BY <1>0, <3>1
    <3> QED BY <3>2
  <2>9. beitritte' = IF z > 0 THEN SubSeq(q, z + 1, Len(q)) ELSE q
    BY <2>2, <2>4, <2>6, <2>8 DEF beantrage_beitritt
  <2>10. /\ beitritte' \in Seq(Eintrag) /\ Len(beitritte') <= BEITRITTE_JE_ADRESSE
         /\ \A k \in DOMAIN beitritte' : \E i \in DOMAIN q : beitritte'[k] = q[i]
    <3>1. PICK p : p = beitritte' OBVIOUS
    <3>2. p = IF z > 0 THEN SubSeq(q, z + 1, Len(q)) ELSE q BY <2>9, <3>1
    <3>3. /\ q \in Seq(Eintrag) /\ BEITRITTE_JE_ADRESSE \in Nat \ {0}
          /\ z \in Int /\ z = Len(q) - BEITRITTE_JE_ADRESSE
      BY <1>0, <2>7, <2>8
    <3>4. /\ p \in Seq(Eintrag) /\ Len(p) <= BEITRITTE_JE_ADRESSE
          /\ \A k \in DOMAIN p : \E i \in DOMAIN q : p[k] = q[i]
      BY <3>2, <3>3, NeuesteBleiben
    <3> QED BY <3>1, <3>4
  <2>11. \A i \in DOMAIN q : q[i].id \notin Kennungen(liste)
    <3>1. \A i \in DOMAIN q : i \in 1 .. Len(r) \/ i = Len(r) + 1 BY <2>5, <2>7
    <3>2. \A i \in 1 .. Len(r) : r[i].id \notin Kennungen(liste) BY <1>0, <2>5 DEF Davon
    <3> QED BY <2>2, <2>7, <3>1, <3>2
  <2>12. \A i \in DOMAIN beitritte' : beitritte'[i].id \notin Kennungen(liste)
    BY <2>10, <2>11
  <2> QED BY <2>2, <2>10, <2>12 DEF Anfragen, BeitrittNurVonAussen
<1>4. ASSUME BeitrittVerfaellt PROVE Anfragen'
  <2>1. /\ beitritte # <<>> /\ beitritte' = Tail(beitritte) /\ liste' = liste
    BY <1>4 DEF BeitrittVerfaellt
  <2>2. /\ beitritte' \in Seq(Eintrag) /\ Len(beitritte') = Len(beitritte) - 1
        /\ \A i \in 1 .. Len(beitritte') : beitritte'[i] = beitritte[i + 1]
    BY <1>0, <2>1, HeadTailProperties
  <2>3. \A i \in DOMAIN beitritte' : \E j \in DOMAIN beitritte : beitritte'[i] = beitritte[j]
    BY <1>0, <2>2
  <2>4. \A i \in DOMAIN beitritte' : beitritte'[i].id \notin Kennungen(liste)
    BY <1>0, <2>3
  <2>5. Len(beitritte') <= BEITRITTE_JE_ADRESSE BY <1>0, <2>2
  <2> QED BY <2>1, <2>2, <2>4, <2>5 DEF Anfragen, BeitrittNurVonAussen
<1>5. ASSUME NEW d \in Geraet,
             \/ ErmitteltKennung(d) \/ holeGeraeteliste(d)
             \/ \E wobei \in {"verbindet", "frischt", "wartet"} : Kommt(d, wobei)
             \/ brichBeitrittAb(d)
             \/ \E art \in {"anlegen", "ab", "nur", "zu", "zurueck"}, wen \in Eintrag : Beginnt(d, art, wen)
             \/ Unterschreibt(d) \/ Angenommen(d) \/ GibtAuf(d)
      PROVE  liste' = liste /\ beitritte' = beitritte
  BY <1>5 DEF ErmitteltKennung, holeGeraeteliste, Kommt, brichBeitrittAb, Beginnt,
              Unterschreibt, Angenommen, GibtAuf, relay
<1>6. ASSUME NEW p \in posts, PostVerloren(p) PROVE liste' = liste /\ beitritte' = beitritte
  BY <1>6 DEF PostVerloren
<1>7. UNCHANGED vars => liste' = liste /\ beitritte' = beitritte BY DEF vars, relay
<1>8. ASSUME NEW d \in Geraet, trittBei(d) PROVE liste' = liste BY <1>8 DEF trittBei
<1> QED BY <1>1, <1>2, <1>3, <1>4, <1>5, <1>6, <1>7, <1>8 DEF Next

(* Who left after the step asked to before, or asks as a member. *)
LEMMA MitgliederHaelt ==
  ASSUME IInv, Mitglieder, [Next]_vars
  PROVE  Mitglieder'
<1> USE ListenAssumption
<1>0. /\ auftrag \in [Geraet -> Auftrag \cup {Niemand}]
      /\ gemerkt \in [Geraet -> Fassung] /\ abruf \in [Geraet -> Fassung \cup {Niemand}]
      /\ posts \subseteq Post
      /\ epoche \in 0 .. EPOCHE_MAX
  BY DEF IInv, Typen
<1>1. ASSUME UNCHANGED <<stand, mitglied, auftrag>> PROVE Mitglieder'
  BY <1>1 DEF Mitglieder
<1>2. ASSUME NEW d \in Geraet, NEW wobei, Kommt(d, wobei) PROVE Mitglieder'
  <2>1. UNCHANGED auftrag BY <1>2 DEF Kommt
  <2>2. PICK L : L = Neuere(d, abruf[d]) OBVIOUS
  <2>3. L.epoche \in 0 .. EPOCHE_MAX BY <1>0, <1>2, <2>2 DEF Kommt, Neuere, Fassung
  <2>4. \/ UNCHANGED <<stand, mitglied>>
        \/ L.epoche > 0 /\ WirdMitglied(d, L)
        \/ WirdAbgemeldet(d)
        \/ /\ UNCHANGED mitglied /\ Lebt(d)
           /\ stand' = stand \/ stand' = [stand EXCEPT ![d] = "draussen"]
    BY <1>2, <2>2 DEF Kommt, Mitglieder
  <2>5. CASE UNCHANGED <<stand, mitglied>> BY <1>1, <2>1, <2>5
  <2>6. CASE L.epoche > 0 /\ WirdMitglied(d, L)
    BY <2>1, <2>3, <2>6 DEF Mitglieder, WirdMitglied
  <2>7. CASE WirdAbgemeldet(d) BY <2>1, <2>7 DEF Mitglieder, WirdAbgemeldet
  <2>8. CASE UNCHANGED mitglied /\ Lebt(d) /\ stand' = [stand EXCEPT ![d] = "draussen"]
    BY <2>1, <2>8 DEF Mitglieder, Lebt
  <2> QED BY <2>1, <2>4, <2>5, <2>6, <2>7, <2>8
<1>3. ASSUME NEW d \in Geraet, trittBei(d) \/ brichBeitrittAb(d) PROVE Mitglieder'
  <2>1. /\ UNCHANGED <<mitglied, auftrag>> /\ stand[d] # "abgemeldet"
        /\ \/ stand' = stand
           \/ \E s \in {"wartet", "draussen"} : stand' = [stand EXCEPT ![d] = s]
    BY <1>3 DEF trittBei, brichBeitrittAb
  <2> QED BY <2>1 DEF Mitglieder
<1>4. ASSUME NEW d \in Geraet, NEW art \in {"anlegen", "ab", "nur", "zu", "zurueck"},
             NEW wen \in Eintrag, Beginnt(d, art, wen)
      PROVE  Mitglieder'
  <2>1. PICK a : a = [art |-> art, wen |-> wen, ort |-> "holt", versuch |-> 0, neu |-> Leer] OBVIOUS
  <2>2. a.art = art /\ a.ort = "holt" BY <2>1
  <2>3. /\ UNCHANGED mitglied /\ Lebt(d) /\ (art = "ab" => stand[d] = "mitglied")
        /\ auftrag' = [auftrag EXCEPT ![d] = a]
        /\ \/ stand' = stand
           \/ art = "zurueck" /\ stand' = [stand EXCEPT ![d] = "draussen"]
    BY <1>4, <2>1 DEF Beginnt, Mitglieder
  <2> QED BY <1>0, <2>2, <2>3 DEF Mitglieder, Lebt
<1>5. ASSUME NEW d \in Geraet, Unterschreibt(d) PROVE Mitglieder'
  <2>1. UNCHANGED <<stand, mitglied>> BY <1>5 DEF Unterschreibt
  <2>2. CASE Verwirft(d) BY <1>0, <2>1, <2>2 DEF Mitglieder, Verwirft
  <2>3. CASE ~Verwirft(d)
    <3>1. PICK p \in Post :
             /\ auftrag' = [auftrag EXCEPT ![d].ort = "wartet", ![d].neu = p.neu]
             /\ p.neu.epoche = epoche + 1
      BY <1>5, <2>3, UnterschriftStimmt
    <3>2. PICK n : n = p.neu OBVIOUS
    <3>3. PICK a : a = auftrag'[d] OBVIOUS
    <3>4. /\ auftrag[d] \in Auftrag BY <1>0, <1>5 DEF Unterschreibt
    <3>5. a.art = auftrag[d].art /\ a.neu.epoche > 0
      BY <1>0, <3>1, <3>2, <3>3, <3>4 DEF Auftrag
    <3>6. \A c \in Geraet : c # d => auftrag'[c] = auftrag[c] BY <1>0, <3>1
    <3> QED BY <2>1, <3>3, <3>5, <3>6, <3>4, <1>5 DEF Mitglieder, Unterschreibt
  <2> QED BY <2>2, <2>3
<1>6. ASSUME NEW d \in Geraet, Angenommen(d) PROVE Mitglieder'
  <2>1. PICK a : a = auftrag[d] OBVIOUS
  <2>2. a \in Auftrag /\ a.ort = "ok" /\ Verwirft(d) BY <1>0, <1>6, <2>1 DEF Angenommen
  <2>3. a.neu.epoche \in 0 .. EPOCHE_MAX /\ a.neu.epoche > 0
    BY <1>6, <2>1, <2>2 DEF Mitglieder, Auftrag, Fassung, Angenommen
  <2>4. \/ UNCHANGED <<stand, mitglied>> \/ WirdMitglied(d, a.neu) \/ WirdAbgemeldet(d)
    BY <1>6, <2>1 DEF Angenommen
  <2>5. /\ auftrag'[d] = Niemand
        /\ \A c \in Geraet : c # d => auftrag'[c] = auftrag[c]
    BY <1>0, <2>2 DEF Verwirft
  <2>6. CASE UNCHANGED <<stand, mitglied>> BY <2>5, <2>6 DEF Mitglieder
  <2>7. CASE WirdMitglied(d, a.neu) BY <2>3, <2>5, <2>7 DEF Mitglieder, WirdMitglied
  <2>8. CASE WirdAbgemeldet(d) BY <2>5, <2>8 DEF Mitglieder, WirdAbgemeldet
  <2> QED BY <2>4, <2>6, <2>7, <2>8
<1>7. ASSUME NEW d \in Geraet, GibtAuf(d) PROVE Mitglieder'
  BY <1>0, <1>7 DEF Mitglieder, GibtAuf, Verwirft
<1>8. ASSUME NEW p \in posts, setze_geraeteliste(p) PROVE Mitglieder'
  <2>1. UNCHANGED <<stand, mitglied>> BY <1>8 DEF setze_geraeteliste
  <2>2. PICK d \in Geraet : d = p.op.von.geraet BY <1>0 DEF Post, Operation, Eintrag
  <2>3. \/ UNCHANGED auftrag
        \/ auftrag[d] # Niemand /\ auftrag[d].ort = "wartet" /\ auftrag' = [auftrag EXCEPT ![d].ort = "ok"]
        \/ auftrag' = [auftrag EXCEPT ![d].ort = "holt", ![d].versuch = 1] /\ auftrag[d] # Niemand
        \/ Verwirft(d)
    BY <1>8, <2>2 DEF setze_geraeteliste, Antwort, Abgelehnt
  <2>4. CASE UNCHANGED auftrag BY <1>1, <2>1, <2>4
  <2>5. CASE Verwirft(d) BY <1>0, <2>1, <2>5 DEF Mitglieder, Verwirft
  <2>6. CASE auftrag[d] # Niemand /\ auftrag[d].ort = "wartet" /\ auftrag' = [auftrag EXCEPT ![d].ort = "ok"]
    <3>1. auftrag[d] \in Auftrag BY <1>0, <2>6
    <3>2. /\ auftrag'[d].art = auftrag[d].art /\ auftrag'[d].neu = auftrag[d].neu
          /\ \A c \in Geraet : c # d => auftrag'[c] = auftrag[c]
      BY <1>0, <2>6, <3>1 DEF Auftrag
    <3> QED BY <2>1, <2>6, <3>2 DEF Mitglieder
  <2>7. CASE auftrag' = [auftrag EXCEPT ![d].ort = "holt", ![d].versuch = 1] /\ auftrag[d] # Niemand
    <3>1. auftrag[d] \in Auftrag BY <1>0, <2>7
    <3>2. /\ auftrag'[d].art = auftrag[d].art /\ auftrag'[d].ort = "holt"
          /\ \A c \in Geraet : c # d => auftrag'[c] = auftrag[c]
      BY <1>0, <2>7, <3>1 DEF Auftrag
    <3> QED BY <2>1, <2>7, <3>2 DEF Mitglieder
  <2> QED BY <2>3, <2>4, <2>5, <2>6, <2>7
<1>9. ASSUME NEW d \in Geraet, ErmitteltKennung(d) \/ holeGeraeteliste(d) PROVE UNCHANGED <<stand, mitglied, auftrag>>
  BY <1>9 DEF ErmitteltKennung, holeGeraeteliste
<1>10. ASSUME NEW p \in posts, PostVerloren(p) PROVE UNCHANGED <<stand, mitglied, auftrag>>
  BY <1>10 DEF PostVerloren, app
<1>11. BeitrittVerfaellt \/ UNCHANGED vars => UNCHANGED <<stand, mitglied, auftrag>>
  BY DEF BeitrittVerfaellt, vars, app
<1> QED BY <1>1, <1>2, <1>3, <1>4, <1>5, <1>6, <1>7, <1>8, <1>9, <1>10, <1>11 DEF Next

LEMMA HatKennungHaelt ==
  ASSUME Typen, HatKennung, Mitglieder, [Next]_vars
  PROVE  HatKennung'
<1>0. stand \in [Geraet -> {"unbekannt", "mitglied", "draussen", "wartet", "abgemeldet"}]
  BY DEF Mitglieder
<1>1. ASSUME NEW c \in Geraet, abruf'[c] # Niemand \/ stand'[c] \in {"draussen", "wartet"},
             abruf[c] # Niemand \/ stand[c] \in {"draussen", "wartet"}
      PROVE  kennung'[c] \in Kennung
  BY <1>1, KennungBleibt DEF HatKennung
<1>2. ASSUME NEW d \in Geraet,
             \/ ErmitteltKennung(d) \/ holeGeraeteliste(d)
             \/ \E wobei \in {"verbindet", "frischt", "wartet"} : Kommt(d, wobei)
             \/ trittBei(d) \/ brichBeitrittAb(d)
             \/ \E art \in {"anlegen", "ab", "nur", "zu", "zurueck"}, wen \in Eintrag : Beginnt(d, art, wen)
             \/ Unterschreibt(d) \/ Angenommen(d) \/ GibtAuf(d),
             NEW c \in Geraet, abruf'[c] # Niemand \/ stand'[c] \in {"draussen", "wartet"}
      PROVE  \/ abruf[c] # Niemand \/ stand[c] \in {"draussen", "wartet"}
             \/ kennung[c] \in Kennung
  <2>1. kennung[d] # 0 => kennung[d] \in Kennung BY DEF Typen
  <2>2. CASE UNCHANGED <<abruf, stand>> BY <1>2, <2>2
  <2>3. CASE holeGeraeteliste(d)
    <3>1. UNCHANGED stand /\ kennung[d] # 0 /\ abruf' = [abruf EXCEPT ![d] = Jetzt]
      BY <2>3 DEF holeGeraeteliste
    <3> QED BY <1>2, <2>1, <3>1 DEF Typen
  <2>4. ASSUME NEW wobei, Kommt(d, wobei)
        PROVE  \/ abruf[c] # Niemand \/ stand[c] \in {"draussen", "wartet"}
    <3>1. abruf[d] # Niemand /\ abruf' = [abruf EXCEPT ![d] = Niemand] BY <2>4 DEF Kommt
    <3>2. \E s : stand' = stand \/ stand' = [stand EXCEPT ![d] = s]
      BY <2>4 DEF Kommt, WirdMitglied, WirdAbgemeldet
    <3> QED BY <1>0, <1>2, <3>1, <3>2 DEF Typen
  <2>5. CASE trittBei(d) \/ brichBeitrittAb(d)
    <3>1. /\ stand[d] \in {"draussen", "wartet"}
          /\ abruf' = abruf \/ abruf' = [abruf EXCEPT ![d] = Niemand]
          /\ \E s : stand' = stand \/ stand' = [stand EXCEPT ![d] = s]
      BY <2>5 DEF trittBei, brichBeitrittAb
    <3> QED BY <1>0, <1>2, <3>1 DEF Typen
  <2>6. ASSUME NEW art, NEW wen, Beginnt(d, art, wen)
        PROVE  \/ abruf[c] # Niemand \/ stand[c] \in {"draussen", "wartet"}
               \/ kennung[c] \in Kennung
    <3>1. /\ kennung[d] # 0 /\ UNCHANGED abruf
          /\ \E s : stand' = [stand EXCEPT ![d] = s]
      BY <2>6 DEF Beginnt
    <3> QED BY <1>0, <1>2, <2>1, <3>1
  <2>7. CASE Angenommen(d)
    <3>1. UNCHANGED abruf /\ \E s \in {"mitglied", "abgemeldet"} :
                                stand' = stand \/ stand' = [stand EXCEPT ![d] = s]
      BY <2>7 DEF Angenommen, WirdMitglied, WirdAbgemeldet
    <3> QED BY <1>0, <1>2, <3>1
  <2>8. ErmitteltKennung(d) \/ Unterschreibt(d) \/ GibtAuf(d) => UNCHANGED <<abruf, stand>>
    BY DEF ErmitteltKennung, Unterschreibt, GibtAuf
  <2> QED BY <1>2, <2>2, <2>3, <2>4, <2>5, <2>6, <2>7, <2>8
<1>3. ASSUME NEW p \in posts, setze_geraeteliste(p) \/ PostVerloren(p) PROVE UNCHANGED <<abruf, stand>>
  BY <1>3 DEF setze_geraeteliste, PostVerloren, app
<1>4. BeitrittVerfaellt \/ UNCHANGED vars => UNCHANGED <<abruf, stand>> BY DEF BeitrittVerfaellt, vars, app
<1>5. ASSUME NEW c \in Geraet, abruf'[c] # Niemand \/ stand'[c] \in {"draussen", "wartet"}
      PROVE  \/ abruf[c] # Niemand \/ stand[c] \in {"draussen", "wartet"}
             \/ kennung[c] \in Kennung
  BY <1>2, <1>3, <1>4, <1>5 DEF Next
<1> QED BY <1>5, KennungBleibt DEF HatKennung

LEMMA BuchHaelt == IInv /\ BInv /\ [Next]_vars => BInv'
<1> SUFFICES ASSUME IInv, BInv, [Next]_vars PROVE BInv' OBVIOUS
<1>1. Groessen' BY GroessenHaelt DEF BInv
<1>2. Anfragen' BY AnfragenHaelt DEF IInv, BInv
<1>3. Mitglieder' BY MitgliederHaelt DEF BInv
<1>4. HatKennung' BY HatKennungHaelt DEF IInv, BInv
<1>5. Zaehler'
  <2> DEFINE EinsMehr == /\ \/ UNCHANGED auftraege
                            \/ auftraege < AUFTRAEGE_MAX /\ auftraege' = auftraege + 1
                         /\ \/ UNCHANGED verluste
                            \/ verluste < VERLUSTE_MAX /\ verluste' = verluste + 1
  <2>1. ASSUME NEW d \in Geraet,
               \/ ErmitteltKennung(d) \/ holeGeraeteliste(d)
               \/ \E wobei \in {"verbindet", "frischt", "wartet"} : Kommt(d, wobei)
               \/ trittBei(d) \/ brichBeitrittAb(d)
               \/ \E art \in {"anlegen", "ab", "nur", "zu", "zurueck"}, wen \in Eintrag : Beginnt(d, art, wen)
               \/ Unterschreibt(d) \/ Angenommen(d) \/ GibtAuf(d)
        PROVE  EinsMehr
    BY <2>1 DEF ErmitteltKennung, holeGeraeteliste, Kommt, trittBei, brichBeitrittAb, Beginnt,
                Unterschreibt, Angenommen, GibtAuf
  <2>2. ASSUME NEW p \in posts, setze_geraeteliste(p) \/ PostVerloren(p) PROVE EinsMehr
    BY <2>2 DEF setze_geraeteliste, PostVerloren
  <2>3. BeitrittVerfaellt \/ UNCHANGED vars => EinsMehr BY DEF BeitrittVerfaellt, vars
  <2>4. EinsMehr BY <2>1, <2>2, <2>3 DEF Next
  <2> QED BY <2>4, ListenAssumption DEF BInv, Zaehler
<1> QED BY <1>1, <1>2, <1>3, <1>4, <1>5 DEF BInv

(* Both invariants together. *)
LEMMA Beide == Spec => [](IInv /\ BInv)
<1>1. Init => BInv BY InitBInv
<1>2. IInv /\ BInv /\ [Next]_vars => BInv' BY BuchHaelt
<1> QED BY <1>1, <1>2, Invariante, PTL DEF Spec

(* Every variable keeps its type, no list has more than GERAETE_MAX        *)
(* devices, and there are never more than BEITRITTE_JE_ADRESSE open        *)
(* requests (TypeOK).                                                      *)
THEOREM TypKorrekt == Spec => []TypeOK
<1>1. IInv /\ BInv => TypeOK
  BY DEF TypeOK, IInv, Typen, ListeStimmt, BInv, Groessen, Anfragen, Mitglieder, Zaehler
<1> QED BY <1>1, Beide, PTL

(* A request is open only for an id that is not in the list, whichever     *)
(* versions came in since it was made (BeitrittNurVonAussen).              *)
THEOREM NurVonAussen == Spec => []BeitrittNurVonAussen
<1>1. BInv => BeitrittNurVonAussen BY DEF BInv, Anfragen
<1> QED BY <1>1, Beide, PTL

(* A device erases its words only as a former member, and for a reason     *)
(* (AbgemeldetNurZuRecht): whatever it read, in any order, and however     *)
(* late the answer to its own leave is.                                    *)
THEOREM ZuRecht == Spec => AbgemeldetNurZuRecht
<1> DEFINE Recht(d) == /\ 0 < mitglied[d]
                       /\ \/ mitglied[d] < gemerkt'[d].epoche /\ ~Steht(d, gemerkt'[d].liste)
                          \/ GingSelbst(d)
           A == \A d \in Geraet : (stand[d] # "abgemeldet" /\ stand'[d] = "abgemeldet") => Recht(d)
<1>1. ASSUME IInv, BInv, [Next]_vars, NEW c \in Geraet,
             stand[c] # "abgemeldet", stand'[c] = "abgemeldet"
      PROVE  Recht(c)
  <2>0. /\ stand \in [Geraet -> {"unbekannt", "mitglied", "draussen", "wartet", "abgemeldet"}]
        /\ mitglied \in [Geraet -> 0 .. EPOCHE_MAX]
        /\ gemerkt \in [Geraet -> Fassung] /\ abruf \in [Geraet -> Fassung \cup {Niemand}]
    <3>1. gemerkt \in [Geraet -> Fassung] /\ abruf \in [Geraet -> Fassung \cup {Niemand}]
      BY <1>1 DEF IInv, Typen
    <3> QED BY <1>1, <3>1 DEF BInv, Mitglieder
  <2>1. ASSUME NEW d \in Geraet, NEW wobei, Kommt(d, wobei) PROVE Recht(c)
    <3>1. d = c BY <1>1, <2>0, <2>1 DEF Kommt, WirdMitglied, WirdAbgemeldet
    <3>2. PICK L : L = Neuere(d, abruf[d]) OBVIOUS
    <3>3. gemerkt'[d] = L BY <2>0, <2>1, <3>2 DEF Kommt
    <3>4. ~Steht(d, L.liste) /\ WarMitglied(d, L)
      BY <1>1, <2>0, <2>1, <3>1, <3>2 DEF Kommt, WirdMitglied
    <3> QED BY <2>0, <3>1, <3>3, <3>4 DEF WarMitglied
  <2>2. ASSUME NEW d \in Geraet, Angenommen(d) PROVE Recht(c)
    <3>1. d = c BY <1>1, <2>0, <2>2 DEF Angenommen, WirdMitglied, WirdAbgemeldet
    <3>2. GingSelbst(d)
      BY <1>1, <2>0, <2>2, <3>1 DEF Angenommen, WirdMitglied, GingSelbst
    <3>3. mitglied[d] > 0 BY <1>1, <3>1, <3>2 DEF BInv, Mitglieder, GingSelbst
    <3> QED BY <2>0, <3>1, <3>2, <3>3
  <2>3. ASSUME NEW d \in Geraet,
               \/ ErmitteltKennung(d) \/ holeGeraeteliste(d) \/ trittBei(d) \/ brichBeitrittAb(d)
               \/ \E art \in {"anlegen", "ab", "nur", "zu", "zurueck"}, wen \in Eintrag : Beginnt(d, art, wen)
               \/ Unterschreibt(d) \/ GibtAuf(d)
        PROVE  stand'[c] \in {stand[c], "wartet", "draussen"}
    BY <2>0, <2>3 DEF ErmitteltKennung, holeGeraeteliste, trittBei, brichBeitrittAb, Beginnt,
                Unterschreibt, GibtAuf
  <2>4. ASSUME NEW p \in posts, setze_geraeteliste(p) \/ PostVerloren(p) PROVE UNCHANGED stand
    BY <2>4 DEF setze_geraeteliste, PostVerloren, app
  <2>5. BeitrittVerfaellt \/ UNCHANGED vars => UNCHANGED stand BY DEF BeitrittVerfaellt, vars, app
  <2> QED BY <1>1, <2>1, <2>2, <2>3, <2>4, <2>5 DEF Next
<1>2. IInv /\ BInv /\ [Next]_vars => [A]_vars BY <1>1
<1> QED BY <1>2, Beide, PTL DEF Spec, AbgemeldetNurZuRecht
=============================================================================
