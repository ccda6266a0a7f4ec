------------------------------ MODULE DeviceList ------------------------------
(***************************************************************************)
(* The signed device list of one address: the relay that keeps it          *)
(* (relay_server.py, /geraeteliste and /geraeteliste/beitritt) and the     *)
(* devices that change it (geraeteverwaltung.dart).  Every device has the  *)
(* words, none has another's device key; a device IS its key here, and     *)
(* signatures are who signed.  A device reads the list, signs the next     *)
(* version, sends it, and may see its request or the answer late or never. *)
(* What a new version does to rows and lines is the matter of DeviceLines. *)
(***************************************************************************)
EXTENDS Integers, Sequences, FiniteSets

CONSTANTS
    Geraet,               \* devices with the words
    Kennung,              \* ids
    GERAETE_MAX, BEITRITTE_JE_ADRESSE,
    Niemand,              \* nothing under way
    EPOCHE_MAX, AUFTRAEGE_MAX, VERLUSTE_MAX   \* bounds

ASSUME ListenAssumption ==
    /\ 1 \in Kennung /\ IsFiniteSet(Kennung) /\ IsFiniteSet(Geraet)
    /\ GERAETE_MAX \in Nat \ {0} /\ BEITRITTE_JE_ADRESSE \in Nat \ {0}
    /\ EPOCHE_MAX \in Nat /\ AUFTRAEGE_MAX \in Nat /\ VERLUSTE_MAX \in Nat

VARIABLES
    epoche, liste,  \* geraetelisten: the stored version
    letzte,         \* history: the operation that made it
    beitritte,      \* open join requests, oldest first
    posts,          \* POSTs of new versions under way
    kennung,        \* per device: its id, 0 before the first connection
    stand,          \* per device: ListenStand
    mitglied,       \* per device: geraeteliste_mitglied, 0 for none
    gemerkt,        \* per device: the version it holds for the newest
    abruf,          \* per device: an answer of GET /geraeteliste under way
    auftrag,        \* per device: the change it is making
    auftraege, verluste   \* so far
relay == <<epoche, liste, letzte, beitritte, posts>>
app == <<kennung, stand, mitglied, gemerkt, abruf, auftrag>>
vars == <<relay, app, auftraege, verluste>>

Eintrag == [id : Kennung, geraet : Geraet]
Fassung == [epoche : 0 .. EPOCHE_MAX, liste : SUBSET Eintrag]
Kennungen(L) == {e.id : e \in L}
Ich(d) == [id |-> kennung[d], geraet |-> d]
Steht(d, L) == Ich(d) \in L
Jetzt == [epoche |-> epoche, liste |-> liste]

Operation == [art : {"anlegen", "ab", "nur", "zu", "zurueck"}, von : Eintrag, wen : Eintrag]
Post == [op : Operation, neu : Fassung]
Auftrag == [art : {"anlegen", "ab", "nur", "zu", "zurueck"}, wen : Eintrag,
            ort : {"holt", "wartet", "ok"}, versuch : 0 .. 1, neu : Fassung]

TypeOK ==
    /\ epoche \in 0 .. EPOCHE_MAX /\ liste \subseteq Eintrag
    /\ Cardinality(liste) <= GERAETE_MAX /\ (epoche = 0 <=> liste = {})
    /\ beitritte \in Seq(Eintrag) /\ Len(beitritte) <= BEITRITTE_JE_ADRESSE
    /\ posts \subseteq Post
    /\ kennung \in [Geraet -> Kennung \cup {0}]
    /\ stand \in [Geraet -> {"unbekannt", "mitglied", "draussen", "wartet", "abgemeldet"}]
    /\ mitglied \in [Geraet -> 0 .. EPOCHE_MAX]
    /\ gemerkt \in [Geraet -> Fassung] /\ abruf \in [Geraet -> Fassung \cup {Niemand}]
    /\ auftrag \in [Geraet -> Auftrag \cup {Niemand}]
    /\ auftraege \in 0 .. AUFTRAEGE_MAX /\ verluste \in 0 .. VERLUSTE_MAX

Leer == [epoche |-> 0, liste |-> {}]
Init ==
    /\ epoche = 0 /\ liste = {} /\ letzte = [art |-> "keine"] /\ beitritte = <<>> /\ posts = {}
    /\ kennung = [d \in Geraet |-> 0]
    /\ stand = [d \in Geraet |-> "unbekannt"]
    /\ mitglied = [d \in Geraet |-> 0]
    /\ gemerkt = [d \in Geraet |-> Leer] /\ abruf = [d \in Geraet |-> Niemand]
    /\ auftrag = [d \in Geraet |-> Niemand]
    /\ auftraege = 0 /\ verluste = 0

----------------------------------------------------------------------------
(* The relay. *)

(* Who signed: a member of the old version, with the key it has there; or  *)
(* someone who comes in alone.                                             *)
DarfSetzen(p) ==
    LET u == p.op.von
        bisher == {e \in liste : e.id = u.id}
        behaelt == \A e \in p.neu.liste : e.id = u.id => e \in bisher
    IN IF liste # {} /\ bisher # {} /\ behaelt THEN u \in bisher
       ELSE p.neu.liste = {u}

(* Deviation: any newer epoch will do. *)
PasstIrgendeine(p) == p.neu.epoche > 0
(* Exactly one more than the stored one. *)
Passt(p) == p.neu.epoche = epoche + 1

(* Deviation: requests are left to their time limit. *)
ErledigteBleiben(B, L) == B
(* The requests for other ids than these, in their order: the k-th that    *)
(* stays is the one with k of them up to it.                               *)
Ohne(B, K) ==
    LET bleibt == {i \in DOMAIN B : B[i].id \notin K}
    IN [k \in 1 .. Cardinality(bleibt) |->
          B[CHOOSE i \in bleibt : Cardinality({j \in bleibt : j <= i}) = k]]
(* A request for an id that is in the list now is settled. *)
OhneErledigte(B, L) == Ohne(B, Kennungen(L))

Verwirft(d) == auftrag' = [auftrag EXCEPT ![d] = Niemand]
(* 409 is tried once more; _legeListeAn and any other refusal give up.     *)
Abgelehnt(d, was) ==
    IF was = "409" /\ auftrag[d].versuch = 0 /\ auftrag[d].art # "anlegen"
    THEN auftrag' = [auftrag EXCEPT ![d].ort = "holt", ![d].versuch = 1]
    ELSE Verwirft(d)

(* The answer reaches the device only if it is still waiting for it.  A    *)
(* refusal is taken at once: it only makes the device read again, later.   *)
Antwort(p, was) ==
    LET d == p.op.von.geraet
        a == auftrag[d]
    IN IF ~(a # Niemand /\ a.ort = "wartet" /\ a.neu = p.neu) THEN UNCHANGED auftrag
       ELSE IF was = "200" THEN auftrag' = [auftrag EXCEPT ![d].ort = "ok"]
       ELSE Abgelehnt(d, was)

setze_geraeteliste(p) ==
    /\ p \in posts /\ p.neu.epoche <= EPOCHE_MAX
    /\ posts' = posts \ {p}
    /\ \/ /\ Passt(p) /\ DarfSetzen(p)
          /\ epoche' = p.neu.epoche /\ liste' = p.neu.liste /\ letzte' = p.op
          /\ beitritte' = OhneErledigte(beitritte, p.neu.liste)
          /\ Antwort(p, "200")
       \/ /\ ~(Passt(p) /\ DarfSetzen(p))
          /\ Antwort(p, IF Passt(p) THEN "403" ELSE "409")
          /\ UNCHANGED <<epoche, liste, letzte, beitritte>>
    /\ UNCHANGED <<kennung, stand, mitglied, gemerkt, abruf, auftraege, verluste>>

(* A join request replaces one for the same id, and the newest stay. *)
beantrage_beitritt(e) ==
    LET alle == Append(Ohne(beitritte, {e.id}), e)
        zuviel == Len(alle) - BEITRITTE_JE_ADRESSE
    IN beitritte' = IF zuviel > 0 THEN SubSeq(alle, zuviel + 1, Len(alle)) ELSE alle

(* BEITRITT_TTL: the oldest request goes. *)
BeitrittVerfaellt ==
    /\ beitritte # <<>>
    /\ beitritte' = Tail(beitritte)
    /\ UNCHANGED <<epoche, liste, letzte, posts, app, auftraege, verluste>>

----------------------------------------------------------------------------
(* A device takes a version. *)

(* _nimmListe: never back behind a version it has seen. *)
Neuere(d, f) == IF f.epoche > gemerkt[d].epoche THEN f ELSE gemerkt[d]

(* Deviation: one that never was a member counts as one of epoch 0. *)
WarMitgliedStets(d, L) == L.epoche > mitglied[d]
(* Deviation: the version right after the one it joined by does not count. *)
WarMitgliedSpaeter(d, L) == mitglied[d] > 0 /\ L.epoche > mitglied[d] + 1
(* It was in the list once, and this version is a newer one. *)
WarMitglied(d, L) == mitglied[d] > 0 /\ L.epoche > mitglied[d]

(* _wirdAbgemeldet: the words and the entry of the membership are gone.    *)
WirdAbgemeldet(d) ==
    /\ stand' = [stand EXCEPT ![d] = "abgemeldet"]
    /\ mitglied' = [mitglied EXCEPT ![d] = 0]
WirdMitglied(d, L) ==
    /\ stand' = [stand EXCEPT ![d] = "mitglied"]
    /\ mitglied' = [mitglied EXCEPT ![d] = L.epoche]

Lebt(d) == stand[d] # "abgemeldet"

(* The relay answers a GET; the answer arrives in a later step. *)
holeGeraeteliste(d) ==
    /\ Lebt(d) /\ kennung[d] # 0 /\ abruf[d] = Niemand
    /\ abruf' = [abruf EXCEPT ![d] = Jetzt]
    /\ UNCHANGED <<relay, kennung, stand, mitglied, gemerkt, auftrag, auftraege, verluste>>

(* _ermittleGeraetId: 1 if the relay knows no device of the address, else  *)
(* one that is free there.                                                 *)
ErmitteltKennung(d) ==
    /\ kennung[d] = 0
    /\ \E k \in IF liste = {} THEN {1} ELSE Kennung \ ({1} \cup Kennungen(liste)) :
         kennung' = [kennung EXCEPT ![d] = k]
    /\ UNCHANGED <<relay, stand, mitglied, gemerkt, abruf, auftrag, auftraege, verluste>>

(* The answer is taken: when it connects (_mitRelayMitGeraeten), on a hint *)
(* of the relay (_frischeEigeneListeAuf), or while it waits to be admitted *)
(* (_schaueObAufgenommen).  A version that comes from another device       *)
(* (_nimmListeEndeZuEnde 1018-1036) has no action of its own: what it does *)
(* is what such an answer, with the same version, does.  Nor has a restart *)
(* of the app, which keeps all but `stand`, `abruf` and `auftrag`: they    *)
(* are found anew on connecting, fetched again, and as after GibtAuf.      *)
Kommt(d, wobei) ==
    LET L == Neuere(d, abruf[d]) IN
    /\ Lebt(d) /\ abruf[d] # Niemand
    /\ wobei = "wartet" => stand[d] = "wartet"
    /\ abruf' = [abruf EXCEPT ![d] = Niemand]
    /\ gemerkt' = [gemerkt EXCEPT ![d] = L]
    /\ \/ L.epoche = 0 /\ UNCHANGED <<stand, mitglied>>
       \/ /\ L.epoche > 0 /\ Steht(d, L.liste)
          /\ IF wobei = "frischt" THEN UNCHANGED <<stand, mitglied>> ELSE WirdMitglied(d, L)
       \/ /\ L.epoche > 0 /\ ~Steht(d, L.liste) /\ wobei # "wartet" /\ WarMitglied(d, L)
          /\ WirdAbgemeldet(d)
       \/ /\ L.epoche > 0 /\ ~Steht(d, L.liste) /\ ~(wobei # "wartet" /\ WarMitglied(d, L))
          /\ stand' = [stand EXCEPT ![d] = IF wobei = "verbindet" /\ @ # "wartet"
                                           THEN "draussen" ELSE @]
          /\ UNCHANGED mitglied
    /\ UNCHANGED <<relay, kennung, auftrag, auftraege, verluste>>

(* _sorgeFuerFreieKennung: another id if this one is in the list. *)
FreieKennung(d, L) ==
    IF kennung[d] \in Kennungen(L)
    THEN \E k \in Kennung \ ({1} \cup Kennungen(L)) : kennung' = [kennung EXCEPT ![d] = k]
    ELSE UNCHANGED kennung

(* trittBei: it reads the list and asks some awaits later, when the list   *)
(* may be another one.  The page it is asked on runs one action at a time  *)
(* (geraete_seite 346-390), and the answer is taken at once.               *)
trittBei(d) ==
    LET L == Neuere(d, abruf[d]) IN
    /\ stand[d] \in {"draussen", "wartet"} /\ auftrag[d] = Niemand
    /\ abruf[d] # Niemand /\ L.epoche > 0
    /\ abruf' = [abruf EXCEPT ![d] = Niemand]
    /\ FreieKennung(d, L.liste)
    /\ gemerkt' = [gemerkt EXCEPT ![d] = L]
    /\ LET e == [id |-> kennung'[d], geraet |-> d] IN
       IF e.id \in Kennungen(liste) THEN UNCHANGED <<beitritte, stand>>
       ELSE beantrage_beitritt(e) /\ stand' = [stand EXCEPT ![d] = "wartet"]
    /\ UNCHANGED <<epoche, liste, letzte, posts, mitglied, auftrag, auftraege, verluste>>

brichBeitrittAb(d) ==
    /\ stand[d] = "wartet"
    /\ stand' = [stand EXCEPT ![d] = "draussen"]
    /\ UNCHANGED <<relay, kennung, mitglied, gemerkt, abruf, auftrag, auftraege, verluste>>

----------------------------------------------------------------------------
(* A device changes the list (_veroeffentliche, setzeZurueck, _legeListeAn)*)

Beginnt(d, art, wen) ==
    /\ Lebt(d) /\ kennung[d] # 0 /\ auftrag[d] = Niemand /\ auftraege < AUFTRAEGE_MAX
    /\ CASE art = "anlegen" -> stand[d] = "unbekannt" /\ wen = Ich(d)
         [] art = "zurueck" -> stand[d] \in {"draussen", "wartet"} /\ wen = Ich(d)
         [] art = "nur" -> stand[d] = "mitglied" /\ wen = Ich(d)
         [] art = "ab" -> stand[d] = "mitglied" /\ wen \in gemerkt[d].liste
         [] art = "zu" -> /\ stand[d] = "mitglied" /\ wen \in {beitritte[i] : i \in DOMAIN beitritte}
                          /\ wen.id \notin Kennungen(gemerkt[d].liste)
    /\ stand' = [stand EXCEPT ![d] = IF art = "zurueck" /\ @ = "wartet" THEN "draussen" ELSE @]
    /\ auftrag' = [auftrag EXCEPT ![d] = [art |-> art, wen |-> wen, ort |-> "holt", versuch |-> 0,
                                          neu |-> Leer]]
    /\ auftraege' = auftraege + 1
    /\ UNCHANGED <<relay, kennung, mitglied, gemerkt, abruf, verluste>>

(* The next version, from the newest it knows: the change of the user.     *)
Aendere(d, L) ==
    LET a == auftrag[d] IN
    CASE a.art = "ab" -> {e \in L : e.id # a.wen.id}
      [] a.art = "nur" -> {e \in L : e.id = kennung[d]}
      [] a.art = "zu" -> L \cup {a.wen}
      [] a.art \in {"anlegen", "zurueck"} -> {[id |-> kennung'[d], geraet |-> d]}

(* Deviation: the last device may leave an empty list behind. *)
FormStimmtAuchLeer(d, L, neu) ==
    /\ Cardinality(neu) <= GERAETE_MAX
    /\ auftrag[d].art = "zu" => \A e \in L : /\ e.id # auftrag[d].wen.id
                                              /\ e.geraet # auftrag[d].wen.geraet
(* lies_liste refuses an empty or too long list and a key or id twice.     *)
FormStimmt(d, L, neu) ==
    /\ neu # {} /\ Cardinality(neu) <= GERAETE_MAX
    /\ auftrag[d].art = "zu" => \A e \in L : /\ e.id # auftrag[d].wen.id
                                              /\ e.geraet # auftrag[d].wen.geraet

(* It reads the list, signs the next version and sends it: the POST is     *)
(* under way from here, however long.                                      *)
Unterschreibt(d) ==
    LET a == auftrag[d]
        L == Neuere(d, Jetzt)
    IN
    /\ a # Niemand /\ a.ort = "holt"
    /\ gemerkt' = [gemerkt EXCEPT ![d] = L]
    /\ IF a.art = "zurueck" THEN FreieKennung(d, L.liste) ELSE UNCHANGED kennung
    /\ LET ich == [id |-> kennung'[d], geraet |-> d]
           neu == [epoche |-> L.epoche + 1, liste |-> Aendere(d, L.liste)]
       IN IF /\ Lebt(d) /\ FormStimmt(d, L.liste, neu.liste) /\ L.epoche < EPOCHE_MAX
             /\ IF a.art = "anlegen" THEN L.epoche = 0 ELSE L.epoche > 0
          THEN /\ posts' = posts \cup {[op |-> [art |-> a.art, von |-> ich,
                                                wen |-> IF a.art = "zurueck" THEN ich ELSE a.wen],
                                        neu |-> neu]}
               /\ auftrag' = [auftrag EXCEPT ![d].ort = "wartet", ![d].neu = neu]
          ELSE Verwirft(d) /\ UNCHANGED posts
    /\ UNCHANGED <<epoche, liste, letzte, beitritte, stand, mitglied, abruf, auftraege, verluste>>

(* 200: what it signed is its newest version (_uebernimmEigeneListe), and  *)
(* it is a member, or has left of its own accord.                          *)
Angenommen(d) ==
    LET a == auftrag[d] IN
    /\ a # Niemand /\ a.ort = "ok"
    /\ Verwirft(d)
    /\ IF ~Lebt(d) THEN UNCHANGED <<gemerkt, stand, mitglied>>
       ELSE /\ gemerkt' = [gemerkt EXCEPT ![d] = Neuere(d, a.neu)]
            /\ IF Steht(d, a.neu.liste) THEN WirdMitglied(d, a.neu)
               ELSE IF a.art = "ab" /\ a.wen.id = kennung[d] THEN WirdAbgemeldet(d)
               ELSE UNCHANGED <<stand, mitglied>>
    /\ UNCHANGED <<relay, kennung, abruf, auftraege, verluste>>

(* Deviation: no answer counts as yes. *)
GibtAufUndMerkt(d) ==
    /\ auftrag[d] # Niemand /\ auftrag[d].ort \in {"wartet", "ok"}
    /\ verluste < VERLUSTE_MAX /\ verluste' = verluste + 1
    /\ gemerkt' = [gemerkt EXCEPT ![d] = Neuere(d, auftrag[d].neu)]
    /\ Verwirft(d)
    /\ UNCHANGED <<relay, kennung, stand, mitglied, abruf, auftraege>>
(* The device gives up waiting: the request or the answer is lost, or only *)
(* late (the POST stays under way).                                        *)
GibtAuf(d) ==
    /\ auftrag[d] # Niemand /\ auftrag[d].ort \in {"wartet", "ok"}
    /\ verluste < VERLUSTE_MAX /\ verluste' = verluste + 1
    /\ Verwirft(d)
    /\ UNCHANGED <<relay, kennung, stand, mitglied, gemerkt, abruf, auftraege>>
PostVerloren(p) ==
    /\ p \in posts /\ verluste < VERLUSTE_MAX /\ verluste' = verluste + 1
    /\ posts' = posts \ {p}
    /\ UNCHANGED <<epoche, liste, letzte, beitritte, app, auftraege>>

Next ==
    \/ \E d \in Geraet :
         \/ ErmitteltKennung(d) \/ holeGeraeteliste(d)
         \/ \E wobei \in {"verbindet", "frischt", "wartet"} : Kommt(d, wobei)
         \/ trittBei(d) \/ brichBeitrittAb(d)
         \/ \E art \in {"anlegen", "ab", "nur", "zu", "zurueck"}, wen \in Eintrag : Beginnt(d, art, wen)
         \/ Unterschreibt(d) \/ Angenommen(d) \/ GibtAuf(d)
    \/ \E p \in posts : setze_geraeteliste(p) \/ PostVerloren(p)
    \/ BeitrittVerfaellt

(* A device that misses a hint sees the list when it next connects. *)
Fairness == \A d \in Geraet :
                /\ WF_vars(holeGeraeteliste(d))
                /\ WF_vars(\E wobei \in {"verbindet", "frischt", "wartet"} : Kommt(d, wobei))

Spec == Init /\ [][Next]_vars /\ Fairness

----------------------------------------------------------------------------
(* Properties *)

(* Devices that change the list at the same time, on versions they read    *)
(* earlier, with answers late or lost: each stored version is still one    *)
(* operation on the version before it, by one who may (relay_server        *)
(* 3581-3586).  A device that was thrown out never returns by the change   *)
(* of another that had not seen it go.                                     *)
Versprechen == INSTANCE DeviceListPromise
EineAenderungNachDerAnderen == Versprechen!Spec

(* No two versions of one epoch: an honest relay cannot make the devices   *)
(* report one (geraeteverwaltung 100-101).                                 *)
KeinWiderspruch ==
    \A d \in Geraet :
        /\ gemerkt[d].epoche <= epoche
        /\ gemerkt[d].epoche = epoche => gemerkt[d].liste = liste
        /\ \A c \in Geraet : gemerkt[c].epoche = gemerkt[d].epoche => gemerkt[c] = gemerkt[d]

(* A device erases its words only if it was a member once, and then only   *)
(* after a newer version than the one that made it one, in which it does   *)
(* not stand, or when it learns that the relay took the version by which   *)
(* it left itself: never one that only waits to come in, whatever it reads *)
(* in between.  (Of the second there is no more to say: when the answer    *)
(* comes late, another device may have let it in again, and it goes all    *)
(* the same.)                                                              *)
GingSelbst(d) ==
    LET a == auftrag[d] IN
    /\ a # Niemand /\ a.ort = "ok" /\ a.art = "ab" /\ a.wen.id = kennung[d]
    /\ ~Steht(d, a.neu.liste)
AbgemeldetNurZuRecht ==
    [][\A d \in Geraet :
         (stand[d] # "abgemeldet" /\ stand'[d] = "abgemeldet")
           => /\ 0 < mitglied[d]
              /\ \/ mitglied[d] < gemerkt'[d].epoche /\ ~Steht(d, gemerkt'[d].liste)
                 \/ GingSelbst(d)]_vars

(* No open request is for an id that is in the list. *)
BeitrittNurVonAussen == \A i \in DOMAIN beitritte : beitritte[i].id \notin Kennungen(liste)

(* A device that was thrown out does not go on as a member for ever: it    *)
(* comes to know it, whichever hint it missed, or is in again.             *)
Gelistet(d) == \E e \in liste : e.geraet = d
AbgemeldetErfaehrtEs ==
    \A d \in Geraet :
        (stand[d] = "mitglied" /\ ~Gelistet(d)) ~> (stand[d] # "mitglied" \/ Gelistet(d))

(* geraeteverwaltung 1162-1163: another id is for a device whose id        *)
(* belongs to ANOTHER device in the list; so a listed key is listed under  *)
(* the id its device goes by.                                              *)
EigeneKennungBleibt == \A e \in liste : Lebt(e.geraet) => kennung[e.geraet] = e.id
=============================================================================
