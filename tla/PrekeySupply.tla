---------------------------- MODULE PrekeySupply ----------------------------
(***************************************************************************)
(* The supply of one-time prekeys from the app to the relay and from the   *)
(* relay to the peers (app real_messenger_core.dart: _fuelleVorratAuf,     *)
(* _meldeAnWennNoetig, _meldeAn, _fuelleNachUndMelde).                     *)
(*                                                                         *)
(* An upload REPLACES the relay's supply.  Two uploads of one app can be   *)
(* under way together: a dropped connection does not stop the request that *)
(* prekeys_low started.                                                    *)
(*                                                                         *)
(* The EC keys stand for both kinds of one-time key: every upload carries  *)
(* both, cut by the same rule.  The relay's own side of an upload is       *)
(* PrekeyStore; here it is one step.                                       *)
(***************************************************************************)
EXTENDS Integers, Sequences, FiniteSets

CONSTANTS
    VORRAT,       \* keys of a refill (preKeyVorrat)
    UNTERGRENZE,  \* refill at the start below (preKeyUntergrenze)
    HOECHSTZAHL,  \* keys kept on the device (preKeyHoechstzahl)
    WASSERMARKE,  \* the relay reports its supply below (OTK_LOW_WATERMARK)
    BUENDEL_MAX,  \* keys the relay takes in a bundle (KYBER_OTK_MAX_JE_BUENDEL)
    Anlauf,       \* uploads that may be under way together
    NONCE_FRISCH, \* refills of the app within NONCE_TTL_SECONDS
    SPK_MAX,      \* bound: renewals of the signed prekey
    ZIEH_MAX,     \* bound: keys drawn by peers
    STOERUNG_MAX  \* bound: lost requests and answers, broken lines, crashes,
                  \* and times the relay forgets the device

ASSUME VorratAnnahme == /\ VORRAT \in Nat \ {0} /\ WASSERMARKE \in 1 .. VORRAT
                           /\ UNTERGRENZE \in Nat /\ HOECHSTZAHL \in Nat
                           /\ NONCE_FRISCH \in Nat
                           /\ BUENDEL_MAX \in Nat /\ BUENDEL_MAX <= HOECHSTZAHL
                           /\ UNTERGRENZE + VORRAT <= BUENDEL_MAX
                           /\ IsFiniteSet(Anlauf)
ASSUME VorratSchranken == SPK_MAX \in Nat /\ ZIEH_MAX \in Nat /\ STOERUNG_MAX \in Nat

VARIABLES
    lokal,       \* one-time keys on the device, by id
    hoch,        \* prekey_id_hoch
    spk,         \* the newest signed prekey
    gemeldetBis, \* prekey_gemeldet_bis, Nie: no entry
    vermerk,     \* relay_prekey_count: the signed prekey and the highest
                 \* one-time key noted as registered
    verbindung,  \* the connection attempt or line of the app
    knapp,       \* a prekeys_low not yet handled
    anlauf,      \* the calls of _meldeAn under way
    bekannt,     \* the relay has a row for the device
    pool,        \* the relay's one-time keys
    relaySpk,    \* the relay's signed prekey
    gezogen,     \* keys drawn by peers, in order
    offen,       \* draws whose first message has not arrived
    verbraucht,  \* keys consumed by a first message
    stoerungen,
    neben,       \* history: per request, the most calls under way beside it, itself
                 \* counted; 0: no request under way
    weite        \* history: refills and calls the offered upload had beside it

geraet == <<lokal, hoch, spk>>
meta == <<gemeldetBis, vermerk>>
relay == <<bekannt, pool, relaySpk>>
peers == <<gezogen, offen, verbraucht>>
geschichte == <<neben, weite>>
vorratVars == <<geraet, meta, verbindung, knapp, anlauf, relay, peers, stoerungen, geschichte>>

Nie == -1
OhneVermerk == <<0, 0>>

(* A call of _meldeAn: its request is under way, or accepted by the relay. *)
(* `fuer`: the attempt that waits for it, prekeys_low, or nobody (the      *)
(* attempt was overtaken; its process died).  `bis`: the mark it read.     *)
(* `alter`: refills since its challenge.                                   *)
Frei == [ph |-> "frei", ids |-> {}, spk |-> 0, bis |-> 0, fuer |-> "niemand", alter |-> 0]

Groesste(S) == CHOOSE k \in {0} \cup S : \A l \in S : l <= k

BestandTypeOK ==
    /\ lokal \subseteq 1 .. hoch /\ hoch \in Nat
    /\ spk \in 1 .. SPK_MAX + 1
    /\ gemeldetBis \in {Nie} \cup (0 .. hoch)
    /\ vermerk \in (0 .. spk) \X (0 .. hoch)
    /\ verbindung \in {"getrennt", "meldet", "login", "online"}
    /\ knapp \in BOOLEAN
    /\ anlauf \in [Anlauf ->
         [ph : {"frei", "unterwegs", "angenommen"}, ids : SUBSET (1 .. hoch),
          spk : 0 .. spk, bis : 0 .. hoch, alter : 0 .. NONCE_FRISCH + 1,
          fuer : {"verbinden", "nachschub", "ueberholt", "niemand"}]]
    /\ bekannt \in BOOLEAN /\ pool \subseteq 1 .. hoch /\ relaySpk \in 0 .. spk
    /\ gezogen \in Seq(1 .. hoch) /\ offen \subseteq DOMAIN gezogen
    /\ verbraucht \subseteq 1 .. hoch
    /\ stoerungen \in 0 .. STOERUNG_MAX
GeschichteTypeOK ==
    /\ neben \in [Anlauf -> 0 .. Cardinality(Anlauf)]
    /\ weite \in 0 .. NONCE_FRISCH + Cardinality(Anlauf)
VorratTypeOK == BestandTypeOK /\ GeschichteTypeOK

(* A new app: its first refill, nothing registered. *)
VorratInit ==
    /\ lokal = 1 .. VORRAT /\ hoch = VORRAT /\ spk = 1
    /\ gemeldetBis = Nie /\ vermerk = OhneVermerk
    /\ verbindung = "getrennt" /\ knapp = FALSE
    /\ anlauf = [a \in Anlauf |-> Frei]
    /\ bekannt = FALSE /\ pool = {} /\ relaySpk = 0
    /\ gezogen = <<>> /\ offen = {} /\ verbraucht = {}
    /\ stoerungen = 0
    /\ neben = [a \in Anlauf |-> 0] /\ weite = 0

Stoerung == stoerungen < STOERUNG_MAX /\ stoerungen' = stoerungen + 1
Setze(a, anruf) == anlauf' = [anlauf EXCEPT ![a] = anruf]

----------------------------------------------------------------------------
(* The supply on the device. *)

(* Deviation: only the newest set stays. *)
NurNeuesterSatz(L) == {k \in L : Cardinality({l \in L : l > k}) < VORRAT}

(* The oldest go first. *)
OhneAlte(L) == {k \in L : Cardinality({l \in L : l > k}) < HOECHSTZAHL}

(* Deviation: the high-water mark is not written. *)
AufgefuelltOhneMarke(g, frisch, faellig) ==
    LET neu == IF frisch \/ Cardinality(g.lokal) < UNTERGRENZE THEN VORRAT ELSE 0
        ab == Groesste({g.hoch} \cup g.lokal)
    IN [lokal |-> OhneAlte(g.lokal \cup (ab + 1 .. ab + neu)),
        hoch |-> g.hoch,
        spk |-> IF faellig THEN g.spk + 1 ELSE g.spk]

(* _fuelleVorratAuf: a new set on demand (`frisch`) or below the limit,    *)
(* the signed prekey renewed if it is due.                                 *)
Aufgefuellt(g, frisch, faellig) ==
    LET neu == IF frisch \/ Cardinality(g.lokal) < UNTERGRENZE THEN VORRAT ELSE 0
        ab == Groesste({g.hoch} \cup g.lokal)
    IN [lokal |-> OhneAlte(g.lokal \cup (ab + 1 .. ab + neu)),
        hoch |-> IF neu = 0 THEN g.hoch ELSE ab + neu,
        spk |-> IF faellig THEN g.spk + 1 ELSE g.spk]

Bestand == [lokal |-> lokal, hoch |-> hoch, spk |-> spk]
WirdBestand(g) == lokal' = g.lokal /\ hoch' = g.hoch /\ spk' = g.spk
Faellig == IF spk <= SPK_MAX THEN BOOLEAN ELSE {FALSE}

(* _buendelStand *)
Stand(g) == <<g.spk, Groesste(g.lokal)>>

----------------------------------------------------------------------------
(* _meldeAn up to its request. *)

(* Deviation: always the full supply, as before 2.0.0. *)
AllesNeue(g) == g.lokal

(* Keys the relay never had, as far as the app's mark knows. *)
Neue(g) == IF gemeldetBis = Nie THEN g.lokal ELSE {k \in g.lokal : k > gemeldetBis}

(* The nonce of a request is good for NONCE_TTL_SECONDS. *)
Gilt(a) == anlauf[a].alter <= NONCE_FRISCH

(* The calls after a refill. *)
Gealtert ==
    [a \in Anlauf |-> IF anlauf[a].ph = "unterwegs" /\ Gilt(a)
                        THEN [anlauf[a] EXCEPT !.alter = @ + 1] ELSE anlauf[a]]

(* The calls of the app that have not ended. *)
Belegt == {a \in Anlauf : anlauf[a].ph # "frei"}

(* A request begins: every request under way has one call more beside it. *)
Gezaehlt(a) ==
    [b \in Anlauf |->
       IF (b = a \/ anlauf[b].ph = "unterwegs") /\ neben[b] <= Cardinality(Belegt)
         THEN Cardinality(Belegt) + 1 ELSE neben[b]]

(* `anrufe`: the other calls, aged if this one brings a refill. *)
MeldeAn(a, g, anrufe, faellig, fuer) ==
    LET leer == gemeldetBis # Nie /\ Neue(g) = {}
        mit == IF leer THEN Aufgefuellt(g, TRUE, faellig) ELSE g
    IN
    /\ anlauf[a].ph = "frei"
    /\ anlauf' = [IF leer THEN Gealtert ELSE anrufe EXCEPT ![a] =
         [ph |-> "unterwegs", ids |-> Neue(mit), spk |-> mit.spk,
          bis |-> IF gemeldetBis = Nie THEN 0 ELSE gemeldetBis, fuer |-> fuer, alter |-> 0]]
    /\ WirdBestand(mit)
    /\ neben' = Gezaehlt(a) /\ UNCHANGED weite

(* connect: register first if the note does not match ... *)
Verbinde ==
    /\ verbindung = "getrennt"
    /\ vermerk # Stand(Bestand)
    /\ \E a \in Anlauf, f \in Faellig : MeldeAn(a, Bestand, anlauf, f, "verbinden")
    /\ verbindung' = "meldet"
    /\ UNCHANGED <<meta, knapp, relay, peers, stoerungen>>

(* ... and go on to the line at once if it does. *)
VerbindeOhneAnmeldung ==
    /\ verbindung = "getrennt"
    /\ vermerk = Stand(Bestand)
    /\ verbindung' = "login"
    /\ UNCHANGED <<geraet, meta, knapp, anlauf, relay, peers, stoerungen, geschichte>>

(* Deviation: _vergissAnmeldung forgets the note, not the mark. *)
LoginOhneVergessen ==
    /\ verbindung = "login"
    /\ IF bekannt
         THEN /\ verbindung' = "online" /\ knapp' = (Cardinality(pool) < WASSERMARKE)
              /\ UNCHANGED meta
         ELSE /\ verbindung' = "getrennt"
              /\ UNCHANGED <<meta, knapp>>
    /\ UNCHANGED <<geraet, anlauf, relay, peers, stoerungen, geschichte>>

(* The line: the relay knows the device and reports a low supply, or it    *)
(* does not (RelayUnbekannt) and the app forgets its registration.         *)
Login ==
    /\ verbindung = "login"
    /\ IF bekannt
         THEN /\ verbindung' = "online" /\ knapp' = (Cardinality(pool) < WASSERMARKE)
              /\ UNCHANGED meta
         ELSE /\ verbindung' = "getrennt" /\ gemeldetBis' = Nie /\ vermerk' = OhneVermerk
              /\ UNCHANGED knapp
    /\ UNCHANGED <<geraet, anlauf, relay, peers, stoerungen, geschichte>>

(* _fuelleNachUndMelde: always a new set. *)
FuelleNachUndMelde ==
    /\ verbindung = "online" /\ knapp
    /\ knapp' = FALSE
    /\ \E a \in Anlauf, f \in Faellig :
         MeldeAn(a, Aufgefuellt(Bestand, TRUE, f), Gealtert, FALSE, "nachschub")
    /\ UNCHANGED <<meta, verbindung, relay, peers, stoerungen>>

----------------------------------------------------------------------------
(* The request at the relay, and its end in the app. *)

RelayNimmt(a) ==
    /\ anlauf[a].ph = "unterwegs"
    /\ Gilt(a) /\ Cardinality(anlauf[a].ids) <= BUENDEL_MAX
    /\ Setze(a, [anlauf[a] EXCEPT !.ph = "angenommen"])
    /\ bekannt' = TRUE /\ pool' = anlauf[a].ids /\ relaySpk' = anlauf[a].spk
    /\ weite' = anlauf[a].alter + neben[a] /\ neben' = [neben EXCEPT ![a] = 0]
    /\ UNCHANGED <<geraet, meta, verbindung, knapp, peers, stoerungen>>

(* A bundle with too many keys (422) or with an old nonce is refused, and  *)
(* _meldeAn throws.                                                        *)
RelayLehntAb(a) ==
    /\ anlauf[a].ph = "unterwegs"
    /\ ~Gilt(a) \/ Cardinality(anlauf[a].ids) > BUENDEL_MAX
    /\ Setze(a, Frei)
    /\ verbindung' = IF anlauf[a].fuer = "verbinden" THEN "getrennt" ELSE verbindung
    /\ neben' = [neben EXCEPT ![a] = 0]
    /\ UNCHANGED <<geraet, meta, knapp, relay, peers, stoerungen, weite>>

(* The rest of _meldeAn: the mark and the note are taken from the store as *)
(* it is NOW.  An overtaken attempt does the same and stops there.         *)
AntwortKommt(a) ==
    /\ anlauf[a].ph = "angenommen" /\ anlauf[a].fuer # "niemand"
    /\ gemeldetBis' = Groesste({anlauf[a].bis} \cup lokal)
    /\ vermerk' = Stand(Bestand)
    /\ verbindung' = IF anlauf[a].fuer = "verbinden" THEN "login" ELSE verbindung
    /\ Setze(a, Frei)
    /\ UNCHANGED <<geraet, knapp, relay, peers, stoerungen, geschichte>>

(* The request is refused or lost, or the answer is: _meldeAn throws, and  *)
(* an attempt to connect ends.                                             *)
Scheitert(a) ==
    /\ anlauf[a].ph # "frei" /\ anlauf[a].fuer # "niemand"
    /\ Stoerung
    /\ Setze(a, IF anlauf[a].ph = "unterwegs" THEN [anlauf[a] EXCEPT !.fuer = "niemand"] ELSE Frei)
    /\ verbindung' = IF anlauf[a].fuer = "verbinden" THEN "getrennt" ELSE verbindung
    /\ UNCHANGED <<geraet, meta, knapp, relay, peers, geschichte>>

(* A request nobody waits for is lost or done with. *)
Verhallt(a) ==
    /\ anlauf[a].ph # "frei" /\ anlauf[a].fuer = "niemand"
    /\ Setze(a, Frei) /\ neben' = [neben EXCEPT ![a] = 0]
    /\ UNCHANGED <<geraet, meta, verbindung, knapp, relay, peers, stoerungen, weite>>

----------------------------------------------------------------------------
(* Disturbances. *)

(* Nothing under way, nothing left to do. *)
Ruhig == (\A a \in Anlauf : anlauf[a] = Frei) /\ verbindung = "online" /\ ~knapp

(* The line or the attempt ends; requests under way go on.  The end of a   *)
(* quiet line is everyday and needs no bound.                              *)
Abriss ==
    /\ verbindung # "getrennt"
    /\ IF Ruhig THEN UNCHANGED stoerungen ELSE Stoerung
    /\ verbindung' = "getrennt" /\ knapp' = FALSE
    /\ anlauf' = [a \in Anlauf |-> IF anlauf[a].fuer = "verbinden"
                                     THEN [anlauf[a] EXCEPT !.fuer = "ueberholt"] ELSE anlauf[a]]
    /\ UNCHANGED <<geraet, meta, relay, peers, geschichte>>

(* The app dies and starts again: the start refills below the limit. *)
Absturz ==
    /\ Stoerung
    /\ verbindung' = "getrennt" /\ knapp' = FALSE
    /\ anlauf' = [a \in Anlauf |-> IF anlauf[a].ph = "unterwegs"
                                     THEN [anlauf[a] EXCEPT !.fuer = "niemand"] ELSE Frei]
    /\ \E f \in Faellig : WirdBestand(Aufgefuellt(Bestand, FALSE, f))
    /\ UNCHANGED <<meta, relay, peers, geschichte>>

(* The row goes: eviction, or the janitor. *)
RelayVergisst ==
    /\ bekannt
    /\ Stoerung
    /\ bekannt' = FALSE /\ pool' = {} /\ relaySpk' = 0
    /\ UNCHANGED <<geraet, meta, verbindung, knapp, anlauf, peers, geschichte>>

----------------------------------------------------------------------------
(* The peers. *)

(* The table gives the smallest id first: without an ORDER BY, SQLite      *)
(* walks the index of the primary key.                                     *)
Kleinste == {k \in pool : \A l \in pool : k <= l}

PeerZieht ==
    /\ Len(gezogen) < ZIEH_MAX
    /\ \E k \in Kleinste :
         /\ pool' = pool \ {k}
         /\ gezogen' = Append(gezogen, k)
    /\ offen' = offen \cup {Len(gezogen')}
    /\ UNCHANGED <<geraet, meta, verbindung, knapp, anlauf, bekannt, relaySpk, verbraucht,
                   stoerungen, geschichte>>

(* A first message arrives and consumes its key, if it is still there. *)
Erstnachricht ==
    /\ \E n \in offen :
         /\ offen' = offen \ {n}
         /\ lokal' = lokal \ {gezogen[n]}
         /\ verbraucht' = verbraucht \cup ({gezogen[n]} \cap lokal)
    /\ UNCHANGED <<hoch, spk, meta, verbindung, knapp, anlauf, relay, gezogen, stoerungen, geschichte>>

----------------------------------------------------------------------------
VorratNext ==
    \/ Verbinde \/ VerbindeOhneAnmeldung \/ Login \/ FuelleNachUndMelde
    \/ \E a \in Anlauf : RelayNimmt(a) \/ RelayLehntAb(a) \/ AntwortKommt(a) \/ Scheitert(a) \/ Verhallt(a)
    \/ Abriss \/ Absturz \/ RelayVergisst
    \/ PeerZieht \/ Erstnachricht

(* The app tries to connect again (its timer), handles what the relay      *)
(* reports, and the network delivers what it does not lose.                *)
Fairness ==
    /\ WF_vorratVars(Verbinde) /\ WF_vorratVars(VerbindeOhneAnmeldung) /\ WF_vorratVars(Login)
    /\ WF_vorratVars(FuelleNachUndMelde)
    /\ \A a \in Anlauf : /\ WF_vorratVars(RelayNimmt(a)) /\ WF_vorratVars(RelayLehntAb(a))
                         /\ WF_vorratVars(AntwortKommt(a)) /\ WF_vorratVars(Verhallt(a))

VorratSpec == VorratInit /\ [][VorratNext]_vorratVars
VorratLiveSpec == VorratSpec /\ Fairness

----------------------------------------------------------------------------
(* Properties. *)

(* "Lokal muss er aber bleiben" (159): whatever the relay may still hand   *)
(* out, the device has, or a first message has used it.                    *)
AngebotDa == pool \subseteq lokal \cup verbraucht

(* No trimming and no replacing of the supply reaches a key that is still  *)
(* offered, as long as the device keeps a bundle and one refill for every  *)
(* refill and every call the offered upload had beside it on its way, its  *)
(* own call counted.  Beyond that the oldest keys do not "go first"        *)
(* harmlessly: with the Kyber numbers (100 kept, bundles of 50, refills of *)
(* 40) an upload with one other call beside it may leave the relay with    *)
(* keys the device has already trimmed.                                    *)
ImmerEinloesbar == BUENDEL_MAX + VORRAT * weite <= HOECHSTZAHL => AngebotDa

(* As long as nothing goes wrong on the way, no key is handed out twice:   *)
(* "ein Einmalschluessel, den der Relay schon einmal hatte, geht nie       *)
(* wieder hin" (156-158) holds no further than that, for an upload whose   *)
(* answer is lost is repeated.                                             *)
OhneStoerungEinmal ==
    stoerungen = 0 => \A i, j \in DOMAIN gezogen : gezogen[i] = gezogen[j] => i = j

(* "der naechste Versuch (Wiederverbindung) meldet sich dann in            *)
(* [_meldeAnWennNoetig] neu an" (1101-1105): an app whose relay has        *)
(* forgotten it registers again.                                           *)
VergessenMeldetNeuAn ==
    (gemeldetBis = Nie /\ ~bekannt /\ stoerungen = STOERUNG_MAX) ~> bekannt

(* Once nothing disturbs any more, connecting again repairs the supply,    *)
(* whatever was lost, overtaken or forgotten before.  The one exception is *)
(* the refusal VergessenMeldetNeuAn is about.                              *)
ZuVielFuerDenRelay == gemeldetBis = Nie /\ Cardinality(lokal) > BUENDEL_MAX
VorratKommtWieder ==
    (verbindung = "getrennt" /\ stoerungen = STOERUNG_MAX)
        ~> \/ verbindung = "online" /\ bekannt /\ Cardinality(pool) >= WASSERMARKE
           \/ ZuVielFuerDenRelay
=============================================================================
