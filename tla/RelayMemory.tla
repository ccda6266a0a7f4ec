---------------------------- MODULE RelayMemory -----------------------------
(***************************************************************************)
(* The two tables the relay keeps in memory (relay_server.py): open nonces *)
(* (_nonces) and rate buckets (_buckets), with what threads of the HTTP    *)
(* pool do to them in /register/challenge and /register.  One short lock   *)
(* (_speichersperre) guards both, so a step of the model is one stretch    *)
(* under that lock; any other thread may come between two of them.  The    *)
(* new-address part of /register also stands under schreibsperre.          *)
(*                                                                         *)
(* One tick of `zeit` is one second of time.monotonic().  verify_signature *)
(* is "the client signed this candidate".  What register() stores besides  *)
(* the row of the pair is the matter of DeviceLines and PrekeyStore.       *)
(***************************************************************************)
EXTENDS Integers, FiniteSets, Sequences

CONSTANTS
    Faden,                 \* threads of the pool
    Paar,                  \* [adresse, geraet]: who registers
    Quelle,                \* [onion, anschluss, netz]: where a request comes from
    Absender,              \* accounts whose other calls are limited by account
    Niemand,               \* no thread; no circuit
    NONCE_TTL_SECONDS, NONCE_PLAETZE, NONCE_HERKUENFTE,
    SPEICHER_MAX, AUFRAEUM_TAKT, AUFRAEUM_AB,
    MARKE,                 \* one token, in the unit of the refills below
    RATE_CAPACITY, RATE_REFILL, REG_KOSTEN, MSG_CAPACITY, MSG_REFILL,
    NEUE_ADRESSEN_JE_TAG, NEUE_ADRESSEN_ONION_JE_TAG,
    NEU_REFILL, NEU_ONION_REFILL,   \* each a day's capacity over a day
    ZEIT_MAX, AUSGABE_MAX  \* bounds: the clock, nonces ever issued

ASSUME ZahlenAssumption ==
    /\ \A z \in {NONCE_TTL_SECONDS, NONCE_PLAETZE, NONCE_HERKUENFTE, AUFRAEUM_TAKT,
                 MARKE, RATE_REFILL, MSG_REFILL, NEU_REFILL, NEU_ONION_REFILL} : z \in Nat \ {0}
    /\ \A z \in {SPEICHER_MAX, AUFRAEUM_AB, RATE_CAPACITY, REG_KOSTEN, MSG_CAPACITY,
                 NEUE_ADRESSEN_JE_TAG, NEUE_ADRESSEN_ONION_JE_TAG,
                 ZEIT_MAX, AUSGABE_MAX} : z \in Nat
ASSUME MengenAssumption ==
    /\ IsFiniteSet(Quelle) /\ IsFiniteSet(Absender)
    /\ \A q \in Quelle : q.onion \in BOOLEAN
    /\ \A q \in Quelle : q.onion => q.anschluss # "onion"  \* "kreis:<n>" (tor_kreis)
    /\ Niemand \notin Faden

VARIABLES
    zeit,       \* time.monotonic()
    eimer,      \* _buckets: key -> (marken, zuletzt, voll_ab), or Fehlt
    geraeumt,   \* _zuletzt_geraeumt
    nonces,     \* _nonces: one record for each entry, `nr` in order of issue
    nonceZahl,  \* _nonce_zahl
    naechste,   \* the next nonce (secrets.token_bytes never repeats)
    faden,      \* per thread: its next step and local variables
    sperre,     \* who holds schreibsperre
    zeilen,     \* identities: the pairs with a row
    einlass,    \* history: nonce -> how often it let a request in
    angelegt    \* history: bucket -> new addresses it paid for

speicher == <<eimer, geraeumt, nonces, nonceZahl>>
vars == <<zeit, speicher, naechste, faden, sperre, zeilen, einlass, angelegt>>

----------------------------------------------------------------------------
(* Who a request is counted as.                                            *)

(* limit_schluessel: IPv6 by /64, the onion service by circuit (`anschluss`*)
(* of an onion source is its circuit), None if tor names none.             *)
limit_schluessel(q) == IF q.onion THEN q.anschluss ELSE <<q.anschluss, q.netz>>
(* The same by /48: the whole line of a customer. *)
limit_schluessel48(q) == q.anschluss
nonce_herkunft(q) ==
    IF limit_schluessel48(q) = Niemand THEN "onion" ELSE limit_schluessel48(q)

(* The buckets: one for each family and key.                               *)
NeuOnion == <<"neu", "onion">>
eimer_neuer_adressen(q) ==
    (IF limit_schluessel48(q) = Niemand THEN <<>> ELSE <<<<"neu", limit_schluessel48(q)>>>>)
    \o (IF q.onion THEN <<NeuOnion>> ELSE <<>>)
NeuEimer == {<<"neu", limit_schluessel48(q)>> : q \in {r \in Quelle : r.anschluss # Niemand}}
            \cup (IF \E q \in Quelle : q.onion THEN {NeuOnion} ELSE {})
Eimer == NeuEimer
         \cup {<<"msg", a>> : a \in Absender}
         \cup {<<f, limit_schluessel(q)>> : f \in {"chal", "reg"},
                                            q \in {r \in Quelle : limit_schluessel(r) # Niemand}}

Fassung == [k \in Eimer |-> CASE k[1] = "msg" -> MSG_CAPACITY
                               [] k = NeuOnion -> NEUE_ADRESSEN_ONION_JE_TAG
                               [] k[1] = "neu" /\ k # NeuOnion -> NEUE_ADRESSEN_JE_TAG
                               [] k[1] \in {"chal", "reg"} -> RATE_CAPACITY]
Nachfuellung == [k \in Eimer |-> CASE k[1] = "msg" -> MSG_REFILL
                                    [] k = NeuOnion -> NEU_ONION_REFILL
                                    [] k[1] = "neu" /\ k # NeuOnion -> NEU_REFILL
                                    [] k[1] \in {"chal", "reg"} -> RATE_REFILL]
Kosten == {MARKE, REG_KOSTEN}

----------------------------------------------------------------------------
(* The tables.                                                             *)
Fehlt == [marken |-> 0, zuletzt |-> 0, voll_ab |-> -1]
Eintrag == [marken : Nat, zuletzt : Nat, voll_ab : Nat]
Nonce == [paar : Paar, nr : 1 .. AUSGABE_MAX, ablauf : Nat, herkunft : {nonce_herkunft(q) : q \in Quelle}]

Kleiner(a, b) == IF a < b THEN a ELSE b
Da(E) == {k \in Eimer : E[k] # Fehlt}
Offene(N, p, jetzt) == {e \in N : e.paar = p /\ e.ablauf > jetzt}
Von(N, h) == {e \in N : e.herkunft = h}
Aeltestes(N) == CHOOSE e \in N : \A f \in N : e.nr <= f.nr

(* When a bucket with m tokens is full again. *)
VollAb(k, m) == zeit + ((Fassung[k] - m + Nachfuellung[k] - 1) \div Nachfuellung[k])
Gefuellt(k, m) == [marken |-> m, zuletzt |-> zeit, voll_ab |-> VollAb(k, m)]
(* What is in a bucket now. *)
Stand(k, e) == IF e = Fehlt THEN Fassung[k]
               ELSE Kleiner(Fassung[k], e.marken + (zeit - e.zuletzt) * Nachfuellung[k])

Ort == {"frei", "platz", "ausgeben", "offen", "verbrauchen", "sperre", "neu", "speichern", "erstatten"}
UnterSperre == {"neu", "speichern", "erstatten"}
Frei == [ort |-> "frei"]
Arbeit == [ort : Ort \ {"frei"}, paar : Paar, quelle : Quelle, nr : 0 .. AUSGABE_MAX,
           seit : Nat, genommen : SUBSET NeuEimer, vorher : [NeuEimer -> Nat]]

TypeOK ==
    /\ zeit \in 0 .. ZEIT_MAX /\ geraeumt \in 0 .. zeit
    /\ eimer \in [Eimer -> Eintrag \cup {Fehlt}]
    /\ nonces \subseteq Nonce /\ nonceZahl \in Nat
    /\ naechste \in 1 .. AUSGABE_MAX + 1
    /\ faden \in [Faden -> Arbeit \cup {Frei}]
    /\ sperre \in Faden \cup {Niemand}
    /\ zeilen \subseteq Paar
    /\ einlass \in [1 .. AUSGABE_MAX -> Nat]
    /\ angelegt \in [NeuEimer -> Nat]

Init ==
    /\ zeit = 0 /\ geraeumt = 0
    /\ eimer = [k \in Eimer |-> Fehlt]
    /\ nonces = {} /\ nonceZahl = 0 /\ naechste = 1
    /\ faden = [t \in Faden |-> Frei]
    /\ sperre = Niemand /\ zeilen = {}
    /\ einlass = [n \in 1 .. AUSGABE_MAX |-> 0]
    /\ angelegt = [k \in NeuEimer |-> 0]

----------------------------------------------------------------------------
(* _raeume_speicher_auf: expired nonces and full buckets go, nonces are    *)
(* counted anew.  It runs at the start of most stretches, if it is due     *)
(* (_vielleicht_aufraeumen); the `Nach` values are what it leaves.         *)

(* Deviation: every bucket is swept a second after its last use. *)
EimerGeraeumtZuFrueh(E) ==
    [k \in Eimer |-> IF E[k] # Fehlt /\ E[k].zuletzt + 1 <= zeit THEN Fehlt ELSE E[k]]
EimerGeraeumt(E) == [k \in Eimer |-> IF E[k] # Fehlt /\ E[k].voll_ab <= zeit THEN Fehlt ELSE E[k]]
NoncesGeraeumt(N) == {e \in N : e.ablauf > zeit}

Faellig == \/ zeit - geraeumt >= AUFRAEUM_TAKT
           \/ /\ zeit - geraeumt >= 1
              /\ Cardinality(Da(eimer)) >= AUFRAEUM_AB \/ nonceZahl >= AUFRAEUM_AB

EimerNach == IF Faellig THEN EimerGeraeumt(eimer) ELSE eimer
NoncesNach == IF Faellig THEN NoncesGeraeumt(nonces) ELSE nonces
ZahlNach == IF Faellig THEN Cardinality(NoncesGeraeumt(nonces)) ELSE nonceZahl
GeraeumtNach == IF Faellig THEN zeit ELSE geraeumt

(* Deviation: a new bucket is always made. *)
AmDachNie(k) == FALSE
(* _take: at the roof there is no new bucket, and the attempt fails.  The  *)
(* attempt refills the bucket even if it takes nothing.                    *)
AmDach(k) == EimerNach[k] = Fehlt /\ Cardinality(Da(EimerNach)) >= SPEICHER_MAX
Reicht(k, c) == ~AmDach(k) /\ Stand(k, EimerNach[k]) >= c
nimm(k, c) ==
    /\ eimer' = IF AmDach(k) THEN EimerNach
                ELSE [EimerNach EXCEPT ![k] =
                        Gefuellt(k, Stand(k, @) - (IF Reicht(k, c) THEN c ELSE 0))]
    /\ nonces' = NoncesNach /\ nonceZahl' = ZahlNach /\ geraeumt' = GeraeumtNach

(* _gib_zurueck: a bucket that was swept was full; never above capacity.   *)
gib_zurueck(k, c) ==
    /\ eimer' = IF eimer[k] = Fehlt THEN eimer
                ELSE [eimer EXCEPT ![k] =
                        Gefuellt(k, Kleiner(Fassung[k], @.marken + (zeit - @.zuletzt) * Nachfuellung[k] + c))]
    /\ UNCHANGED <<geraeumt, nonces, nonceZahl>>

(* herkunft_ok: through tor without a circuit there is no limit by origin. *)
herkunft_ok(f, q, c, ok) ==
    LET k == <<f, limit_schluessel(q)>> IN
    IF limit_schluessel(q) = Niemand THEN ok = TRUE /\ UNCHANGED speicher
    ELSE ok = Reicht(k, c) /\ nimm(k, c)

Weiter(t, ort) == faden' = [faden EXCEPT ![t].ort = ort]
Ende(t) == faden' = [faden EXCEPT ![t] = Frei]
Beginnt(t, p, q, ort, seit) ==
    faden' = [faden EXCEPT ![t] = [ort |-> ort, paar |-> p, quelle |-> q, nr |-> 0, seit |-> seit,
                                   genommen |-> {}, vorher |-> [k \in NeuEimer |-> 0]]]

----------------------------------------------------------------------------
(* /register/challenge *)

ChallengeBeginnt(t, p, q) ==
    /\ faden[t].ort = "frei"
    /\ \E ok \in BOOLEAN :
         /\ herkunft_ok("chal", q, MARKE, ok)
         /\ IF ok THEN Beginnt(t, p, q, "platz", 0) ELSE UNCHANGED faden
    /\ UNCHANGED <<zeit, naechste, sperre, zeilen, einlass, angelegt>>

(* speicher_hat_platz: at the roof it sweeps once more. *)
speicher_hat_platz(t) ==
    LET voll(E, z) == Cardinality(Da(E)) >= SPEICHER_MAX \/ z >= SPEICHER_MAX
        E == EimerGeraeumt(eimer)
        N == NoncesGeraeumt(nonces)
    IN
    /\ faden[t].ort = "platz"
    /\ IF ~voll(EimerNach, ZahlNach)
       THEN /\ eimer' = EimerNach /\ nonces' = NoncesNach
            /\ nonceZahl' = ZahlNach /\ geraeumt' = GeraeumtNach
            /\ Weiter(t, "ausgeben")
       ELSE /\ eimer' = E /\ nonces' = N /\ nonceZahl' = Cardinality(N) /\ geraeumt' = zeit
            /\ IF voll(E, Cardinality(N)) THEN Ende(t) ELSE Weiter(t, "ausgeben")
    /\ UNCHANGED <<zeit, naechste, sperre, zeilen, einlass, angelegt>>

(* Deviation: the places belong to the pair, not to an origin. *)
WeichtImPaar(offen, h) ==
    IF Cardinality(offen) >= NONCE_PLAETZE THEN {Aeltestes(offen)} ELSE {}

(* Which entry makes room for a new one: the oldest of this origin if it   *)
(* has all its places, else the oldest of all if the pair is at its roof.  *)
Weicht(offen, h) ==
    IF Cardinality(Von(offen, h)) >= NONCE_PLAETZE THEN {Aeltestes(Von(offen, h))}
    ELSE IF Cardinality(offen) >= NONCE_PLAETZE * NONCE_HERKUENFTE THEN {Aeltestes(offen)}
    ELSE {}

ZahlMitNeuer(zahl, weicht) == zahl - Cardinality(weicht) + 1

issue_nonce(t) ==
    LET p == faden[t].paar
        h == nonce_herkunft(faden[t].quelle)
        offen == Offene(NoncesNach, p, zeit)
        rest == {e \in NoncesNach : e.paar # p} \cup offen
        zahl == ZahlNach - (Cardinality(NoncesNach) - Cardinality(rest))
        weicht == Weicht(offen, h)
        neu == [paar |-> p, nr |-> naechste, ablauf |-> zeit + NONCE_TTL_SECONDS, herkunft |-> h]
    IN
    /\ faden[t].ort = "ausgeben" /\ naechste <= AUSGABE_MAX
    /\ eimer' = EimerNach /\ geraeumt' = GeraeumtNach
    /\ IF weicht = {} /\ zahl >= SPEICHER_MAX
       THEN nonces' = rest /\ nonceZahl' = zahl /\ UNCHANGED naechste
       ELSE /\ nonces' = (rest \ weicht) \cup {neu}
            /\ nonceZahl' = ZahlMitNeuer(zahl, weicht)
            /\ naechste' = naechste + 1
    /\ Ende(t)
    /\ UNCHANGED <<zeit, sperre, zeilen, einlass, angelegt>>

----------------------------------------------------------------------------
(* /register *)

RegisterBeginnt(t, p, q) ==
    /\ faden[t].ort = "frei"
    /\ \E ok \in BOOLEAN :
         /\ herkunft_ok("reg", q, REG_KOSTEN, ok)
         /\ IF ok THEN Beginnt(t, p, q, "offen", zeit) ELSE UNCHANGED faden
    /\ UNCHANGED <<zeit, naechste, sperre, zeilen, einlass, angelegt>>

(* Any early return: a malformed bundle, a signature that fits no          *)
(* candidate, a list or roof that refuses.  Nothing but the nonce is gone. *)
Abgewiesen(t) ==
    /\ faden[t].ort \in {"offen", "sperre"} /\ Ende(t)
    /\ UNCHANGED <<zeit, speicher, naechste, sperre, zeilen, einlass, angelegt>>

(* offene_nonces and the signature checks: the clock is read before the    *)
(* lock, so it may be as old as the thread's last step.  The nonce stays.  *)
offene_nonces(t) ==
    /\ faden[t].ort = "offen"
    /\ \E jetzt \in faden[t].seit .. zeit :
         \E e \in Offene(nonces, faden[t].paar, jetzt) :
           faden' = [faden EXCEPT ![t].ort = "verbrauchen", ![t].nr = e.nr, ![t].seit = zeit]
    /\ UNCHANGED <<zeit, speicher, naechste, sperre, zeilen, einlass, angelegt>>

(* Deviation: the nonce is checked but not taken out. *)
verbrauche_nonceBleibt(t) ==
    /\ faden[t].ort = "verbrauchen"
    /\ Beginnt(t, faden[t].paar, faden[t].quelle, "sperre", 0)
    /\ einlass' = [einlass EXCEPT ![faden[t].nr] = @ + 1]
    /\ UNCHANGED <<zeit, speicher, naechste, sperre, zeilen, angelegt>>
(* verbrauche_nonce takes out exactly this nonce, if it is still there.    *)
verbrauche_nonce(t) ==
    LET treffer == {e \in nonces : e.paar = faden[t].paar /\ e.nr = faden[t].nr} IN
    /\ faden[t].ort = "verbrauchen"
    /\ nonces' = nonces \ treffer
    /\ nonceZahl' = nonceZahl - Cardinality(treffer)
    /\ \E jetzt \in faden[t].seit .. zeit :
         IF \E e \in treffer : e.ablauf > jetzt
         THEN /\ Beginnt(t, faden[t].paar, faden[t].quelle, "sperre", 0)
              /\ einlass' = [einlass EXCEPT ![faden[t].nr] = @ + 1]
         ELSE Ende(t) /\ UNCHANGED einlass
    /\ UNCHANGED <<zeit, eimer, geraeumt, naechste, sperre, zeilen, angelegt>>

(* schreibsperre: only a pair whose ADDRESS has no row yet pays for it. *)
NimmtSperre(t) ==
    LET neu == \A p \in zeilen : p.adresse # faden[t].paar.adresse IN
    /\ faden[t].ort = "sperre" /\ sperre = Niemand
    /\ sperre' = t
    /\ faden' = [faden EXCEPT ![t].ort = IF neu THEN "neu" ELSE "speichern",
                              ![t].vorher = [k \in NeuEimer |-> Stand(k, eimer[k])]]
    /\ UNCHANGED <<zeit, speicher, naechste, zeilen, einlass, angelegt>>

Laesst(t) == sperre' = Niemand /\ Ende(t)

(* What a refused attempt has to give back. *)
(* Deviation: the tokens of all its buckets, though the last gave none. *)
GeschuldetAlle(t) == {k \in NeuEimer : \E i \in DOMAIN eimer_neuer_adressen(faden[t].quelle) :
                                         k = eimer_neuer_adressen(faden[t].quelle)[i]}
(* Deviation: nothing. *)
GeschuldetNichts(t) == {}
Geschuldet(t) == faden[t].genommen

(* neue_adresse_ok takes a token from each of its buckets or, giving back  *)
(* what it has, from none.                                                 *)
neue_adresse_ok(t) ==
    LET reihe == eimer_neuer_adressen(faden[t].quelle)
        i == Cardinality(faden[t].genommen) + 1
    IN
    /\ faden[t].ort = "neu"
    /\ IF i > Len(reihe) THEN Weiter(t, "speichern") /\ UNCHANGED <<speicher, sperre>>
       ELSE /\ nimm(reihe[i], MARKE)
            /\ UNCHANGED sperre
            /\ IF Reicht(reihe[i], MARKE)
               THEN faden' = [faden EXCEPT ![t].genommen = @ \cup {reihe[i]}]
               ELSE faden' = [faden EXCEPT ![t].ort = "erstatten", ![t].genommen = Geschuldet(t)]
    /\ UNCHANGED <<zeit, naechste, zeilen, einlass, angelegt>>

(* The INSERT and its commit, or its failure and neue_adresse_zurueck.     *)
Speichert(t) ==
    /\ faden[t].ort = "speichern"
    /\ \/ /\ zeilen' = zeilen \cup {faden[t].paar}
          /\ angelegt' = [k \in NeuEimer |->
                            angelegt[k] + IF k \in faden[t].genommen THEN 1 ELSE 0]
          /\ Laesst(t)
       \/ Weiter(t, "erstatten") /\ UNCHANGED <<zeilen, angelegt, sperre>>
    /\ UNCHANGED <<zeit, speicher, naechste, einlass>>

Erstattet(t) ==
    /\ faden[t].ort = "erstatten"
    /\ IF faden[t].genommen = {} THEN Laesst(t) /\ UNCHANGED speicher
       ELSE \E k \in faden[t].genommen :
              /\ gib_zurueck(k, MARKE)
              /\ faden' = [faden EXCEPT ![t].genommen = @ \ {k}]
              /\ UNCHANGED sperre
    /\ UNCHANGED <<zeit, naechste, zeilen, einlass, angelegt>>

----------------------------------------------------------------------------
(* Everything else that touches the tables: a call limited by account      *)
(* (msg_limit_ok; otk_limit_ok and live_limit_ok are alike), the timer     *)
(* (speicherpflege), time.                                                 *)
msg_limit_ok(a) ==
    /\ nimm(<<"msg", a>>, MARKE)
    /\ UNCHANGED <<zeit, naechste, faden, sperre, zeilen, einlass, angelegt>>

raeume_speicher_auf ==
    /\ eimer' = EimerGeraeumt(eimer) /\ nonces' = NoncesGeraeumt(nonces)
    /\ nonceZahl' = Cardinality(NoncesGeraeumt(nonces)) /\ geraeumt' = zeit
    /\ UNCHANGED <<zeit, naechste, faden, sperre, zeilen, einlass, angelegt>>

Vergeht ==
    /\ zeit < ZEIT_MAX /\ zeit' = zeit + 1
    /\ UNCHANGED <<speicher, naechste, faden, sperre, zeilen, einlass, angelegt>>

Next ==
    \/ \E t \in Faden :
         \/ \E p \in Paar, q \in Quelle : ChallengeBeginnt(t, p, q) \/ RegisterBeginnt(t, p, q)
         \/ speicher_hat_platz(t) \/ issue_nonce(t)
         \/ Abgewiesen(t) \/ offene_nonces(t) \/ verbrauche_nonce(t)
         \/ NimmtSperre(t) \/ neue_adresse_ok(t) \/ Speichert(t) \/ Erstattet(t)
    \/ \E a \in Absender : msg_limit_ok(a)
    \/ raeume_speicher_auf \/ Vergeht

Spec == Init /\ [][Next]_vars

----------------------------------------------------------------------------
(* Properties *)

(* A nonce lets at most one registration in, however many threads hold the *)
(* same signature: they all may have seen it open (offene_nonces does not  *)
(* take it), but it is there for one of them only.                         *)
NonceGiltEinmal == \A n \in 1 .. AUSGABE_MAX : einlass[n] <= 1

(* The counter kept beside the table is the number of entries, through     *)
(* expiry, displacement, refusal, use and sweep; the roof relies on it.    *)
NonceZahlStimmt == nonceZahl = Cardinality(nonces)

(* The counter is right and neither table grows beyond the roof, nor a     *)
(* pair's list beyond its places: /register checks a bounded number of     *)
(* signatures.                                                             *)
DaecherHalten ==
    /\ NonceZahlStimmt
    /\ nonceZahl <= SPEICHER_MAX /\ Cardinality(Da(eimer)) <= SPEICHER_MAX
    /\ \A p \in Paar :
         LET N == {e \in nonces : e.paar = p} IN
         /\ Cardinality(N) <= NONCE_PLAETZE * NONCE_HERKUENFTE
         /\ \A e \in N : Cardinality(Von(N, e.herkunft)) <= NONCE_PLAETZE

(* An origin that floods a pair with challenges displaces only its own     *)
(* nonces: an open nonce of another origin falls to a new one only if      *)
(* NONCE_HERKUENFTE origins besides its own stand against it (relay_server *)
(* 121-124).                                                               *)
FremdesNonceBleibt ==
    [][\A t \in Faden : \A e \in nonces \ nonces' :
         (faden[t].ort = "ausgeben" /\ faden'[t].ort = "frei" /\ e.ablauf > zeit) =>
           LET h == nonce_herkunft(faden[t].quelle)
               N == {f \in nonces : f.paar = e.paar}
           IN \/ h = e.herkunft
              \/ Cardinality(({f.herkunft : f \in N} \cup {h}) \ {e.herkunft}) >= NONCE_HERKUENFTE]_vars

(* Sweeping buckets away and creating them when they are needed is         *)
(* invisible: with the missing ones counted as full, the table behaves as  *)
(* one bucket for each key that was always there.  A bucket swept too      *)
(* early would give its owner a fresh one; a refund must not overfill one  *)
(* or make up for a swept one.                                             *)
Ideal == INSTANCE TokenBuckets WITH guthaben <- [k \in Eimer |-> Stand(k, eimer[k])]
IdealeEimer == Ideal!Spec

(* New addresses are paid for: what a bucket has paid, holds, and lent to  *)
(* a request under way is never more than its capacity and refill gave it. *)
MarkenBilanz ==
    \A k \in NeuEimer :
        MARKE * (angelegt[k] + Cardinality({t \in Faden : faden[t].ort \in UnterSperre
                                                          /\ k \in faden[t].genommen}))
          + Stand(k, eimer[k]) <= Fassung[k] + zeit * Nachfuellung[k]

(* A refused or failed new address costs its origin nothing: when the      *)
(* request leaves schreibsperre without a row, no bucket holds less than   *)
(* before it.                                                              *)
AbsageKostetNichts ==
    [][\A t \in Faden :
         (faden[t].ort = "erstatten" /\ faden'[t].ort = "frei") =>
           \A k \in NeuEimer : Stand(k, eimer[k])' >= faden[t].vorher[k]]_vars
=============================================================================
