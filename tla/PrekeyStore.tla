---------------------------- MODULE PrekeyStore ----------------------------
(***************************************************************************)
(* The one-time prekeys of an address at the relay (relay_server.py):      *)
(* register() replaces a device's bundle, get_prekey() hands keys out,     *)
(* loesche_geraet() removes a device.  They run in the threads of an HTTP  *)
(* pool (removals also on the event loop) over ONE SQLite connection: the  *)
(* statements of all threads fall into the same open transaction, and only *)
(* `schreibsperre` keeps them apart.                                       *)
(*                                                                         *)
(* What register() checks before its transaction (list, roofs for devices  *)
(* and addresses, nonces) is not part of this module.                      *)
(***************************************************************************)
EXTENDS Integers, FiniteSets

CONSTANTS
    Geraet,                \* the devices of the address
    Thread,                \* threads that may be in the endpoints together
    Nummer,                \* key ids of a bundle
    Keiner,                \* nobody holds the lock
    KYBER_OTK_MAX_GESAMT,  \* roof for the Kyber one-time keys of the relay
    FASSUNG_MAX            \* bound: bundles ever uploaded

ASSUME MengenAssumption == /\ IsFiniteSet(Nummer) /\ Nummer \subseteq Nat
                           /\ IsFiniteSet(Geraet) /\ Geraet \subseteq Nat
ASSUME KeinerAssumption == Keiner \notin Thread
ASSUME SchrankenAssumption == KYBER_OTK_MAX_GESAMT \in Nat /\ FASSUNG_MAX \in Nat

VARIABLES
    zeile,        \* identities: device -> the upload its row comes from, 0: no row
    rettung,      \* devices whose row has a last-resort Kyber prekey
    einmal,       \* one_time_prekeys and one_time_kyber_prekeys
    fest,         \* the three as committed; above: with the open transaction
    kyberZeilen,  \* _kyber_zeilen
    sperre,       \* the thread that holds schreibsperre
    thread,       \* per thread: its next statement and its local variables
    fassungen,    \* bundles uploaded so far
    ausgegeben    \* one-time keys in answers that went out

tab == <<zeile, rettung, einmal>>
vars == <<tab, fest, kyberZeilen, sperre, thread, fassungen, ausgegeben>>

(* A one-time key is named by its device, the upload it came with, its     *)
(* kind and its id.                                                        *)
Fassung == 1 .. FASSUNG_MAX
Schluessel == [g : Geraet, f : Fassung, art : {"ec", "kyber"}, nr : Nummer]
Kyber(S) == {s \in S : s.art = "kyber"}
Ec(S) == {s \in S : s.art = "ec"}
Des(g, S) == {s \in S : s.g = g}

(* The next statement of a thread.                                         *)
Stelle == {"ruhe", "upsert", "kyber", "loesche", "ziehe", "commit", "zaehle", "antwort"}
UnterSperre == Stelle \ {"ruhe", "antwort"}
VorCommit == {"upsert", "kyber", "loesche", "ziehe", "commit"}

(* Local variables: the device and bundle at hand, keys to store, devices  *)
(* still to draw from, keys drawn, the correction of the counter.          *)
Faden == [ph : Stelle, g : Geraet \cup {Keiner}, f : 0 .. FASSUNG_MAX, mitKyber : BOOLEAN,
          neu : SUBSET Schluessel, offen : SUBSET Geraet, funde : SUBSET Schluessel, delta : Int]
Ruht == [ph |-> "ruhe", g |-> Keiner, f |-> 0, mitKyber |-> FALSE,
         neu |-> {}, offen |-> {}, funde |-> {}, delta |-> 0]

TypeOK ==
    /\ zeile \in [Geraet -> 0 .. FASSUNG_MAX]
    /\ rettung \subseteq Geraet
    /\ einmal \subseteq Schluessel
    /\ fest \in [zeile : [Geraet -> 0 .. FASSUNG_MAX],
                 rettung : SUBSET Geraet, einmal : SUBSET Schluessel]
    /\ kyberZeilen \in Nat
    /\ sperre \in Thread \cup {Keiner}
    /\ thread \in [Thread -> Faden]
    /\ fassungen \in 0 .. FASSUNG_MAX
    /\ ausgegeben \subseteq Schluessel

Init ==
    /\ zeile = [g \in Geraet |-> 0] /\ rettung = {} /\ einmal = {}
    /\ fest = [zeile |-> zeile, rettung |-> {}, einmal |-> {}]
    /\ kyberZeilen = 0 /\ sperre = Keiner
    /\ thread = [t \in Thread |-> Ruht]
    /\ fassungen = 0 /\ ausgegeben = {}

Tab == [zeile |-> zeile, rettung |-> rettung, einmal |-> einmal]
Weiter(t, faden) == thread' = [thread EXCEPT ![t] = faden]

----------------------------------------------------------------------------
(* The lock.  A call enters it once, before its first statement. *)

(* Deviation: nobody waits. *)
OhneSperre(t) == sperre' = t

Sperre(t) == sperre = Keiner /\ sperre' = t

Einmalschluessel(g, f, ec, ky) ==
    [g : {g}, f : {f}, art : {"ec"}, nr : ec] \cup [g : {g}, f : {f}, art : {"kyber"}, nr : ky]

(* register: a bundle with any EC keys, with or without the Kyber part. *)
BeginneRegister(t, g) ==
    /\ thread[t].ph = "ruhe"
    /\ fassungen < FASSUNG_MAX
    /\ Sperre(t)
    /\ fassungen' = fassungen + 1
    /\ \E ec, ky \in SUBSET Nummer, mitKyber \in BOOLEAN :
         /\ ky # {} => mitKyber
         /\ Weiter(t, [ph |-> "upsert", g |-> g, f |-> fassungen + 1, mitKyber |-> mitKyber,
                       neu |-> Einmalschluessel(g, fassungen + 1, ec, ky),
                       offen |-> {}, funde |-> {}, delta |-> 0])
    /\ UNCHANGED <<tab, fest, kyberZeilen, ausgegeben>>

(* loesche_geraet through its callers: eviction, list change, janitor. *)
BeginneLoeschen(t, g) ==
    /\ thread[t].ph = "ruhe"
    /\ Sperre(t)
    /\ Weiter(t, [Ruht EXCEPT !.ph = "loesche", !.g = g])
    /\ UNCHANGED <<tab, fest, kyberZeilen, fassungen, ausgegeben>>

(* get_prekey within its limits, for an address with a row. *)
BeginneAusgabe(t) ==
    /\ thread[t].ph = "ruhe"
    /\ Sperre(t)
    /\ \E g \in Geraet : zeile[g] # 0
    /\ Weiter(t, [Ruht EXCEPT !.ph = "ziehe", !.offen = {g \in Geraet : zeile[g] # 0}])
    /\ UNCHANGED <<tab, fest, kyberZeilen, fassungen, ausgegeben>>

----------------------------------------------------------------------------
(* The statements of register. *)

(* The row and the EC keys: replaced as a whole. *)
Upsert(t) ==
    LET i == thread[t] IN
    /\ i.ph = "upsert"
    /\ zeile' = [zeile EXCEPT ![i.g] = i.f]
    /\ rettung' = IF i.mitKyber THEN rettung \cup {i.g} ELSE rettung \ {i.g}
    /\ einmal' = (einmal \ Ec(Des(i.g, einmal))) \cup Ec(i.neu)
    /\ Weiter(t, [i EXCEPT !.ph = "kyber"])
    /\ UNCHANGED <<fest, kyberZeilen, sperre, fassungen, ausgegeben>>

(* What the roof leaves for a device whose `alt` Kyber keys just went. *)
Platz(alt) ==
    LET frei == KYBER_OTK_MAX_GESAMT - (kyberZeilen - alt)
    IN IF frei < 0 THEN 0 ELSE frei

(* Of the new Kyber keys the smallest ids, as many as there is room for. *)
Gekuerzt(neu, platz) ==
    {T \in SUBSET neu :
        /\ Cardinality(T) <= platz
        /\ T = neu \/ Cardinality(T) = platz
        /\ \A a \in T, b \in neu \ T : a.nr < b.nr}

(* The Kyber keys: replaced as a whole, cut at the roof. *)
ErsetzeKyber(t) ==
    LET i == thread[t]
        alt == Kyber(Des(i.g, einmal))
    IN
    /\ i.ph = "kyber"
    /\ \E T \in Gekuerzt(Kyber(i.neu), Platz(Cardinality(alt))) :
         /\ einmal' = (einmal \ alt) \cup T
         /\ Weiter(t, [i EXCEPT !.ph = "commit", !.delta = Cardinality(T) - Cardinality(alt)])
    /\ UNCHANGED <<zeile, rettung, fest, kyberZeilen, sperre, fassungen, ausgegeben>>

----------------------------------------------------------------------------
(* Deviation: the Kyber keys go with the cascade as well, uncounted. *)
LoescheUngezaehlt(t) ==
    LET i == thread[t] IN
    /\ i.ph = "loesche"
    /\ zeile' = [zeile EXCEPT ![i.g] = 0]
    /\ rettung' = rettung \ {i.g}
    /\ einmal' = einmal \ Des(i.g, einmal)
    /\ Weiter(t, [i EXCEPT !.ph = "commit"])
    /\ UNCHANGED <<fest, kyberZeilen, sperre, fassungen, ausgegeben>>

(* The statement of loesche_geraet (the EC keys go with the cascade). *)
Loesche(t) ==
    LET i == thread[t] IN
    /\ i.ph = "loesche"
    /\ zeile' = [zeile EXCEPT ![i.g] = 0]
    /\ rettung' = rettung \ {i.g}
    /\ einmal' = einmal \ Des(i.g, einmal)
    /\ Weiter(t, [i EXCEPT !.ph = "commit", !.delta = -Cardinality(Kyber(Des(i.g, einmal)))])
    /\ UNCHANGED <<fest, kyberZeilen, sperre, fassungen, ausgegeben>>

----------------------------------------------------------------------------
(* The draw of get_prekey. *)

(* At most one of the keys, one if there is any. *)
EinerAus(S) == IF S = {} THEN {{}} ELSE {{s} : s \in S}

(* DELETE ... RETURNING for the next device: one EC key, and one Kyber key *)
(* if the row has the last-resort key.                                     *)
Ziehe(t) ==
    LET i == thread[t] IN
    /\ i.ph = "ziehe"
    /\ \E g \in i.offen :
         /\ \A h \in i.offen : g <= h
         /\ \E ec \in EinerAus(Ec(Des(g, einmal))),
               ky \in EinerAus(IF g \in rettung THEN Kyber(Des(g, einmal)) ELSE {}) :
              /\ einmal' = einmal \ (ec \cup ky)
              /\ Weiter(t, [i EXCEPT !.offen = i.offen \ {g},
                                     !.funde = i.funde \cup ec \cup ky,
                                     !.delta = i.delta - Cardinality(ky)])
    /\ UNCHANGED <<zeile, rettung, fest, kyberZeilen, sperre, fassungen, ausgegeben>>

(* Deviation: the answer does not wait for the commit. *)
GezogenOhneCommit(t) ==
    /\ thread[t].ph = "ziehe" /\ thread[t].offen = {}
    /\ Weiter(t, [thread[t] EXCEPT !.ph = "antwort"])
    /\ sperre' = Keiner
    /\ UNCHANGED <<tab, fest, kyberZeilen, fassungen, ausgegeben>>

Gezogen(t) ==
    /\ thread[t].ph = "ziehe" /\ thread[t].offen = {}
    /\ Weiter(t, [thread[t] EXCEPT !.ph = "commit"])
    /\ UNCHANGED <<tab, fest, kyberZeilen, sperre, fassungen, ausgegeben>>

----------------------------------------------------------------------------
(* The end of a transaction: `with db:` commits, or rolls back when a      *)
(* statement raised.                                                       *)

Commit(t) ==
    /\ thread[t].ph = "commit"
    /\ fest' = Tab
    /\ Weiter(t, [thread[t] EXCEPT !.ph = "zaehle"])
    /\ UNCHANGED <<tab, kyberZeilen, sperre, fassungen, ausgegeben>>

Fehler(t) ==
    /\ thread[t].ph \in VorCommit
    /\ zeile' = fest.zeile /\ rettung' = fest.rettung /\ einmal' = fest.einmal
    /\ Weiter(t, Ruht)
    /\ sperre' = Keiner
    /\ UNCHANGED <<fest, kyberZeilen, fassungen, ausgegeben>>

(* kyber_zeilen_aendern, then the lock is released.  get_prekey answers    *)
(* after that.                                                             *)
Zaehle(t) ==
    LET i == thread[t] IN
    /\ i.ph = "zaehle"
    /\ kyberZeilen' = IF kyberZeilen + i.delta < 0 THEN 0 ELSE kyberZeilen + i.delta
    /\ sperre' = Keiner
    /\ Weiter(t, IF i.funde = {} THEN Ruht ELSE [Ruht EXCEPT !.ph = "antwort", !.funde = i.funde])
    /\ UNCHANGED <<tab, fest, fassungen, ausgegeben>>

Antworte(t) ==
    /\ thread[t].ph = "antwort"
    /\ ausgegeben' = ausgegeben \cup thread[t].funde
    /\ Weiter(t, Ruht)
    /\ UNCHANGED <<tab, fest, kyberZeilen, sperre, fassungen>>

(* The process ends at any statement; lifespan counts at the start. *)
Neustart ==
    /\ zeile' = fest.zeile /\ rettung' = fest.rettung /\ einmal' = fest.einmal
    /\ kyberZeilen' = Cardinality(Kyber(fest.einmal))
    /\ sperre' = Keiner
    /\ thread' = [t \in Thread |-> Ruht]
    /\ UNCHANGED <<fest, fassungen, ausgegeben>>

----------------------------------------------------------------------------
Next ==
    \/ \E t \in Thread :
         \/ \E g \in Geraet : BeginneRegister(t, g) \/ BeginneLoeschen(t, g)
         \/ BeginneAusgabe(t) \/ Upsert(t) \/ ErsetzeKyber(t) \/ Loesche(t)
         \/ Ziehe(t) \/ Gezogen(t) \/ Commit(t) \/ Fehler(t) \/ Zaehle(t) \/ Antworte(t)
    \/ Neustart

Spec == Init /\ [][Next]_vars

----------------------------------------------------------------------------
(* Properties. *)

(* What the database holds of a device comes from ONE upload, at every     *)
(* moment a crash could reveal: no half registration is committed by       *)
(* somebody else, no rollback revives keys of an older bundle, and no      *)
(* Kyber key is left without the last-resort key.                          *)
BuendelGanz ==
    \A s \in fest.einmal :
        /\ s.f = fest.zeile[s.g]
        /\ s.art = "kyber" => s.g \in fest.rettung

(* A one-time key is handed out once: while an answer with it is under way *)
(* or out, neither the table, nor the disk, nor another answer has it.     *)
NurEinmalAusgegeben ==
    /\ ausgegeben \cap (einmal \cup fest.einmal) = {}
    /\ \A t \in Thread :
         thread[t].ph = "antwort" =>
           /\ thread[t].funde \cap (einmal \cup fest.einmal \cup ausgegeben) = {}
           /\ \A u \in Thread \ {t} : thread[u].funde \cap thread[t].funde = {}

(* _kyber_zeilen is the number of rows whenever the lock is free, as       *)
(* register() relies on (2612-2617) ...                                    *)
KyberStandStimmt == sperre = Keiner => kyberZeilen = Cardinality(Kyber(einmal))

(* ... so that the roof over the Kyber keys holds on the disk.             *)
KyberDachHaelt == Cardinality(Kyber(fest.einmal)) <= KYBER_OTK_MAX_GESAMT

(* The books of the Kyber keys, through failures, rollbacks and restarts.  *)
KyberBuchStimmt == KyberStandStimmt /\ KyberDachHaelt
=============================================================================
