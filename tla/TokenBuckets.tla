---------------------------- MODULE TokenBuckets ----------------------------
(***************************************************************************)
(* What a rate bucket promises: every key HAS a bucket, it fills with time *)
(* up to its capacity, an attempt takes its cost or nothing, and what is   *)
(* given back fills it no further than its capacity.  Nothing is ever      *)
(* created or swept away here; RelayMemory keeps only some of the buckets  *)
(* and implements this (IdealeEimer there).                                *)
(***************************************************************************)
EXTENDS Integers

CONSTANTS Eimer,          \* the keys
          Fassung,        \* capacity of a key's bucket
          Nachfuellung, \* what a bucket gains in a tick
          Kosten          \* what an attempt or a refund may be about

VARIABLE guthaben         \* key -> tokens

Hoechstens(k, m) == IF m > Fassung[k] THEN Fassung[k] ELSE m

Init == guthaben = [k \in Eimer |-> Fassung[k]]

(* Bucket k holds m afterwards, the others what they held. *)
Setzt(k, m) == /\ guthaben'[k] = m
               /\ \A j \in Eimer \ {k} : guthaben'[j] = guthaben[j]
               /\ DOMAIN guthaben' = Eimer

Vergeht == /\ \A k \in Eimer : guthaben'[k] = Hoechstens(k, guthaben[k] + Nachfuellung[k])
           /\ DOMAIN guthaben' = Eimer
Nimmt(k, c) == guthaben[k] >= c /\ Setzt(k, guthaben[k] - c)
Erstattet(k, c) == Setzt(k, Hoechstens(k, guthaben[k] + c))

(* An attempt that is refused. *)
Abgelehnt == UNCHANGED guthaben

Next == \/ Abgelehnt
        \/ Vergeht
        \/ \E k \in Eimer, c \in Kosten : Nimmt(k, c) \/ Erstattet(k, c)

Spec == Init /\ [][Next]_guthaben
=============================================================================
