---------------------------- MODULE MCQueueCaps ----------------------------
(* Instances of QueueCaps for TLC. *)
EXTENDS QueueCaps

CONSTANTS g1, g2, a1, a2, l1, l2

(* Devices, senders and lines are interchangeable. *)
Symmetrie == Permutations(Geraet) \cup Permutations(Absender) \cup Permutations(Leitung)
=============================================================================
