--------------------------- MODULE MCPrekeyStore ---------------------------
(* Instances of PrekeyStore for TLC. *)
EXTENDS PrekeyStore, TLC

CONSTANTS t1, t2

(* Threads are interchangeable; devices and key ids are ordered. *)
Symmetrie == Permutations(Thread)
=============================================================================
