--------------------------- MODULE MCPrekeySupply ---------------------------
(* Instances of PrekeySupply for TLC. *)
EXTENDS PrekeySupply, TLC

CONSTANTS a1, a2

(* Calls of _meldeAn are interchangeable. *)
Symmetrie == Permutations(Anlauf)
=============================================================================
