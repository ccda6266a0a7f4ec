---------------------------- MODULE MCRelayMemory ----------------------------
(* An instance of RelayMemory for TLC. *)
EXTENDS RelayMemory, TLC

CONSTANTS t1, t2, k1, k2, x, y, u

(* Two circuits, and tor without a circuit: three origins of nonces, and   *)
(* new addresses paid from two buckets or from the shared one alone.       *)
MCQuelle == {[onion |-> TRUE, anschluss |-> k, netz |-> Niemand] : k \in {k1, k2, Niemand}}
MCPaar == {[adresse |-> a, geraet |-> 1] : a \in {x, y}}
Symmetrie == Permutations({t1, t2}) \cup Permutations({x, y}) \cup Permutations({k1, k2})
=============================================================================
