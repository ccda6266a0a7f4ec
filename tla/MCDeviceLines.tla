--------------------------- MODULE MCDeviceLines ---------------------------
(* Instances of DeviceLines for TLC. *)
EXTENDS DeviceLines, TLC

CONSTANTS w1, w2, w3, k1, k2, a1, a2

(* Three lines of one device, the second without receipts: two of them may *)
(* wait for the close of the third.                                        *)
Verdraengend == [w \in Ws |-> {1}]
EineOhneNachweis == [w \in Ws |-> {w # w2}]

(* Any line, any device, with or without receipts. *)
Jedes == [w \in Ws |-> Geraet]
Beides == [w \in Ws |-> BOOLEAN]

(* Connections, keys and calls are interchangeable. *)
Symmetrie == Permutations(Ws) \cup Permutations(Schluessel) \cup Permutations(Auftrag)
=============================================================================
