---------------------------- MODULE MCBlobStore ----------------------------
(* Instances of BlobStore for TLC. *)
EXTENDS BlobStore, TLC

CONSTANTS k1, k2, k3, u1, u2

(* Names and PUTs are interchangeable. *)
Symmetrie == Permutations(Kennung) \cup Permutations(Upload)
=============================================================================
