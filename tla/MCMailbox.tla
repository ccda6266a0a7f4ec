----------------------------- MODULE MCMailbox -----------------------------
(* An instance of Mailbox for TLC. *)
EXTENDS Mailbox

CONSTANTS m1, m2
=============================================================================
