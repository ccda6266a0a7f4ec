----------------------------- MODULE MCPushNudge -----------------------------
(* An instance of PushNudge for TLC. *)
EXTENDS PushNudge

CONSTANTS g1, g2
=============================================================================
