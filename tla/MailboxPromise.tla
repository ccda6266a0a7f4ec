-------------------------- MODULE MailboxPromise --------------------------
(***************************************************************************)
(* What the relay's mailbox promises a sender, without rows, lines or      *)
(* receipts: an `ack` means that the message has left the sender's care.   *)
(* From then on it lies with the relay until the recipient has it, unless  *)
(* it falls to one of the limits the relay announces (QUEUE_TTL_SECONDS,   *)
(* the caps, the removal of the device) or went to a client without        *)
(* receipts.                                                               *)
(***************************************************************************)
CONSTANT Nachricht

VARIABLES
    stand,     \* per message: where it is, as far as the promise goes
    quittiert  \* messages whose sender has the `ack`

vars == <<stand, quittiert>>

Stand == {"offen", "liegt", "abgelegt", "ohneGewaehr"}

Init == stand = [m \in Nachricht |-> "offen"] /\ quittiert = {}

Annehmen(m) ==
    /\ stand[m] \in {"offen", "ohneGewaehr"}
    /\ stand' = [stand EXCEPT ![m] = "liegt"]
    /\ UNCHANGED quittiert

Ablegen(m) ==
    /\ stand[m] # "abgelegt"
    /\ stand' = [stand EXCEPT ![m] = "abgelegt"]
    /\ UNCHANGED quittiert

(* Limits take rows, a single one or all rows of a device. *)
Fallen(S) ==
    /\ S # {} /\ \A m \in S : stand[m] = "liegt"
    /\ stand' = [m \in Nachricht |-> IF m \in S THEN "ohneGewaehr" ELSE stand[m]]
    /\ UNCHANGED quittiert

(* Handed to a line whose client cannot confirm. *)
Aushaendigen(m) ==
    /\ stand[m] = "offen"
    /\ stand' = [stand EXCEPT ![m] = "ohneGewaehr"]
    /\ UNCHANGED quittiert

Quittieren(m) ==
    /\ stand[m] # "offen"
    /\ quittiert' = quittiert \cup {m}
    /\ UNCHANGED stand

Next ==
    \/ \E m \in Nachricht : Annehmen(m) \/ Ablegen(m) \/ Aushaendigen(m) \/ Quittieren(m)
    \/ \E S \in SUBSET Nachricht : Fallen(S)

Spec == Init /\ [][Next]_vars
=============================================================================
