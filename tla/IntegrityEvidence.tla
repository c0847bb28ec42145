--------------------------- MODULE IntegrityEvidence ---------------------------
(***************************************************************************)
(* What the anchoring of messages promises, without rows, locks, workers   *)
(* or transactions.  The chain holds at most one record for a message,     *)
(* written once; the relay reports a message as anchored only when the     *)
(* record is there, and never takes the report back.                       *)
(***************************************************************************)
CONSTANT Messages

VARIABLES
    recorded,   \* messages whose digest the contract holds
    attested    \* messages the relay reports as confirmed

vars == <<recorded, attested>>

Init ==
    /\ recorded = {}
    /\ attested = {}

\* The digest of m reaches the contract: once, for good.
Record(m) ==
    /\ m \notin recorded
    /\ recorded' = recorded \cup {m}
    /\ UNCHANGED attested

\* The relay reports m as anchored: once, and only when it is.
Attest(m) ==
    /\ m \in recorded \ attested
    /\ attested' = attested \cup {m}
    /\ UNCHANGED recorded

Next == \E m \in Messages : Record(m) \/ Attest(m)

Spec == Init /\ [][Next]_vars
================================================================================
