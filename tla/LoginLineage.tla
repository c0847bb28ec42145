----------------------------- MODULE LoginLineage -----------------------------
(***************************************************************************)
(* What refresh-token rotation promises, without transactions and locks.   *)
(* A login opens a lineage of tokens.  At most one token of a lineage can  *)
(* be exchanged at any time; exchanging it replaces it by a token that was *)
(* never used before; a logout that finds it ends the lineage for good.    *)
(***************************************************************************)
EXTENDS Naturals

CONSTANT Tokens       \* token numbers, in the order they are issued

VARIABLES
    valid,     \* per lineage (named by its first token): tokens that refresh
    issued     \* tokens ever issued

vars == <<valid, issued>>

Init ==
    /\ valid = [l \in Tokens |-> {}]
    /\ issued = {}

\* A login issues the first token of a new lineage.
Login(t) ==
    /\ t \notin issued
    /\ issued' = issued \cup {t}
    /\ valid' = [valid EXCEPT ![t] = {t}]

\* The valid token of lineage l is exchanged for t.
Rotate(l, t) ==
    /\ valid[l] # {}
    /\ t \notin issued
    /\ issued' = issued \cup {t}
    /\ valid' = [valid EXCEPT ![l] = {t}]

\* Lineage l ends.
End(l) ==
    /\ valid[l] # {}
    /\ valid' = [valid EXCEPT ![l] = {}]
    /\ UNCHANGED issued

Next ==
    \/ \E t \in Tokens : Login(t)
    \/ \E l, t \in Tokens : Rotate(l, t)
    \/ \E l \in Tokens : End(l)

Spec == Init /\ [][Next]_vars
===============================================================================
