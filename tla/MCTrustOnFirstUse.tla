--------------------------- MODULE MCTrustOnFirstUse ---------------------------
\* Instances of TrustOnFirstUse for TLC.
EXTENDS TrustOnFirstUse, TLC
CONSTANTS alice, bob
MCUsers == {alice, bob}
MCSlots == 1..2
Symmetry == Permutations(MCUsers)

\* The client has had one account.
OneAccount ==
  \E u \in MCUsers :
    /\ me \in {u, NoUser} /\ file = u
    /\ \A v \in MCUsers \ {u} : keys[v] = 0

\* The first slot runs commands and the second one logins.  Two accounts take
\* turns over two sets of keys, and one account sees a third.
Followed ==
  /\ call[1].op # "keys" /\ call[2].op \in {"idle", "keys"}
  /\ made = 3 => OneAccount /\ call[2] = Idle
=============================================================================
