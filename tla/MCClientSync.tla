----------------------------- MODULE MCClientSync -----------------------------
\* Instances of ClientSync for TLC.
EXTENDS ClientSync, TLC
CONSTANTS alice, bob
MCUsers == {alice, bob}
MCSymmetry == Permutations(MCUsers)

\* One account is signed in, and the client has had no other.
OneAccount ==
  /\ me = file /\ unlocked /\ ~overlap
  /\ \A u \in Users \ {file} : disk[u] = NothingCached

\* Nobody writes to themselves, and what a save failed to write is not followed.
Plain ==
  /\ \A m \in Stored : table[m].from # table[m].to
  /\ unlocked => disk[file] = cache

\* A message is deleted or revoked once.  What follows a login that fails is
\* left to LocalStore.  Two accounts take turns over one message, and one
\* account has lists of two pages; with commands that overlap, or two messages,
\* Plain is kept to.
Followed ==
  /\ torn => table = <<>> /\ InFlight = {}
  /\ \A m \in Stored : Cardinality(table[m].hidden) <= 1
  /\ Len(table) = 2 => OneAccount
  /\ Len(table) = 2 \/ overlap => Plain
=============================================================================
