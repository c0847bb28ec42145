---------------------------- MODULE MCPreKeyRelay ----------------------------
(* Instances of PreKeyRelay for TLC. *)
EXTENDS PreKeyRelay, TLC

Symmetry == Permutations(Clients) \cup Permutations(Fetches)
              \cup Permutations(Uploads)
==============================================================================
