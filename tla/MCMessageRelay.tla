---------------------------- MODULE MCMessageRelay ----------------------------
(* Instances of MessageRelay for TLC. *)
EXTENDS MessageRelay, TLC

Symmetry == Permutations(Requests) \cup Permutations(Users)
===============================================================================
