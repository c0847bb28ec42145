--------------------------- MODULE MCRefreshSessions ---------------------------
(* Instances of RefreshSessions for TLC. *)
EXTENDS RefreshSessions, TLC

Symmetry == Permutations(Requests)
================================================================================
