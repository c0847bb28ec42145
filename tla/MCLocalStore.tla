---------------------------- MODULE MCLocalStore ----------------------------
(* Small instances of LocalStore for TLC. *)
EXTENDS LocalStore, TLC

Symmetry == Permutations(Users)

\* A behaviour is followed up to its first mishap.
NoMishap == mishaps = {}
=============================================================================
