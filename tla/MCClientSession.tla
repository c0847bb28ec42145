--------------------------- MODULE MCClientSession ---------------------------
(* Small instances of ClientSession for TLC. *)
EXTENDS ClientSession, TLC

Symmetry == Permutations(Slots) \cup Permutations(Users)

\* Behaviours are followed until a request overlaps a login or a logout: after
\* that only the type, and the one retry, are claimed.
NoOverlap == "overlap" \notin upsets
=============================================================================
