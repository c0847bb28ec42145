---------------------------- MODULE MCAnchorVerdict ----------------------------
(* Instances of AnchorVerdict for TLC. *)
EXTENDS AnchorVerdict, TLC

Symmetry == Permutations(Workers) \cup Permutations(Requests)
              \cup Permutations(Files)

\* A third row is followed when all rows are of one message, or one account
\* has used the client.
Followed ==
    nextRow > 3 =>
      \/ \A i, j \in RowIds : rows[i].message = rows[j].message
      \/ \A f \in Files \ {open} : held[f] = {}
================================================================================
