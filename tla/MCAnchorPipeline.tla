--------------------------- MODULE MCAnchorPipeline ---------------------------
(* Instances of AnchorPipeline for TLC. *)
EXTENDS AnchorPipeline, TLC

Symmetry == Permutations(Workers) \cup Permutations(Requests)
================================================================================
