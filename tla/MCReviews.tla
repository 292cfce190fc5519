----------------------------- MODULE MCReviews -----------------------------
(* An instance of Reviews for TLC. *)
EXTENDS Reviews, TLC

CONSTANTS cook

MCLabelOf == [r \in Reviewer |-> cook]
Symm == Permutations(SubId)
=============================================================================
