----------------------------- MODULE MCMembers ------------------------------
(* A workspace of three people. *)
EXTENDS Members, TLC

Symmetry == Permutations(Member) \cup Permutations(Lead) \cup Permutations(Request)
=============================================================================
