------------------------- MODULE MCConstructionClaims -------------------------
(* Small instances of ConstructionClaims. *)
EXTENDS ConstructionClaims, TLC

Symmetry == Permutations(Requests) \cup Permutations(Claims) \cup Permutations(Numbers)
=============================================================================
