-------------------------- MODULE MCTokenVerifier --------------------------
(* Instances of TokenVerifier for TLC. *)
EXTENDS TokenVerifier, TLC

Symmetry == Permutations(Calls)

AllTokens == [key : Keys, sub : BOOLEAN]
=============================================================================
