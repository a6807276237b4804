---------------------------- MODULE MCCategories ----------------------------
(***************************************************************************)
(* The instance of Categories that TLC checks.                             *)
(***************************************************************************)
EXTENDS Categories

RequestSymmetry == Permutations(Requests)

=============================================================================
