---------------------------- MODULE MCDealRaces ----------------------------
(***************************************************************************)
(* The instances of DealRaces that TLC checks.                             *)
(***************************************************************************)
EXTENDS DealRaces

RequestSymmetry == Permutations(Requests)

=============================================================================
