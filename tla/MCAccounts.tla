----------------------------- MODULE MCAccounts -----------------------------
(***************************************************************************)
(* The instance of Accounts that TLC checks.                               *)
(***************************************************************************)
EXTENDS Accounts

RequestSymmetry == Permutations(Requests)

=============================================================================
