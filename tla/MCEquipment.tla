----------------------------- MODULE MCEquipment -----------------------------
(***************************************************************************)
(* The instance of Equipment that TLC checks.                              *)
(***************************************************************************)
EXTENDS Equipment

RequestSymmetry == Permutations(Requests)

=============================================================================
