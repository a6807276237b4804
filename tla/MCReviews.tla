----------------------------- MODULE MCReviews ------------------------------
(***************************************************************************)
(* The instance of Reviews that TLC checks.                                *)
(***************************************************************************)
EXTENDS Reviews

=============================================================================
