------------------------------ MODULE MCAccess ------------------------------
(***************************************************************************)
(* The instance of Access that TLC checks.                                 *)
(***************************************************************************)
EXTENDS Access

=============================================================================
