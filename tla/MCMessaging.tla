---------------------------- MODULE MCMessaging -----------------------------
(***************************************************************************)
(* The instance of Messaging that TLC checks.                              *)
(***************************************************************************)
EXTENDS Messaging

MCSymmetry == Permutations(ChatRequests)

(* The hours before and after the day, the first one and one more.         *)
MCHours == {-1, 0, 2, 4}

=============================================================================
