-------------------------- MODULE MCOrderLifecycle --------------------------
(***************************************************************************)
(* The instances of OrderLifecycle that TLC checks.                        *)
(***************************************************************************)
EXTENDS OrderLifecycle, TLC

(* One auction is open and extends itself, the other has a reserve.        *)
MCTerms == {[reserve |-> 0, autoExtend |-> TRUE],
            [reserve |-> 3, autoExtend |-> FALSE]}

OwnerSymmetry == Permutations(Owners)

=============================================================================
