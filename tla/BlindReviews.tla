---------------------------- MODULE BlindReviews ----------------------------
(***************************************************************************)
(* What the marketplace promises about the two reviews of a deal: a review *)
(* stays hidden until the other side has written too, or for a week, so    *)
(* that nobody answers a review he has read with his own; once open it     *)
(* stays open.  Reviews implements this with several SQL statements per    *)
(* request.                                                                *)
(***************************************************************************)
CONSTANT Sides      \* the two parties of the deal

VARIABLES
    stage,  \* the review of each side: absent, hidden or open
    aged    \* the sides whose review is a week old

vars == <<stage, aged>>

Written(s) == stage[s] # "absent"
OtherWrote(s) == \E t \in Sides \ {s} : Written(t)

Init ==
    /\ stage = [s \in Sides |-> "absent"]
    /\ aged = {}

(* The second review may be open from the start.                           *)
Leave(s) ==
    /\ ~Written(s)
    /\ \E how \in {"hidden", "open"} :
         /\ how = "open" => OtherWrote(s)
         /\ stage' = [stage EXCEPT ![s] = how]
    /\ UNCHANGED aged

Open(s) ==
    /\ stage[s] = "hidden"
    /\ OtherWrote(s) \/ s \in aged
    /\ stage' = [stage EXCEPT ![s] = "open"]
    /\ UNCHANGED aged

WeekPasses(s) ==
    /\ Written(s) /\ s \notin aged
    /\ aged' = aged \cup {s}
    /\ UNCHANGED stage

Next == \E s \in Sides : Leave(s) \/ Open(s) \/ WeekPasses(s)

Spec == Init /\ [][Next]_vars

=============================================================================
