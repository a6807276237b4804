----------------------------- MODULE Messaging ------------------------------
(***************************************************************************)
(* Chats of the orders service and the notifications service together:     *)
(* the last thing SendMessage does is an HTTP call with a timeout of three *)
(* seconds, whose loss is logged and forgotten.  Other handlers send other *)
(* events the same way.                                                    *)
(***************************************************************************)
EXTENDS Chats, Notifications, TLC

CONSTANTS
    EventKinds,   \* kinds of the events other handlers send
    MaxActs       \* bound on what people and the clock do, all together

ASSUME OneCrowd == People = Users /\ MaxNotes >= MaxMessages /\ EventKinds \subseteq Kinds
                    /\ MaxActs \in Nat

VARIABLE acts     \* what people and the clock may still do

vars == <<chatVars, notifyVars, acts>>

(* Rows, copies and calls keep their shape.                                *)
TypeOK == ChatTypeOK /\ NotifyTypeOK /\ acts \in 0..MaxActs

Init == ChatInit /\ NotifyInit /\ acts = MaxActs

(* kindOf: the kind is derived from the route.                             *)
kindOf(route) ==
    CASE route = "/chats" -> "message"
      [] route = "/bids" -> "auction"
      [] route = "/offers" -> "offer"
      [] route = "/review" -> "review"
      [] route = "/deals" -> "deal"
      [] route = "/jobs" -> "job"
      [] OTHER -> "system"

(* notify.Send of a message; the note has the message's number.            *)
SendNotice(p) ==
    /\ Announced(p)
    /\ Arrive(cloc[p].msg, Target(cloc[p].user, cloc[p].owner), kindOf("/chats"))

OtherEvent(n, u, kind) ==
    /\ n \notin Messages
    /\ Arrive(n, u, kind)
    /\ UNCHANGED chatVars

(* Requests, and the clock, begin; every one of them counts.               *)
Begins ==
    /\ acts > 0 /\ acts' = acts - 1
    /\ \/ ChatAct /\ UNCHANGED notifyVars
       \/ PeopleAct /\ UNCHANGED chatVars
       \/ \E n \in Notes, u \in People, kind \in EventKinds : OtherEvent(n, u, kind)

GoesOn ==
    /\ UNCHANGED acts
    /\ \/ ChatStep /\ UNCHANGED notifyVars
       \/ NoteStep /\ UNCHANGED chatVars
       \/ \E p \in ChatRequests : SendNotice(p)

Next == Begins \/ GoesOn

Spec == Init /\ [][Next]_vars

-----------------------------------------------------------------------------
(***************************************************************************)
(* A message that was stored is announced to the other side: once nothing  *)
(* is under way for it any more, it is in the feed of the one who did not  *)
(* write it, unless a failure stopped SendMessage or Notify on the way.    *)
(***************************************************************************)
UnderWay(m) == \/ \E p \in ChatRequests : cloc[p].msg = m
               \/ notes[m].at = "save"

OtherSide(m) == CHOOSE u \in Party(messages[m].owner) : u # messages[m].from

MessageReachesFeed ==
    \A m \in Messages :
        Stored(m) /\ ~UnderWay(m) =>
            \/ m \in lost
            \/ notes[m].user = OtherSide(m) /\ (feed[m] # "absent" \/ notes[m].at = "done")

(***************************************************************************)
(* The feed is the record on which SendMessage and Notify agree: what was  *)
(* written gets into it, and nobody is rung for what is not in it.         *)
(***************************************************************************)
FeedIsTheRecord == MessageReachesFeed /\ PushIsOnFile

-----------------------------------------------------------------------------
(* The inductive invariant of the proofs.                                  *)

Held(m) == \E p \in ChatRequests : cloc[p].msg = m

(* A message is held by its request, or announced, or its announcement was *)
(* prevented.                                                              *)
Accounted(m) ==
    /\ notes[m].at # "none" => Stored(m) /\ ~Held(m) /\ notes[m].user = OtherSide(m)
    /\ Stored(m) => Held(m) \/ notes[m].at # "none" \/ m \in lost

MessagingInv ==
    /\ ChatInv /\ NoteInv
    /\ acts \in 0..MaxActs
    /\ \A m \in Messages : Accounted(m)

=============================================================================
