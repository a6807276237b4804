------------------------------ MODULE Reviews -------------------------------
(***************************************************************************)
(* The two reviews of a deal, statement by statement: LeaveReview and      *)
(* ReplyToReview of the parties, the scheduler's publishDueReviews, and    *)
(* the requests that complete, dispute and settle the deal meanwhile.      *)
(* There is no transaction, UpdateReview writes reply and publication of   *)
(* the copy the handler has read, and the only constraint is one review    *)
(* per author and deal.                                                    *)
(*                                                                         *)
(* Stars, tags and texts, once valid, decide nothing and are left out.     *)
(* The deal is work_done at the start; of its row only the status counts,  *)
(* and the job that follows it does not concern reviews.                   *)
(***************************************************************************)
EXTENDS Naturals, FiniteSets, TLC

CONSTANTS
    Sides,         \* client and owner of the deal
    Requests,      \* HTTP requests that may be in flight at the same time
    Scheduler,     \* the scheduler goroutine
    MaxDisputes,   \* bound on the OpenDispute requests that are ever sent
    MaxFaults      \* bound on the statements that fail

ASSUME ReviewProcs == Scheduler \notin Requests
ASSUME TwoSides == \E a, b \in Sides : a # b /\ Sides = {a, b}
ASSUME ReviewBounds == MaxDisputes \in Nat /\ MaxFaults \in Nat

Procs == Requests \cup {Scheduler}
Stamps == 1..MaxDisputes
Other(s) == CHOOSE t \in Sides : t # s

(* A row of the table, and the columns UpdateReview writes.                *)
Row == [stage : {"absent", "hidden", "open"}, replied : BOOLEAN]
NoRow == [stage |-> "absent", replied |-> FALSE]
Verdicts == {"cancelled", "completed"}
DealStatuses == {"work_done", "disputed"} \cup Verdicts

VARIABLES
    deal,      \* status column of the deal
    disputes,  \* the disputes about the deal, by their created_at
    asked,     \* the OpenDispute requests so far: their order is that of created_at
    reviews,   \* the review each side has written
    aged,      \* sides whose review is at least HoldPeriod old
    pc,        \* the next statement of each process
    loc,       \* what a process carries from one statement to the next
    faults,    \* statements that may still fail
    barred     \* history: requests that came during a dispute which still goes on

vars == <<deal, disputes, asked, reviews, aged, pc, loc, faults, barred>>

NoLocal == [side |-> CHOOSE s \in Sides : TRUE, theirs |-> NoRow, deal |-> "work_done",
            dispute |-> 0, err |-> FALSE, due |-> [s \in Sides |-> NoRow]]
Local == [side : Sides, theirs : Row, deal : DealStatuses,
          dispute : 0..MaxDisputes, err : BOOLEAN, due : [Sides -> Row]]
Labels == {"idle", "checkDispute", "readReviews", "createReview", "openTheirs",
           "writeReply", "openDue", "createDispute", "writeDeal", "writeDispute",
           "readDeal"}

(* Rows, copies and labels keep their shape.                               *)
TypeOK ==
    /\ deal \in DealStatuses
    /\ disputes \in [Stamps -> {"none", "open", "resolved"}]
    /\ asked \in 0..MaxDisputes
    /\ reviews \in [Sides -> Row]
    /\ aged \subseteq Sides
    /\ pc \in [Procs -> Labels]
    /\ loc \in [Procs -> Local]
    /\ \A p \in Procs : pc[p] \in {"createDispute", "writeDispute"} => loc[p].dispute \in Stamps
    /\ faults \in 0..MaxFaults
    /\ barred \subseteq Requests

Init ==
    /\ deal = "work_done"
    /\ disputes = [n \in Stamps |-> "none"]
    /\ asked = 0
    /\ reviews = [s \in Sides |-> NoRow]
    /\ aged = {}
    /\ pc = [p \in Procs |-> "idle"]
    /\ loc = [p \in Procs |-> NoLocal]
    /\ faults = MaxFaults
    /\ barred = {}

-----------------------------------------------------------------------------
Goto(p, label, l) == pc' = [pc EXCEPT ![p] = label] /\ loc' = [loc EXCEPT ![p] = l]
Return(p) == Goto(p, "idle", NoLocal) /\ barred' = barred \ {p}

DisputeOpen == \E n \in Stamps : disputes[n] = "open"

(* reply_text, reply_at and published_at of the copy, by id.               *)
UpdateReview(s, copy) == reviews' = [reviews EXCEPT ![s] = copy]

Opened(copy) == [copy EXCEPT !.stage = "open"]

-----------------------------------------------------------------------------
(* LeaveReview.                                                            *)

CanReview(status) == status = "completed"

LeaveReview(p, s) ==
    /\ pc[p] = "idle"
    /\ CanReview(deal)
    /\ Goto(p, "checkDispute", [NoLocal EXCEPT !.side = s])
    /\ barred' = IF DisputeOpen THEN barred \cup {p} ELSE barred
    /\ UNCHANGED <<deal, disputes, asked, reviews, aged, faults>>

OnFile == {n \in Stamps : disputes[n] # "none"}

(* Mutant: the oldest dispute instead of the latest one.                   *)
DisputeByDeal_Oldest == {n \in OnFile : \A m \in OnFile : n <= m}

(* ORDER BY created_at DESC LIMIT 1: the row, if there is one.             *)
DisputeByDeal == {n \in OnFile : \A m \in OnFile : m <= n}

CheckDispute(p) ==
    /\ pc[p] = "checkDispute"
    /\ IF \E n \in DisputeByDeal : disputes[n] = "open"
       THEN Return(p)
       ELSE Goto(p, "readReviews", loc[p]) /\ UNCHANGED barred
    /\ UNCHANGED <<deal, disputes, asked, reviews, aged, faults>>

(* The statement fails: LeaveReview asks for err == nil and an open        *)
(* dispute, and so goes on as if there were none.                          *)
CheckFails(p) ==
    /\ pc[p] = "checkDispute" /\ faults > 0
    /\ faults' = faults - 1
    /\ Goto(p, "readReviews", [loc[p] EXCEPT !.err = TRUE])
    /\ UNCHANGED <<deal, disputes, asked, reviews, aged, barred>>

ReviewsByDeal(p) ==
    /\ pc[p] = "readReviews"
    /\ Goto(p, "createReview", [loc[p] EXCEPT !.theirs = reviews[Other(loc[p].side)]])
    /\ UNCHANGED <<deal, disputes, asked, reviews, aged, faults, barred>>

(* Mutant: a review is open from the start.                                *)
FirstStage_Open(theirs) == "open"

(* Whether the other review was there when ReviewsByDeal was read.         *)
FirstStage(theirs) == IF theirs.stage = "absent" THEN "hidden" ELSE "open"

(* The second review of the same author violates the unique index.         *)
CreateReview(p) ==
    /\ pc[p] = "createReview"
    /\ LET s == loc[p].side IN
       IF reviews[s].stage # "absent"
       THEN Return(p) /\ UNCHANGED reviews
       ELSE /\ reviews' = [reviews EXCEPT ![s].stage = FirstStage(loc[p].theirs)]
            /\ IF loc[p].theirs.stage = "hidden"
               THEN Goto(p, "openTheirs", loc[p]) /\ UNCHANGED barred
               ELSE Return(p)
    /\ UNCHANGED <<deal, disputes, asked, aged, faults>>

OpenTheirs(p) ==
    /\ pc[p] = "openTheirs"
    /\ UpdateReview(Other(loc[p].side), Opened(loc[p].theirs))
    /\ Return(p)
    /\ UNCHANGED <<deal, disputes, asked, aged, faults>>

-----------------------------------------------------------------------------
(* ReplyToReview by the one the review of side s is about.                 *)

(* Mutant: the publication is not asked for.                               *)
CanReply_Hidden(r) == r.stage # "absent" /\ ~r.replied

CanReply(r) == r.stage = "open" /\ ~r.replied

ReplyToReview(p, s) ==
    /\ pc[p] = "idle"
    /\ CanReply(reviews[s])
    /\ Goto(p, "writeReply", [NoLocal EXCEPT !.side = s,
                                             !.theirs = [reviews[s] EXCEPT !.replied = TRUE]])
    /\ UNCHANGED <<deal, disputes, asked, reviews, aged, faults, barred>>

WriteReply(p) ==
    /\ pc[p] = "writeReply"
    /\ UpdateReview(loc[p].side, loc[p].theirs)
    /\ Return(p)
    /\ UNCHANGED <<deal, disputes, asked, aged, faults>>

-----------------------------------------------------------------------------
(* The scheduler.                                                          *)

WeekPasses(s) ==
    /\ reviews[s].stage # "absent" /\ s \notin aged
    /\ aged' = aged \cup {s}
    /\ UNCHANGED <<deal, disputes, asked, reviews, pc, loc, faults, barred>>

(* Mutant: lone reviews only, as its comment reads.                        *)
DueReviews_Lonely == {s \in aged : reviews[s].stage = "hidden" /\ reviews[Other(s)].stage = "absent"}

(* Hidden and old; the other side is not looked at.                        *)
DueReviews == {s \in aged : reviews[s].stage = "hidden"}

(* publishDueReviews reads the list and then writes one after the other;   *)
(* ShouldPublish is certain on what DueReviews returns.                    *)
PublishDueReviews ==
    /\ pc[Scheduler] = "idle" /\ DueReviews # {}
    /\ Goto(Scheduler, "openDue",
            [NoLocal EXCEPT !.due = [s \in Sides |-> IF s \in DueReviews THEN reviews[s]
                                                                         ELSE NoRow]])
    /\ UNCHANGED <<deal, disputes, asked, reviews, aged, faults, barred>>

OpenDue ==
    /\ pc[Scheduler] = "openDue"
    /\ LET due == loc[Scheduler].due IN
       \/ /\ due = NoLocal.due
          /\ Return(Scheduler)
          /\ UNCHANGED reviews
       \/ \E s \in Sides :
            /\ due[s] # NoRow
            /\ UpdateReview(s, Opened(due[s]))
            /\ Goto(Scheduler, "openDue", [NoLocal EXCEPT !.due = [due EXCEPT ![s] = NoRow]])
            /\ UNCHANGED barred
    /\ UNCHANGED <<deal, disputes, asked, aged, faults>>

-----------------------------------------------------------------------------
(* What happens to the deal and its disputes meanwhile: the customer       *)
(* accepts the work, somebody opens a dispute, a moderator settles it.     *)

AcceptWork(p) ==
    /\ pc[p] = "idle" /\ deal \in {"work_done", "disputed"}
    /\ Goto(p, "writeDeal", [NoLocal EXCEPT !.deal = "completed"])
    /\ UNCHANGED <<deal, disputes, asked, reviews, aged, faults, barred>>

WriteDeal(p) ==
    /\ pc[p] = "writeDeal"
    /\ deal' = loc[p].deal
    /\ Return(p)
    /\ UNCHANGED <<disputes, asked, reviews, aged, faults>>

CanOpenDispute(status) == status \in {"work_done", "completed", "disputed"}

(* created_at is the time of the request, not of the insert.               *)
OpenDispute(p) ==
    /\ pc[p] = "idle" /\ CanOpenDispute(deal)
    /\ asked < MaxDisputes
    /\ asked' = asked + 1
    /\ Goto(p, "createDispute", [NoLocal EXCEPT !.deal = deal, !.dispute = asked + 1])
    /\ UNCHANGED <<deal, disputes, reviews, aged, faults, barred>>

(* The unique index allows one open dispute per deal; a completed deal is  *)
(* not parked.                                                             *)
CreateDispute(p) ==
    /\ pc[p] = "createDispute"
    /\ IF DisputeOpen
       THEN Return(p) /\ UNCHANGED disputes
       ELSE /\ disputes' = [disputes EXCEPT ![loc[p].dispute] = "open"]
            /\ IF loc[p].deal = "work_done"
               THEN Goto(p, "writeDeal", [NoLocal EXCEPT !.deal = "disputed"])
                    /\ UNCHANGED barred
               ELSE Return(p)
    /\ UNCHANGED <<deal, asked, reviews, aged, faults>>

ResolveDispute(p, n, verdict) ==
    /\ pc[p] = "idle"
    /\ disputes[n] = "open"
    /\ Goto(p, "writeDispute", [NoLocal EXCEPT !.dispute = n, !.deal = verdict])
    /\ UNCHANGED <<deal, disputes, asked, reviews, aged, faults, barred>>

UpdateDispute(p) ==
    /\ pc[p] = "writeDispute"
    /\ disputes' = [disputes EXCEPT ![loc[p].dispute] = "resolved"]
    /\ Goto(p, "readDeal", loc[p])
    /\ barred' = IF \E n \in Stamps : disputes'[n] = "open" THEN barred ELSE {}
    /\ UNCHANGED <<deal, asked, reviews, aged, faults>>

(* Only a deal that is parked is settled.                                  *)
ReadDeal(p) ==
    /\ pc[p] = "readDeal"
    /\ IF deal = "disputed"
       THEN Goto(p, "writeDeal", [NoLocal EXCEPT !.deal = loc[p].deal]) /\ UNCHANGED barred
       ELSE Return(p)
    /\ UNCHANGED <<deal, disputes, asked, reviews, aged, faults>>

-----------------------------------------------------------------------------
(* A statement fails or the process stops: the request, or the round of    *)
(* the scheduler, is over and what it has written stays.  CheckFails is    *)
(* the statement whose error does not end the request.                     *)
Fail(p) ==
    /\ faults > 0 /\ pc[p] # "idle"
    /\ faults' = faults - 1
    /\ Return(p)
    /\ UNCHANGED <<deal, disputes, asked, reviews, aged>>

Begin(p) ==
    \/ \E s \in Sides : LeaveReview(p, s) \/ ReplyToReview(p, s)
    \/ AcceptWork(p) \/ OpenDispute(p)
    \/ \E n \in Stamps, verdict \in Verdicts : ResolveDispute(p, n, verdict)

Continue(p) ==
    \/ CheckDispute(p) \/ CheckFails(p) \/ ReviewsByDeal(p) \/ CreateReview(p) \/ OpenTheirs(p)
    \/ WriteReply(p) \/ WriteDeal(p) \/ CreateDispute(p) \/ UpdateDispute(p) \/ ReadDeal(p)

SchedulerStep == PublishDueReviews \/ OpenDue

Next ==
    \/ \E p \in Requests : Begin(p) \/ Continue(p)
    \/ SchedulerStep
    \/ \E s \in Sides : WeekPasses(s)
    \/ \E p \in Procs : Fail(p)

Spec == Init /\ [][Next]_vars

(* Weeks pass, and the ticker of Scheduler.Run starts a round every minute *)
(* whether or not the last one failed.  Nobody is obliged to send requests.*)
RoundsGoOn == WF_vars(SchedulerStep)
WeeksPass(s) == WF_vars(WeekPasses(s))

FairSpec == Spec /\ RoundsGoOn /\ \A s \in Sides : WeeksPass(s)

-----------------------------------------------------------------------------
(* What ReviewsAbout lists and RatingOf counts.                            *)
Blind == INSTANCE BlindReviews WITH stage <- [s \in Sides |-> reviews[s].stage]

(***************************************************************************)
(* LeaveReview, ReplyToReview and publishDueReviews together keep the      *)
(* promise of BlindReviews: whatever stale copies are written, a review    *)
(* opens only when the other side has written or after a week, and an open *)
(* review is never hidden again.                                           *)
(***************************************************************************)
KeepsReviewsBlind == Blind!Spec

PastFreeze(p) == pc[p] \in {"createReview", "openTheirs"}

(* An open dispute that was inserted after a later one had been settled.   *)
LateDispute ==
    \E n, m \in Stamps : n < m /\ disputes[n] = "open" /\ disputes[m] = "resolved"

(***************************************************************************)
(* How far LeaveReview freezes reviews while a dispute goes on.  One that  *)
(* comes during a dispute gets to CreateReview before it is settled only   *)
(* when DisputeByDeal failed, or when the open dispute is not the latest   *)
(* by created_at because two OpenDispute overlapped: never just because an *)
(* earlier dispute was settled, and however verdicts and new disputes come *)
(* in between.  The comment in LeaveReview knows of neither gap: it says   *)
(* that reviews are frozen during a dispute.                               *)
(***************************************************************************)
FreezeHasTwoGaps ==
    \A p \in barred : PastFreeze(p) => loc[p].err \/ LateDispute

(***************************************************************************)
(* Nobody answers what the public cannot see: ReplyToReview and the stale  *)
(* copies written by LeaveReview and the scheduler never leave a reply on  *)
(* a hidden review.                                                        *)
(***************************************************************************)
RepliesAreOpen == \A s \in Sides : reviews[s].replied => reviews[s].stage = "open"

(* The review of one side does not stay hidden.                            *)
OpensInTheEnd(s) == reviews[s].stage # "absent" ~> reviews[s].stage = "open"

(***************************************************************************)
(* Every review opens in the end: also when both sides wrote at the same   *)
(* moment and neither saw the other's review, and when LeaveReview stopped *)
(* between its two writes.                                                 *)
(***************************************************************************)
EveryReviewOpens == \A s \in Sides : OpensInTheEnd(s)

-----------------------------------------------------------------------------
(* The inductive invariants of the proofs.                                 *)

(* What a process that holds local l and stands at a label may rely on,    *)
(* however old its copies are: rows are never removed nor hidden again.    *)
Grounded(label, l) ==
    /\ label \in {"createReview", "openTheirs"} /\ l.theirs.stage # "absent"
         => reviews[Other(l.side)].stage # "absent"
    /\ label = "openTheirs" => reviews[l.side].stage # "absent" /\ l.theirs.stage = "hidden"
    /\ label = "writeReply" => reviews[l.side].stage = "open" /\ l.theirs.stage = "open"
    /\ \A s \in Sides : l.due[s] # NoRow => s \in aged /\ reviews[s].stage # "absent"

ReviewInv ==
    /\ TypeOK
    /\ RepliesAreOpen
    /\ \A p \in Procs : Grounded(pc[p], loc[p])

ThroughGap(p) ==
    /\ pc[p] \in {"readReviews", "createReview", "openTheirs"}
    /\ loc[p].err \/ LateDispute

(* At most one dispute is open, and who came during a dispute that still   *)
(* goes on has not yet asked for it or went through a gap.                 *)
FreezeInv ==
    /\ TypeOK
    /\ \A n, m \in Stamps : disputes[n] = "open" /\ disputes[m] = "open" => n = m
    /\ barred # {} => DisputeOpen
    /\ \A p \in barred : pc[p] = "checkDispute" \/ ThroughGap(p)

=============================================================================
