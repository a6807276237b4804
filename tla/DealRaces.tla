----------------------------- MODULE DealRaces -----------------------------
(***************************************************************************)
(* A deal under requests that overlap.  A handler of the orders service is *)
(* a sequence of SQL statements without a transaction: it reads a row,     *)
(* decides on its copy and writes the whole row back, and other requests   *)
(* and the scheduler run between any two statements.  Here one action is   *)
(* one statement (with the local computation that follows it).             *)
(*                                                                         *)
(* The choice of the executor is behind us: the job is deal_pending and    *)
(* the model follows ConfirmDeal, AdvanceDeal, CancelDeal, OpenDispute,    *)
(* ResolveDispute, Cancel of the job, and autoAccept.  A statement may     *)
(* fail, and the process may stop, after any other statement: the request  *)
(* is gone and what it has written stays.                                  *)
(***************************************************************************)
EXTENDS Workflow, Sequences, SequencesExt

CONSTANTS
    Requests,     \* HTTP requests that may be in flight at the same time
    Scheduler,    \* the scheduler goroutine
    MaxDisputes,  \* bound on the disputes that are ever opened
    Faults        \* whether statements may fail

ASSUME ProcAssumption == Scheduler \notin Requests /\ Faults \in BOOLEAN
ASSUME DisputeBound == MaxDisputes \in Nat

Procs == Requests \cup {Scheduler}
DisputeIds == 1..MaxDisputes

VARIABLES
    job,        \* status column of the job
    deal,       \* row of the deal: status, timeline, acceptance deadline
    disputes,   \* status column of each dispute, "none" before it exists
    expired,    \* the acceptance deadline has passed
    pc,         \* what each request does next
    loc,        \* the row each request is about to write, its dispute, its verdict
    ever        \* history: statuses the deal row has had

rows == <<job, deal, disputes>>
vars == <<rows, expired, pc, loc, ever>>

-----------------------------------------------------------------------------
NoRow == [status |-> "none", timeline |-> <<>>, deadline |-> FALSE]
Row == [status : DealStatuses \cup {"none"}, timeline : Seq(DealStatuses),
        deadline : BOOLEAN]
NoLocal == [row |-> NoRow, dispute |-> 0, verdict |-> "none"]
Local == [row : Row, dispute : DisputeIds \cup {0},
          verdict : DisputeOutcomes \cup {"none"}]

Labels == {"idle", "findDeal", "createDeal", "confirmJob", "cancelJob",
           "writeDeal", "writeJob", "createDispute", "writeDispute", "readDeal",
           "autoRead", "autoStep"}

(* The rows and the copies in flight keep their shape.                     *)
TypeOK ==
    /\ job \in JobStatuses
    /\ deal \in Row
    /\ disputes \in [DisputeIds -> {"none", "open", "resolved"}]
    /\ expired \in BOOLEAN
    /\ pc \in [Procs -> Labels]
    /\ loc \in [Procs -> Local]
    /\ ever \subseteq DealStatuses

Init ==
    /\ job = "deal_pending"
    /\ deal = NoRow
    /\ disputes = [n \in DisputeIds |-> "none"]
    /\ expired = FALSE
    /\ pc = [p \in Procs |-> "idle"]
    /\ loc = [p \in Procs |-> NoLocal]
    /\ ever = {}

-----------------------------------------------------------------------------
(* The statements of the store.                                            *)

Goto(p, label) == pc' = [pc EXCEPT ![p] = label]

Return(p) == /\ Goto(p, "idle")
             /\ loc' = [loc EXCEPT ![p] = NoLocal]

(* Mutant: the timeline is appended to the row as it is now.               *)
UpdateDeal_Merge(row) ==
    deal' = [row EXCEPT !.timeline = Append(deal.timeline, row.status)]

(***************************************************************************)
(* UpdateDeal writes status, timeline and deadline of the copy, whatever   *)
(* the row says by now.                                                    *)
(***************************************************************************)
UpdateDeal(row) == deal' = row

OpenDisputes == {n \in DisputeIds : disputes[n] = "open"}

-----------------------------------------------------------------------------
(* A step of a deal on the handler's copy.                                 *)

(* Mutant: the deadline is forgotten.                                      *)
Stepped_NoDeadline(d, to) ==
    [status |-> to, timeline |-> Append(d.timeline, to), deadline |-> d.deadline]

(* Mutant: the mark of the timeline is taken before the status changes.    *)
Stepped_MarkFirst(d, to) ==
    [status |-> to, timeline |-> Append(d.timeline, d.status),
     deadline |-> d.deadline \/ to = "work_done"]

(* The new status, its mark in the timeline, the deadline to object.       *)
Stepped(d, to) ==
    [status   |-> to,
     timeline |-> Append(d.timeline, to),
     deadline |-> d.deadline \/ to = "work_done"]

(* Mutant: the job first.                                                  *)
FirstWrite_Job == "writeJob"

(* The deal is written first, the job follows.                             *)
FirstWrite == "writeDeal"

Prepare(p, row) ==
    /\ loc' = [loc EXCEPT ![p] = [NoLocal EXCEPT !.row = row]]
    /\ Goto(p, FirstWrite)

(* Of the copy only the status is used after this statement.               *)
WriteDeal(p) ==
    /\ pc[p] = "writeDeal"
    /\ UpdateDeal(loc[p].row)
    /\ ever' = ever \cup {deal'.status}
    /\ expired' = IF loc[p].row.status = "work_done" THEN FALSE ELSE expired
    /\ Goto(p, "writeJob")
    /\ loc' = [loc EXCEPT ![p].row = [NoRow EXCEPT !.status = loc[p].row.status]]
    /\ UNCHANGED <<job, disputes>>

(***************************************************************************)
(* ByID and Update of the job in one: the status that was read is          *)
(* overwritten unconditionally and no other column differs any more.       *)
(***************************************************************************)
WriteJob(p) ==
    /\ pc[p] = "writeJob"
    /\ job' = JobStatusForDeal(loc[p].row.status)
    /\ Return(p)
    /\ UNCHANGED <<deal, disputes, expired, ever>>

-----------------------------------------------------------------------------
(* ConfirmDeal.                                                            *)

ConfirmDeal(p) ==
    /\ pc[p] = "idle"
    /\ job = "deal_pending"
    /\ Goto(p, "findDeal")
    /\ UNCHANGED <<rows, expired, loc, ever>>

FindDeal(p) ==
    /\ pc[p] = "findDeal"
    /\ Goto(p, IF deal.status = "none" THEN "createDeal" ELSE "idle")
    /\ UNCHANGED <<rows, expired, loc, ever>>

(* The unique index on job_id: a second insert is an error.                *)
CreateDeal(p) ==
    /\ pc[p] = "createDeal"
    /\ \/ /\ deal.status = "none"
          /\ deal' = Stepped(NoRow, "confirmed")
          /\ ever' = {"confirmed"}
          /\ Goto(p, "confirmJob")
       \/ /\ deal.status # "none"
          /\ Goto(p, "idle")
          /\ UNCHANGED <<deal, ever>>
    /\ UNCHANGED <<job, disputes, expired, loc>>

ConfirmJob(p) ==
    /\ pc[p] = "confirmJob"
    /\ job' = "confirmed"
    /\ Goto(p, "idle")
    /\ UNCHANGED <<deal, disputes, expired, loc, ever>>

-----------------------------------------------------------------------------
(* AdvanceDeal and CancelDeal: the reading statement, with its check.      *)

StepTargets == {"on_the_way", "in_progress", "work_done", "completed", "disputed",
                "cancelled"}

AdvanceDeal(p, side, to) ==
    /\ pc[p] = "idle"
    /\ CanAdvance(deal.status, to, side)
    /\ Prepare(p, Stepped(deal, to))
    /\ UNCHANGED <<rows, expired, ever>>

-----------------------------------------------------------------------------
(* OpenDispute and ResolveDispute.                                         *)

DisputeParks(s) == s \notin {"disputed", "completed"}

OpenDispute(p) ==
    /\ pc[p] = "idle"
    /\ CanOpenDispute(deal.status)
    /\ loc' = [loc EXCEPT ![p].row = deal]
    /\ Goto(p, "createDispute")
    /\ UNCHANGED <<rows, expired, ever>>

(* The unique index allows one open dispute per deal.                      *)
CreateDispute(p) ==
    /\ pc[p] = "createDispute"
    /\ \/ /\ OpenDisputes = {}
          /\ \E n \in DisputeIds :
               /\ disputes[n] = "none"
               /\ \A m \in 1..(n - 1) : disputes[m] # "none"
               /\ disputes' = [disputes EXCEPT ![n] = "open"]
          /\ IF DisputeParks(loc[p].row.status)
             THEN Prepare(p, Stepped(loc[p].row, "disputed"))
             ELSE Return(p)
       \/ /\ OpenDisputes # {}
          /\ Return(p)
          /\ UNCHANGED disputes
    /\ UNCHANGED <<job, deal, expired, ever>>

ResolveDispute(p, n, outcome) ==
    /\ pc[p] = "idle"
    /\ disputes[n] = "open"
    /\ loc' = [loc EXCEPT ![p].dispute = n, ![p].verdict = outcome]
    /\ Goto(p, "writeDispute")
    /\ UNCHANGED <<rows, expired, ever>>

(***************************************************************************)
(* By id and without a condition: another moderator may have been faster.  *)
(* The outcome that is stored is never read back.                          *)
(***************************************************************************)
WriteDispute(p) ==
    /\ pc[p] = "writeDispute"
    /\ disputes' = [disputes EXCEPT ![loc[p].dispute] = "resolved"]
    /\ loc' = [loc EXCEPT ![p].dispute = 0]
    /\ Goto(p, "readDeal")
    /\ UNCHANGED <<job, deal, expired, ever>>

ReadDeal(p) ==
    /\ pc[p] = "readDeal"
    /\ IF deal.status = "disputed"
       THEN Prepare(p, Stepped(deal, IF loc[p].verdict = "client" THEN "cancelled"
                                                                  ELSE "completed"))
       ELSE Return(p)
    /\ UNCHANGED <<rows, expired, ever>>

-----------------------------------------------------------------------------
(* Cancel of the job, and the removal of the job by a moderator.           *)

Cancel(p) ==
    /\ pc[p] = "idle"
    /\ CanTransition(job, "cancelled")
    /\ Goto(p, "cancelJob")
    /\ UNCHANGED <<rows, expired, loc, ever>>

CancelJob(p) ==
    /\ pc[p] = "cancelJob"
    /\ job' = "cancelled"
    /\ Goto(p, "idle")
    /\ UNCHANGED <<deal, disputes, expired, loc, ever>>

-----------------------------------------------------------------------------
(* The scheduler: DueJobs, then autoAccept, which reads the deal, checks   *)
(* it, and calls AdvanceDeal, which reads it again.                        *)

Due == job = "work_done" /\ deal.status = "work_done" /\ deal.deadline /\ expired

DueJobs ==
    /\ pc[Scheduler] = "idle"
    /\ Due
    /\ Goto(Scheduler, "autoRead")
    /\ UNCHANGED <<rows, expired, loc, ever>>

AutoAccept ==
    /\ pc[Scheduler] = "autoRead"
    /\ Goto(Scheduler, IF deal.status = "work_done" THEN "autoStep" ELSE "idle")
    /\ UNCHANGED <<rows, expired, loc, ever>>

AutoStep ==
    /\ pc[Scheduler] = "autoStep"
    /\ IF CanAdvance(deal.status, "completed", "client")
       THEN Prepare(Scheduler, Stepped(deal, "completed"))
       ELSE Return(Scheduler)
    /\ UNCHANGED <<rows, expired, ever>>

(* The acceptance deadline passes.                                         *)
Tick ==
    /\ deal.deadline /\ ~expired
    /\ expired' = TRUE
    /\ UNCHANGED <<rows, pc, loc, ever>>

(* A statement fails, or the process stops: the request is over.           *)
Fail(p) ==
    /\ Faults
    /\ pc[p] # "idle"
    /\ Return(p)
    /\ UNCHANGED <<rows, expired, ever>>

-----------------------------------------------------------------------------
Begin(p) ==
    \/ ConfirmDeal(p)
    \/ \E side \in Sides, to \in StepTargets : AdvanceDeal(p, side, to)
    \/ OpenDispute(p)
    \/ \E n \in DisputeIds, outcome \in DisputeOutcomes : ResolveDispute(p, n, outcome)
    \/ Cancel(p)

Continue(p) ==
    \/ FindDeal(p) \/ CreateDeal(p) \/ ConfirmJob(p)
    \/ WriteDeal(p) \/ WriteJob(p)
    \/ CreateDispute(p) \/ WriteDispute(p) \/ ReadDeal(p)
    \/ CancelJob(p)

SchedulerStep == DueJobs \/ AutoAccept \/ AutoStep

Next ==
    \/ \E p \in Requests : Begin(p)
    \/ \E p \in Procs : Continue(p) \/ Fail(p)
    \/ SchedulerStep
    \/ Tick

Spec == Init /\ [][Next]_vars

(***************************************************************************)
(* A request that has begun goes on, the scheduler runs, time passes;      *)
(* nobody has to send a request.                                           *)
(***************************************************************************)
GoesOn(p) == WF_vars(Continue(p))

FairSpec ==
    /\ Spec
    /\ WF_vars(Tick)
    /\ WF_vars(SchedulerStep)
    /\ \A p \in Procs : GoesOn(p)

-----------------------------------------------------------------------------
(* What overlapping requests cannot break.                                 *)

(* The steps somebody is allowed to take.                                  *)
Follows(a, b) ==
    \/ \E side \in Sides : CanAdvance(a, b, side)
    \/ CanOpenDispute(a) /\ DisputeParks(a) /\ b = "disputed"

LegalRow(d) ==
    /\ d.timeline # <<>>
    /\ d.timeline[1] = "confirmed"
    /\ \A i \in 1..(Len(d.timeline) - 1) : Follows(d.timeline[i], d.timeline[i + 1])
    /\ d.status = Last(d.timeline)
    /\ d.deadline <=> \E i \in 1..Len(d.timeline) : d.timeline[i] = "work_done"

(***************************************************************************)
(* The row of a deal always tells a story that could have happened: its    *)
(* timeline is a path of permitted steps that ends in its status, and it   *)
(* has a deadline if and only if the work was reported done.  Every        *)
(* handler writes all columns of one copy, so a lost update loses whole    *)
(* steps and never mixes two stories.                                      *)
(***************************************************************************)
TimelineIsLegal == deal.status # "none" => LegalRow(deal)

(***************************************************************************)
(* The job never runs ahead of its deal: apart from cancelled it only ever *)
(* shows what the deal has been, because every handler writes the deal     *)
(* first.  It may lag behind.                                              *)
(***************************************************************************)
JobNeverAhead ==
    job \in {"deal_pending", "cancelled"} \cup {JobStatusForDeal(s) : s \in ever}

(***************************************************************************)
(* Work that is reported done is accepted, disputed or auto-accepted, as   *)
(* long as the parties send one request at a time and no statement fails.  *)
(***************************************************************************)
SilenceIsConsent == deal.status = "work_done" ~> deal.status # "work_done"

-----------------------------------------------------------------------------
(* The inductive invariant of the proofs.                                  *)

(* What a request that is about to run the statement at a label carries.   *)
Carries(label, l) ==
    /\ label = "writeDeal" => LegalRow(l.row)
    /\ label = "createDispute" => LegalRow(l.row) /\ CanOpenDispute(l.row.status)
    /\ label = "writeJob" => l.row.status \in ever
    /\ label = "confirmJob" => "confirmed" \in ever

DealInv ==
    /\ TypeOK
    /\ TimelineIsLegal
    /\ JobNeverAhead
    /\ deal.status = "none" => ever = {}
    /\ \A p \in Procs : Carries(pc[p], loc[p])

=============================================================================
