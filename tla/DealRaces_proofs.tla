-------------------------- MODULE DealRaces_proofs --------------------------
(***************************************************************************)
(* What overlapping requests cannot do to a deal, for any number of        *)
(* requests and disputes: its timeline stays a legal story, and its job    *)
(* never runs ahead of it.  And what a single request can rely on: work    *)
(* that is reported done does not wait for ever.                           *)
(***************************************************************************)
EXTENDS DealRaces, SequenceTheorems, TLAPS

-----------------------------------------------------------------------------
(* Rows.                                                                   *)

(* The blank rows have the shape of rows.                                  *)
LEMMA BlankType == NoRow \in Row /\ NoLocal \in Local /\ NoLocal.row = NoRow
<1>1. <<>> \in Seq(DealStatuses)
  BY EmptySeq
<1>2. NoRow \in Row
  BY <1>1 DEF NoRow, Row
<1>3. QED
  BY <1>2 DEF NoLocal, Local

(* Steps lead to statuses of a deal.                                       *)
LEMMA FollowsType ==
    ASSUME NEW a, NEW b, Follows(a, b) PROVE a # "none" /\ b \in DealStatuses
BY DEF Follows, CanAdvance, OwnerSteps, ClientSteps, CanOpenDispute, DisputeParks,
       Sides, DealStatuses

(* A step keeps the shape of a row.                                        *)
LEMMA SteppedType ==
    ASSUME NEW d \in Row, NEW to \in DealStatuses
    PROVE  Stepped(d, to) \in Row /\ Stepped(d, to).status = to
<1>1. d.timeline \in Seq(DealStatuses)
  BY DEF Row
<1>2. Append(d.timeline, to) \in Seq(DealStatuses)
  BY <1>1, AppendProperties
<1>3. (d.deadline \/ to = "work_done") \in BOOLEAN
  OBVIOUS
<1>4. QED
  BY <1>2, <1>3 DEF Stepped, Row

(* A permitted step goes on with a legal story.                            *)
LEMMA SteppedLegal ==
    ASSUME NEW d \in Row, LegalRow(d), NEW to \in DealStatuses, Follows(d.status, to)
    PROVE  LegalRow(Stepped(d, to))
<1> DEFINE s == d.timeline
           t == Append(s, to)
           e == Stepped(d, to)
<1>1. s \in Seq(DealStatuses) /\ s # <<>> /\ Len(s) \in Nat /\ Len(s) # 0
  BY LenProperties, EmptySeq DEF Row, LegalRow
<1>2. /\ t \in Seq(DealStatuses) /\ Len(t) = Len(s) + 1
      /\ \A i \in 1..Len(s) : t[i] = s[i]
      /\ t[Len(s) + 1] = to
  BY <1>1, AppendProperties
<1>3. e.status = to /\ e.timeline = t /\ e.deadline = (d.deadline \/ to = "work_done")
  BY DEF Stepped
<1>4. t # <<>>
  BY <1>1, <1>2, EmptySeq
<1>5. t[1] = "confirmed"
  BY <1>1, <1>2 DEF LegalRow
<1>6. d.status = s[Len(s)]
  BY <1>1 DEF LegalRow, Last
<1>7. ASSUME NEW i \in 1..(Len(t) - 1) PROVE Follows(t[i], t[i + 1])
  <2>1. CASE i = Len(s)
    BY <1>1, <1>2, <1>6, <2>1
  <2>2. CASE i # Len(s)
    <3>1. i \in 1..(Len(s) - 1) /\ i \in 1..Len(s) /\ i + 1 \in 1..Len(s)
      BY <1>1, <1>2, <2>2
    <3>2. QED
      BY <1>2, <3>1 DEF LegalRow
  <2>3. QED
    BY <2>1, <2>2
<1>8. to = Last(t)
  BY <1>2 DEF Last
<1>9. (d.deadline \/ to = "work_done") <=> \E i \in 1..Len(t) : t[i] = "work_done"
  <2>1. d.deadline <=> \E i \in 1..Len(s) : s[i] = "work_done"
    BY DEF LegalRow
  <2>2. \A i : i \in 1..Len(t) <=> i \in 1..Len(s) \/ i = Len(s) + 1
    BY <1>1, <1>2
  <2>3. QED
    BY <1>2, <2>1, <2>2
<1>10. QED
  BY <1>3, <1>4, <1>5, <1>7, <1>8, <1>9 DEF LegalRow

(* The story begins with the confirmation.                                 *)
LEMMA FirstStory == /\ Stepped(NoRow, "confirmed") \in Row
                    /\ Stepped(NoRow, "confirmed").status = "confirmed"
                    /\ LegalRow(Stepped(NoRow, "confirmed"))
<1> DEFINE t == Append(<<>>, "confirmed")
           e == Stepped(NoRow, "confirmed")
<1>1. e.status = "confirmed" /\ e.timeline = t /\ ~e.deadline
  BY DEF Stepped, NoRow
<1>2. <<>> \in Seq(DealStatuses) /\ Len(<<>>) = 0 /\ "confirmed" \in DealStatuses
  BY EmptySeq DEF DealStatuses
<1>3. t \in Seq(DealStatuses) /\ Len(t) = 1 /\ t[1] = "confirmed"
  BY <1>2, AppendProperties
<1>4. t # <<>> /\ Last(t) = "confirmed"
  BY <1>2, <1>3 DEF Last
<1>5. LegalRow(e)
  BY <1>1, <1>3, <1>4 DEF LegalRow
<1>6. QED
  BY <1>1, <1>2, <1>5, BlankType, SteppedType

(* The status of a legal story is a status of a deal.                      *)
LEMMA LegalStatus ==
    ASSUME NEW d \in Row, LegalRow(d) PROVE d.status \in DealStatuses
<1>1. d.timeline \in Seq(DealStatuses) /\ d.timeline # <<>>
  BY DEF Row, LegalRow
<1>2. Len(d.timeline) \in Nat /\ Len(d.timeline) # 0
  BY <1>1, LenProperties, EmptySeq
<1>3. d.timeline[Len(d.timeline)] \in DealStatuses
  BY <1>1, <1>2, ElementOfSeq
<1>4. QED
  BY <1>3 DEF LegalRow, Last

-----------------------------------------------------------------------------
(* What one statement of a request does.                                   *)

(* Process p goes on, with what it needs at its next statement.            *)
Lands(p) ==
    \E label \in Labels, l \in Local :
        /\ pc' = [pc EXCEPT ![p] = label] /\ loc' = [loc EXCEPT ![p] = l]
        /\ \A d : d = l => Carries(label, d)'

(* The deal keeps its shape and its story.                                 *)
DealKeeps ==
    /\ deal' \in Row /\ ever \subseteq ever' /\ ever' \subseteq DealStatuses
    /\ deal'.status # "none" => LegalRow(deal')
    /\ deal'.status = "none" => ever' = {}

(* The job shows nothing that the deal has not been.                       *)
JobKeeps ==
    job' \in {"deal_pending", "cancelled"} \cup {JobStatusForDeal(s) : s \in ever'}

StepOf(p) ==
    /\ Lands(p) /\ DealKeeps /\ JobKeeps
    /\ disputes' \in [DisputeIds -> {"none", "open", "resolved"}]
    /\ expired' \in BOOLEAN

(* A row of the deal that is not written is kept.                          *)
LEMMA DealRests == ASSUME DealInv, UNCHANGED <<deal, ever>> PROVE DealKeeps
BY DEF DealInv, DealKeeps, TypeOK, TimelineIsLegal

(* So is the job, whatever has happened to the deal.                       *)
LEMMA JobRests == ASSUME DealInv, UNCHANGED job, ever \subseteq ever' PROVE JobKeeps
BY DEF DealInv, JobKeeps, JobNeverAhead

(* A request that ends carries nothing.                                    *)
LEMMA ReturnLands == ASSUME NEW p, Return(p) PROVE Lands(p)
<1>1. \A d : Carries("idle", d)'
  BY DEF Carries
<1>2. QED
  BY <1>1, BlankType DEF Return, Goto, Lands, Labels

(* Nor does one that goes to a statement where nothing is needed.          *)
LEMMA GotoLands ==
    ASSUME TypeOK, NEW p \in Procs, UNCHANGED loc,
           NEW label \in {"idle", "findDeal", "createDeal", "cancelJob", "autoRead", "autoStep"},
           Goto(p, label)
    PROVE  Lands(p)
<1>1. \E l \in Local : loc' = [loc EXCEPT ![p] = l]
  <2>1. loc[p] \in Local /\ loc' = [loc EXCEPT ![p] = loc[p]]
    BY DEF TypeOK
  <2>2. QED
    BY <2>1
<1>2. \A d : Carries(label, d)'
  BY DEF Carries
<1>3. label \in Labels /\ pc' = [pc EXCEPT ![p] = label]
  BY DEF Goto, Labels
<1>4. QED
  BY <1>1, <1>2, <1>3 DEF Lands

(* A request is about to write a legal row.                                *)
LEMMA PrepareLands ==
    ASSUME NEW p, NEW row \in Row, LegalRow(row), Prepare(p, row)
    PROVE  Lands(p)
<1> DEFINE l == [NoLocal EXCEPT !.row = row]
<1>1. l \in Local /\ l.row = row
  BY BlankType DEF Local
<1>2. \A d : d = l => Carries("writeDeal", d)'
  BY <1>1 DEF Carries
<1>3. QED
  BY <1>1, <1>2 DEF Prepare, FirstWrite, Goto, Lands, Labels

(* A permitted step of the deal as it is now is prepared.                  *)
LEMMA StepLands ==
    ASSUME DealInv, NEW p, NEW to, Follows(deal.status, to), Prepare(p, Stepped(deal, to))
    PROVE  Lands(p)
<1>1. deal \in Row /\ LegalRow(deal) /\ to \in DealStatuses
  BY FollowsType DEF DealInv, TypeOK, TimelineIsLegal
<1>2. QED
  BY <1>1, SteppedType, SteppedLegal, PrepareLands

-----------------------------------------------------------------------------
(* Every statement of every request.                                       *)

(* Statements that only read.                                              *)
LEMMA ReadStep ==
    ASSUME DealInv, NEW p \in Procs, Lands(p), UNCHANGED <<rows, expired, ever>>
    PROVE  StepOf(p)
BY DealRests, JobRests DEF StepOf, DealInv, TypeOK, rows

(* The beginnings of requests.                                             *)
LEMMA BeginStep == ASSUME DealInv, NEW p \in Procs, Begin(p) PROVE StepOf(p)
<1>1. UNCHANGED <<rows, expired, ever>>
  BY DEF Begin, ConfirmDeal, AdvanceDeal, OpenDispute, ResolveDispute, Cancel
<1>2. TypeOK /\ loc[p] \in Local
  BY DEF DealInv, TypeOK
<1>3. ASSUME ConfirmDeal(p) \/ Cancel(p) PROVE Lands(p)
  BY <1>2, <1>3, GotoLands DEF ConfirmDeal, Cancel
<1>4. ASSUME NEW side \in Sides, NEW to \in StepTargets, AdvanceDeal(p, side, to)
      PROVE  Lands(p)
  <2>1. Follows(deal.status, to)
    BY <1>4 DEF AdvanceDeal, Follows
  <2>2. QED
    BY <1>4, <2>1, StepLands DEF AdvanceDeal
<1>5. ASSUME OpenDispute(p) PROVE Lands(p)
  <2> DEFINE l == [loc[p] EXCEPT !.row = deal]
  <2>1. deal \in Row /\ LegalRow(deal) /\ CanOpenDispute(deal.status)
    BY <1>5 DEF DealInv, TypeOK, TimelineIsLegal, OpenDispute, CanOpenDispute
  <2>2. l \in Local /\ l.row = deal
    BY <1>2, <2>1 DEF Local
  <2>3. \A d : d = l => Carries("createDispute", d)'
    BY <2>1, <2>2 DEF Carries
  <2>4. loc' = [loc EXCEPT ![p] = l] /\ pc' = [pc EXCEPT ![p] = "createDispute"]
    BY <1>5 DEF OpenDispute, Goto
  <2>5. QED
    BY <2>2, <2>3, <2>4 DEF Lands, Labels
<1>6. ASSUME NEW n \in DisputeIds, NEW outcome \in DisputeOutcomes,
             ResolveDispute(p, n, outcome)
      PROVE  Lands(p)
  <2> DEFINE l == [loc[p] EXCEPT !.dispute = n, !.verdict = outcome]
  <2>1. l \in Local
    BY <1>2 DEF Local
  <2>2. \A d : d = l => Carries("writeDispute", d)'
    BY DEF Carries
  <2>3. loc' = [loc EXCEPT ![p] = l] /\ pc' = [pc EXCEPT ![p] = "writeDispute"]
    BY <1>6 DEF ResolveDispute, Goto
  <2>4. QED
    BY <2>1, <2>2, <2>3 DEF Lands, Labels
<1>7. Lands(p)
  BY <1>3, <1>4, <1>5, <1>6 DEF Begin
<1>8. QED
  BY <1>1, <1>7, ReadStep

(* ConfirmDeal after its first check, and Cancel of the job.               *)
LEMMA ConfirmStep ==
    ASSUME DealInv, NEW p \in Procs,
           FindDeal(p) \/ CreateDeal(p) \/ ConfirmJob(p) \/ CancelJob(p)
    PROVE  StepOf(p)
<1>1. /\ TypeOK /\ loc[p] \in Local /\ pc[p] \in Labels /\ Carries(pc[p], loc[p])
      /\ disputes \in [DisputeIds -> {"none", "open", "resolved"}] /\ expired \in BOOLEAN
  BY DEF DealInv, TypeOK
<1>2. CASE FindDeal(p)
  <2>1. Lands(p)
    BY <1>1, <1>2, GotoLands DEF FindDeal
  <2>2. QED
    BY <1>2, <2>1, ReadStep DEF FindDeal
<1>3. CASE CreateDeal(p)
  <2>1. CASE deal.status = "none"
    <3>1. /\ deal' = Stepped(NoRow, "confirmed") /\ ever' = {"confirmed"} /\ ever = {}
          /\ pc' = [pc EXCEPT ![p] = "confirmJob"] /\ UNCHANGED <<job, disputes, expired, loc>>
      BY <1>3, <2>1 DEF CreateDeal, Goto, DealInv
    <3>2. DealKeeps
      BY <3>1, FirstStory DEF DealKeeps, DealStatuses
    <3>3. \A d : Carries("confirmJob", d)'
      BY <3>1 DEF Carries
    <3>4. \E l \in Local : loc' = [loc EXCEPT ![p] = l]
      <4>1. loc' = [loc EXCEPT ![p] = loc[p]]
        BY <1>1, <3>1 DEF TypeOK
      <4>2. QED
        BY <1>1, <4>1
    <3>5. Lands(p)
      BY <3>1, <3>3, <3>4 DEF Lands, Labels
    <3>6. QED
      BY <1>1, <3>1, <3>2, <3>5, JobRests DEF StepOf
  <2>2. CASE deal.status # "none"
    <3>1. Goto(p, "idle") /\ UNCHANGED <<job, disputes, expired, loc, deal, ever>>
      BY <1>3, <2>2 DEF CreateDeal
    <3>2. Lands(p)
      BY <1>1, <3>1, GotoLands
    <3>3. QED
      BY <3>1, <3>2, ReadStep DEF rows
  <2>3. QED
    BY <2>1, <2>2
<1>4. CASE ConfirmJob(p)
  <2>1. Lands(p)
    BY <1>1, <1>4, GotoLands DEF ConfirmJob
  <2>2. "confirmed" \in ever /\ job' = JobStatusForDeal("confirmed")
    BY <1>1, <1>4 DEF ConfirmJob, Carries, JobStatusForDeal
  <2>3. JobKeeps
    BY <1>4, <2>2 DEF JobKeeps, ConfirmJob
  <2>4. QED
    BY <1>1, <1>4, <2>1, <2>3, DealRests DEF ConfirmJob, StepOf
<1>5. CASE CancelJob(p)
  <2>1. Lands(p)
    BY <1>1, <1>5, GotoLands DEF CancelJob
  <2>2. JobKeeps
    BY <1>5 DEF JobKeeps, CancelJob
  <2>3. QED
    BY <1>1, <1>5, <2>1, <2>2, DealRests DEF CancelJob, StepOf
<1>6. QED
  BY <1>2, <1>3, <1>4, <1>5

(* The two writes of a step: the deal, then the job.                       *)
LEMMA WriteStep ==
    ASSUME DealInv, NEW p \in Procs, WriteDeal(p) \/ WriteJob(p) PROVE StepOf(p)
<1>1. /\ TypeOK /\ loc[p] \in Local /\ loc[p].row \in Row /\ Carries(pc[p], loc[p])
      /\ disputes \in [DisputeIds -> {"none", "open", "resolved"}] /\ expired \in BOOLEAN
      /\ ever \subseteq DealStatuses
  BY DEF DealInv, TypeOK, Local
<1>2. CASE WriteDeal(p)
  <2> DEFINE row == loc[p].row
             rest == [NoRow EXCEPT !.status = row.status]
             l == [loc[p] EXCEPT !.row = rest]
  <2>1. LegalRow(row) /\ row.status \in DealStatuses
    BY <1>1, <1>2, LegalStatus DEF WriteDeal, Carries
  <2>2. /\ deal' = row /\ ever' = ever \cup {row.status} /\ UNCHANGED <<job, disputes>>
        /\ pc' = [pc EXCEPT ![p] = "writeJob"] /\ loc' = [loc EXCEPT ![p] = l]
    BY <1>2 DEF WriteDeal, UpdateDeal, Goto
  <2>3. expired' \in BOOLEAN
    BY <1>1, <1>2 DEF WriteDeal
  <2>4. DealKeeps
    BY <1>1, <2>1, <2>2 DEF DealKeeps, DealStatuses
  <2>5. rest \in Row /\ rest.status = row.status
    BY <2>1, BlankType DEF Row
  <2>6. l \in Local /\ l.row = rest
    BY <1>1, <2>5 DEF Local
  <2>7. \A d : d = l => Carries("writeJob", d)'
    BY <2>2, <2>5, <2>6 DEF Carries
  <2>8. Lands(p)
    BY <2>2, <2>6, <2>7 DEF Lands, Labels
  <2>9. QED
    BY <1>1, <2>2, <2>3, <2>4, <2>8, JobRests DEF StepOf
<1>3. CASE WriteJob(p)
  <2>1. /\ loc[p].row.status \in ever /\ job' = JobStatusForDeal(loc[p].row.status)
        /\ Return(p) /\ UNCHANGED <<deal, disputes, expired, ever>>
    BY <1>1, <1>3 DEF WriteJob, Carries
  <2>2. JobKeeps
    BY <2>1 DEF JobKeeps
  <2>3. QED
    BY <1>1, <2>1, <2>2, DealRests, ReturnLands DEF StepOf
<1>4. QED
  BY <1>2, <1>3

(* A dispute parks the deal, a verdict closes it.                          *)
LEMMA DisputeStep ==
    ASSUME DealInv, NEW p \in Procs,
           CreateDispute(p) \/ WriteDispute(p) \/ ReadDeal(p)
    PROVE  StepOf(p)
<1>1. /\ TypeOK /\ loc[p] \in Local /\ loc[p].row \in Row /\ Carries(pc[p], loc[p])
      /\ disputes \in [DisputeIds -> {"none", "open", "resolved"}] /\ expired \in BOOLEAN
  BY DEF DealInv, TypeOK, Local
<1>2. CASE CreateDispute(p)
  <2> DEFINE row == loc[p].row
  <2>1. LegalRow(row) /\ CanOpenDispute(row.status)
    BY <1>1, <1>2 DEF CreateDispute, Carries
  <2>2. disputes' \in [DisputeIds -> {"none", "open", "resolved"}]
    BY <1>1, <1>2 DEF CreateDispute
  <2>3. ASSUME DisputeParks(row.status), Prepare(p, Stepped(row, "disputed")) PROVE Lands(p)
    <3>1. Follows(row.status, "disputed") /\ "disputed" \in DealStatuses
      BY <2>1, <2>3 DEF Follows, DealStatuses
    <3>2. QED
      BY <1>1, <2>1, <2>3, <3>1, SteppedType, SteppedLegal, PrepareLands
  <2>4. Lands(p)
    BY <1>2, <2>3, ReturnLands DEF CreateDispute
  <2>5. UNCHANGED <<job, deal, expired, ever>>
    BY <1>2 DEF CreateDispute
  <2>6. QED
    BY <1>1, <2>2, <2>4, <2>5, DealRests, JobRests DEF StepOf
<1>3. CASE WriteDispute(p)
  <2> DEFINE l == [loc[p] EXCEPT !.dispute = 0]
  <2>1. /\ loc' = [loc EXCEPT ![p] = l] /\ pc' = [pc EXCEPT ![p] = "readDeal"]
        /\ UNCHANGED <<job, deal, expired, ever>>
        /\ disputes' = [disputes EXCEPT ![loc[p].dispute] = "resolved"]
    BY <1>3 DEF WriteDispute, Goto
  <2>2. l \in Local
    BY <1>1 DEF Local
  <2>3. \A d : d = l => Carries("readDeal", d)'
    BY DEF Carries
  <2>4. Lands(p)
    BY <2>1, <2>2, <2>3 DEF Lands, Labels
  <2>5. disputes' \in [DisputeIds -> {"none", "open", "resolved"}]
    BY <1>1, <2>1
  <2>6. QED
    BY <1>1, <2>1, <2>4, <2>5, DealRests, JobRests DEF StepOf
<1>4. CASE ReadDeal(p)
  <2>1. ASSUME deal.status = "disputed", NEW to \in {"cancelled", "completed"},
               Prepare(p, Stepped(deal, to))
        PROVE  Lands(p)
    <3>1. Follows(deal.status, to)
      BY <2>1 DEF Follows, CanAdvance, ClientSteps, Sides
    <3>2. QED
      BY <2>1, <3>1, StepLands
  <2>2. Lands(p)
    BY <1>4, <2>1, ReturnLands DEF ReadDeal
  <2>3. QED
    BY <1>4, <2>2, ReadStep DEF ReadDeal
<1>5. QED
  BY <1>2, <1>3, <1>4

(* The scheduler, and a statement that fails.                              *)
LEMMA SchedulerStepIs == ASSUME DealInv, SchedulerStep PROVE StepOf(Scheduler)
<1>1. TypeOK /\ Scheduler \in Procs /\ UNCHANGED <<rows, expired, ever>>
  BY DEF DealInv, Procs, SchedulerStep, DueJobs, AutoAccept, AutoStep
<1>2. CASE DueJobs \/ AutoAccept
  <2>1. Lands(Scheduler)
    BY <1>1, <1>2, GotoLands DEF DueJobs, AutoAccept
  <2>2. QED
    BY <1>1, <2>1, ReadStep
<1>3. CASE AutoStep
  <2>1. CASE CanAdvance(deal.status, "completed", "client")
    <3>1. Follows(deal.status, "completed")
      BY <2>1 DEF Follows, Sides
    <3>2. QED
      BY <1>1, <1>3, <2>1, <3>1, StepLands, ReadStep DEF AutoStep
  <2>2. CASE ~CanAdvance(deal.status, "completed", "client")
    BY <1>1, <1>3, <2>2, ReturnLands, ReadStep DEF AutoStep
  <2>3. QED
    BY <2>1, <2>2
<1>4. QED
  BY <1>2, <1>3 DEF SchedulerStep

(* Every step is a step of one process, or leaves all of them alone.       *)
LEMMA StepShapes ==
    ASSUME DealInv, Next
    PROVE  (\E p \in Procs : StepOf(p)) \/ Tick
<1>1. ASSUME NEW p \in Procs, Fail(p) PROVE StepOf(p)
  BY <1>1, ReturnLands, ReadStep DEF Fail
<1>2. ASSUME NEW p \in Procs, Continue(p) PROVE StepOf(p)
  BY <1>2, ConfirmStep, WriteStep, DisputeStep DEF Continue
<1>3. QED
  BY <1>1, <1>2, BeginStep, SchedulerStepIs DEF Next, Procs

-----------------------------------------------------------------------------
(* The invariant.                                                          *)

(* The status of a job is one of its statuses.                             *)
LEMMA JobType == \A s : JobStatusForDeal(s) \in JobStatuses
BY DEF JobStatusForDeal, JobStatuses

(* Every step keeps the invariant.                                         *)
LEMMA NextDealInv == DealInv /\ [Next]_vars => DealInv'
<1> SUFFICES ASSUME DealInv, [Next]_vars PROVE DealInv'
  OBVIOUS
<1>1. TypeOK
  BY DEF DealInv
<1>2. CASE UNCHANGED vars
  BY <1>2 DEF vars, rows, DealInv, TypeOK, TimelineIsLegal, JobNeverAhead, Carries
<1>3. CASE Tick
  BY <1>3 DEF Tick, rows, DealInv, TypeOK, TimelineIsLegal, JobNeverAhead, Carries
<1>4. ASSUME NEW p \in Procs, StepOf(p) PROVE DealInv'
  <2>1. PICK label \in Labels, l \in Local :
               /\ pc' = [pc EXCEPT ![p] = label] /\ loc' = [loc EXCEPT ![p] = l]
               /\ \A d : d = l => Carries(label, d)'
    BY <1>4 DEF StepOf, Lands
  <2>2. pc' \in [Procs -> Labels] /\ loc' \in [Procs -> Local]
    BY <1>1, <2>1 DEF TypeOK
  <2>3. DealKeeps /\ JobKeeps
    BY <1>4 DEF StepOf
  <2>4. job' \in JobStatuses
    BY <2>3, JobType DEF JobKeeps, JobStatuses
  <2>5. TypeOK'
    BY <1>4, <2>2, <2>3, <2>4 DEF TypeOK, StepOf, DealKeeps
  <2>6. ASSUME NEW q \in Procs PROVE Carries(pc[q], loc[q])'
    <3>1. CASE q = p
      <4>1. pc'[q] = label /\ loc'[q] = l
        BY <1>1, <2>1, <3>1 DEF TypeOK
      <4>2. QED
        BY <2>1, <4>1 DEF Carries
    <3>2. CASE q # p
      <4>1. pc'[q] = pc[q] /\ loc'[q] = loc[q] /\ Carries(pc[q], loc[q])
        BY <1>1, <2>1, <3>2 DEF TypeOK, DealInv
      <4>2. ever \subseteq ever'
        BY <2>3 DEF DealKeeps
      <4>3. QED
        BY <4>1, <4>2 DEF Carries
    <3>3. QED
      BY <3>1, <3>2
  <2>7. TimelineIsLegal' /\ JobNeverAhead' /\ (deal'.status = "none" => ever' = {})
    BY <2>3 DEF DealKeeps, JobKeeps, TimelineIsLegal, JobNeverAhead, LegalRow
  <2>8. QED
    BY <2>5, <2>6, <2>7 DEF DealInv
<1>5. QED
  BY <1>2, <1>3, <1>4, StepShapes

(* The job waits for its deal.                                             *)
LEMMA InitDealInv == Init => DealInv
<1> SUFFICES ASSUME Init PROVE DealInv
  OBVIOUS
<1>1. TypeOK
  BY BlankType DEF Init, TypeOK, JobStatuses, Labels
<1>2. deal.status = "none"
  BY DEF Init, NoRow
<1>3. \A p \in Procs : Carries(pc[p], loc[p])
  BY DEF Init, Carries
<1>4. QED
  BY <1>1, <1>2, <1>3 DEF Init, DealInv, TimelineIsLegal, JobNeverAhead

(***************************************************************************)
(* The invariant holds: the rows in the handlers' hands are legal too.     *)
(***************************************************************************)
THEOREM DealsInductive == Spec => []DealInv
BY InitDealInv, NextDealInv, PTL DEF Spec

(***************************************************************************)
(* The rows, copies and program counters keep their shape.                 *)
(***************************************************************************)
THEOREM TypeCorrect == Spec => []TypeOK
<1>1. DealInv => TypeOK
  BY DEF DealInv
<1>2. QED
  BY <1>1, DealsInductive, PTL

(***************************************************************************)
(* Whatever AdvanceDeal, CancelDeal, OpenDispute, ResolveDispute and       *)
(* autoAccept overlap, and whichever statement fails: the timeline of the  *)
(* deal is a path of permitted steps that ends in its status, and the      *)
(* acceptance deadline is set if and only if the work was reported done.   *)
(***************************************************************************)
THEOREM NoMixedStory == Spec => []TimelineIsLegal
<1>1. DealInv => TimelineIsLegal
  BY DEF DealInv
<1>2. QED
  BY <1>1, DealsInductive, PTL

(***************************************************************************)
(* The job shows only what its deal has been, or cancelled: every handler  *)
(* writes the deal first.                                                  *)
(***************************************************************************)
THEOREM JobFollowsDeal == Spec => []JobNeverAhead
<1>1. DealInv => JobNeverAhead
  BY DEF DealInv
<1>2. QED
  BY <1>1, DealsInductive, PTL

-----------------------------------------------------------------------------
(* Liveness: one request at a time, and no statement fails.                *)

Late == {"work_done", "completed", "disputed", "cancelled"}
Beyond == Late \ {"work_done"}

(***************************************************************************)
(* What holds when q is the only request: the scheduler's round leads from *)
(* reported work to its acceptance, a copy of q that is behind is written  *)
(* only while the deal is behind too, and a job that does not show the     *)
(* reported work is about to be written.                                   *)
(***************************************************************************)
SoloInv(q) ==
    /\ pc[Scheduler] \in {"idle", "autoRead", "autoStep", "writeDeal", "writeJob"}
    /\ pc[Scheduler] # "idle" => deal.status \in Late
    /\ pc[Scheduler] = "writeDeal" => loc[Scheduler].row.status = "completed"
    /\ pc[Scheduler] = "writeJob" => deal.status \in Beyond
    /\ pc[q] = "writeDeal" /\ loc[q].row.status \notin Beyond => deal.status \notin Late
    /\ pc[q] \in {"confirmJob", "cancelJob"} => deal.status # "work_done"
    /\ pc[q] = "writeJob" /\ deal.status = "work_done" => loc[q].row.status = "work_done"
    /\ deal.status = "work_done" => job = "work_done" \/ pc[q] = "writeJob"

(* One request, and no failures.                                           *)
Alone(q) == Requests = {q} /\ Faults = FALSE

(* Reported work that is not yet accepted stays on the scheduler's list.   *)
StaysDue ==
    deal.status = "work_done" => /\ job = "work_done" => job' = "work_done"
                                 /\ expired => expired'

(* A process that moves leaves the others where they are.                  *)
LEMMA OneMoves ==
    ASSUME TypeOK, NEW p \in Procs, NEW label, NEW l, Goto(p, label),
           loc' = [loc EXCEPT ![p] = l]
    PROVE  /\ pc'[p] = label /\ loc'[p] = l
           /\ \A r \in Procs \ {p} : pc'[r] = pc[r] /\ loc'[r] = loc[r]
BY DEF TypeOK, Goto

(* The same for a process that keeps what it carries.                      *)
LEMMA OneGoes ==
    ASSUME TypeOK, NEW p \in Procs, NEW label, Goto(p, label), UNCHANGED loc
    PROVE  /\ pc'[p] = label
           /\ \A r \in Procs \ {p} : pc'[r] = pc[r]
BY DEF TypeOK, Goto

(* A request that prepares a row has it in its hand.                       *)
LEMMA PrepareMoves ==
    ASSUME TypeOK, NEW p \in Procs, NEW row, Prepare(p, row)
    PROVE  /\ pc'[p] = "writeDeal" /\ loc'[p].row = row
           /\ \A r \in Procs \ {p} : pc'[r] = pc[r] /\ loc'[r] = loc[r]
<1> DEFINE l == [NoLocal EXCEPT !.row = row]
<1>1. l.row = row
  BY DEF NoLocal
<1>2. pc'[p] = "writeDeal" /\ loc'[p] = l
  BY DEF TypeOK, Prepare, Goto, FirstWrite
<1>3. \A r \in Procs \ {p} : pc'[r] = pc[r] /\ loc'[r] = loc[r]
  BY DEF TypeOK, Prepare, Goto
<1>4. QED
  BY <1>1, <1>2, <1>3

(* A request that only reads and stops before it writes a row disturbs     *)
(* nothing.                                                                *)
LEMMA QuietRequest ==
    ASSUME NEW q, Alone(q), SoloInv(q), UNCHANGED <<job, deal, expired>>,
           pc'[Scheduler] = pc[Scheduler], loc'[Scheduler] = loc[Scheduler],
           pc[q] # "writeJob",
           pc'[q] \notin {"writeDeal", "writeJob", "confirmJob", "cancelJob"}
    PROVE  SoloInv(q)' /\ StaysDue
BY DEF SoloInv, StaysDue

(* One that prepares the next row of a deal.                               *)
LEMMA PreparingRequest ==
    ASSUME NEW q, Alone(q), SoloInv(q), UNCHANGED <<job, deal, expired>>,
           pc'[Scheduler] = pc[Scheduler], loc'[Scheduler] = loc[Scheduler],
           pc[q] # "writeJob", pc'[q] = "writeDeal",
           loc'[q].row.status \in Beyond \/ deal.status \notin Late
    PROVE  SoloInv(q)' /\ StaysDue
BY DEF SoloInv, StaysDue

(* The beginnings of the only request.                                     *)
LEMMA SoloBegins ==
    ASSUME DealInv, NEW q, Alone(q), SoloInv(q), Begin(q) PROVE SoloInv(q)' /\ StaysDue
<1>1. /\ TypeOK /\ q \in Procs /\ Scheduler \in Procs \ {q} /\ deal \in Row
      /\ UNCHANGED <<job, deal, expired>> /\ pc[q] = "idle"
  BY ProcAssumption DEF DealInv, TypeOK, Alone, Procs, Begin, ConfirmDeal, AdvanceDeal,
     OpenDispute, ResolveDispute, Cancel, rows
<1>2. CASE ConfirmDeal(q)
  <2>1. pc'[q] = "findDeal" /\ pc'[Scheduler] = pc[Scheduler] /\ UNCHANGED loc
    BY <1>1, <1>2, OneGoes DEF ConfirmDeal
  <2>2. QED
    BY <1>1, <2>1, QuietRequest
<1>3. ASSUME NEW side \in Sides, NEW to \in StepTargets, AdvanceDeal(q, side, to)
      PROVE  SoloInv(q)' /\ StaysDue
  <2>1. CanAdvance(deal.status, to, side) /\ Prepare(q, Stepped(deal, to))
    BY <1>3 DEF AdvanceDeal
  <2>2. to \in Beyond \/ deal.status \notin Late
    BY <2>1 DEF CanAdvance, OwnerSteps, ClientSteps, Late, Beyond
  <2>3. Stepped(deal, to).status = to
    BY DEF Stepped
  <2>4. QED
    BY <1>1, <2>1, <2>2, <2>3, PrepareMoves, PreparingRequest
<1>4. CASE OpenDispute(q)
  <2>1. loc' = [loc EXCEPT ![q].row = deal] /\ Goto(q, "createDispute")
    BY <1>4 DEF OpenDispute
  <2>2. pc'[q] = "createDispute" /\ pc'[Scheduler] = pc[Scheduler]
        /\ loc'[Scheduler] = loc[Scheduler]
    BY <1>1, <2>1 DEF TypeOK, Goto
  <2>3. QED
    BY <1>1, <2>2, QuietRequest
<1>5. ASSUME NEW n, NEW outcome, ResolveDispute(q, n, outcome)
      PROVE  SoloInv(q)' /\ StaysDue
  <2>1. loc' = [loc EXCEPT ![q].dispute = n, ![q].verdict = outcome] /\ Goto(q, "writeDispute")
    BY <1>5 DEF ResolveDispute
  <2>2. pc'[q] = "writeDispute" /\ pc'[Scheduler] = pc[Scheduler]
        /\ loc'[Scheduler] = loc[Scheduler]
    BY <1>1, <2>1 DEF TypeOK, Goto
  <2>3. QED
    BY <1>1, <2>2, QuietRequest
<1>6. CASE Cancel(q)
  <2>1. pc'[q] = "cancelJob" /\ pc'[Scheduler] = pc[Scheduler] /\ UNCHANGED loc
    BY <1>1, <1>6, OneGoes DEF Cancel
  <2>2. job # "work_done"
    BY <1>6 DEF Cancel, CanTransition, Allowed
  <2>3. QED
    BY <1>1, <2>1, <2>2 DEF SoloInv, StaysDue
<1>7. QED
  BY <1>2, <1>3, <1>4, <1>5, <1>6 DEF Begin

(* The only request goes on.                                               *)
LEMMA SoloContinues ==
    ASSUME DealInv, NEW q, Alone(q), SoloInv(q), Continue(q) PROVE SoloInv(q)' /\ StaysDue
<1>1. /\ TypeOK /\ q \in Procs /\ Scheduler \in Procs \ {q} /\ deal \in Row
      /\ loc[q] \in Local /\ loc[q].row \in Row
  BY ProcAssumption DEF DealInv, TypeOK, Alone, Procs, Local
<1>2. CASE FindDeal(q)
  <2>1. /\ pc'[q] \in {"idle", "createDeal"} /\ pc'[Scheduler] = pc[Scheduler] /\ UNCHANGED loc
        /\ UNCHANGED <<job, deal, expired>> /\ pc[q] = "findDeal"
    BY <1>1, <1>2, OneGoes DEF FindDeal, rows
  <2>2. QED
    BY <1>1, <2>1, QuietRequest
<1>3. CASE CreateDeal(q)
  <2>1. /\ UNCHANGED <<job, expired, loc>> /\ pc[q] = "createDeal"
        /\ \/ /\ deal.status = "none" /\ deal' = Stepped(NoRow, "confirmed")
              /\ Goto(q, "confirmJob")
           \/ UNCHANGED deal /\ Goto(q, "idle")
    BY <1>3 DEF CreateDeal
  <2>2. CASE UNCHANGED deal /\ Goto(q, "idle")
    <3>1. pc'[q] = "idle" /\ pc'[Scheduler] = pc[Scheduler]
      BY <1>1, <2>1, <2>2, OneGoes
    <3>2. QED
      BY <1>1, <2>1, <2>2, <3>1, QuietRequest
  <2>3. CASE /\ deal.status = "none" /\ deal' = Stepped(NoRow, "confirmed")
             /\ Goto(q, "confirmJob")
    <3>1. pc'[q] = "confirmJob" /\ pc'[Scheduler] = pc[Scheduler]
      BY <1>1, <2>1, <2>3, OneGoes
    <3>2. deal'.status = "confirmed"
      BY <2>3, FirstStory
    <3>3. pc[Scheduler] = "idle"
      BY <2>3 DEF SoloInv, Late
    <3>4. QED
      BY <2>1, <2>3, <3>1, <3>2, <3>3 DEF SoloInv, StaysDue
  <2>4. QED
    BY <2>1, <2>2, <2>3
<1>4. CASE ConfirmJob(q) \/ CancelJob(q)
  <2>1. /\ pc'[q] = "idle" /\ pc'[Scheduler] = pc[Scheduler] /\ UNCHANGED <<deal, expired, loc>>
        /\ pc[q] \in {"confirmJob", "cancelJob"}
    BY <1>1, <1>4, OneGoes DEF ConfirmJob, CancelJob
  <2>2. QED
    BY <2>1 DEF SoloInv, StaysDue
<1>5. CASE WriteDeal(q)
  <2> DEFINE row == loc[q].row
             kept == [NoRow EXCEPT !.status = row.status]
  <2>1. /\ pc[q] = "writeDeal" /\ deal' = row /\ Goto(q, "writeJob") /\ UNCHANGED job
        /\ loc' = [loc EXCEPT ![q].row = kept]
        /\ expired' = IF row.status = "work_done" THEN FALSE ELSE expired
    BY <1>5 DEF WriteDeal, UpdateDeal
  <2>2. kept.status = row.status
    BY DEF NoRow
  <2>3. /\ pc'[q] = "writeJob" /\ loc'[q].row = kept
        /\ pc'[Scheduler] = pc[Scheduler] /\ loc'[Scheduler] = loc[Scheduler]
    BY <1>1, <2>1 DEF TypeOK, Goto, Local
  <2>4. deal.status \in Late => row.status \in Beyond
    BY <2>1 DEF SoloInv
  <2>5. /\ pc'[Scheduler] # "idle" => deal'.status \in Late
        /\ pc'[Scheduler] = "writeJob" => deal'.status \in Beyond
    BY <2>1, <2>3, <2>4 DEF SoloInv, Beyond
  <2>6. StaysDue
    BY <2>1, <2>4 DEF StaysDue, Late, Beyond
  <2>7. QED
    BY <2>1, <2>2, <2>3, <2>5, <2>6 DEF SoloInv
<1>6. CASE WriteJob(q)
  <2>1. /\ pc[q] = "writeJob" /\ job' = JobStatusForDeal(loc[q].row.status)
        /\ UNCHANGED <<deal, expired>> /\ Return(q)
    BY <1>6 DEF WriteJob
  <2>2. /\ pc'[q] = "idle" /\ pc'[Scheduler] = pc[Scheduler]
        /\ loc'[Scheduler] = loc[Scheduler]
    BY <1>1, <2>1, OneMoves DEF Return
  <2>3. deal.status = "work_done" => job' = "work_done"
    BY <2>1 DEF SoloInv, JobStatusForDeal
  <2>4. QED
    BY <2>1, <2>2, <2>3 DEF SoloInv, StaysDue
<1>7. CASE CreateDispute(q)
  <2>1. UNCHANGED <<job, deal, expired>> /\ pc[q] = "createDispute"
    BY <1>7 DEF CreateDispute
  <2>2. CASE Return(q)
    <3>1. /\ pc'[q] = "idle" /\ pc'[Scheduler] = pc[Scheduler]
          /\ loc'[Scheduler] = loc[Scheduler]
      BY <1>1, <2>2, OneMoves DEF Return
    <3>2. QED
      BY <2>1, <3>1, QuietRequest
  <2>3. CASE Prepare(q, Stepped(loc[q].row, "disputed"))
    <3>1. Stepped(loc[q].row, "disputed").status \in Beyond
      BY DEF Stepped, Beyond, Late
    <3>2. QED
      BY <1>1, <2>1, <2>3, <3>1, PrepareMoves, PreparingRequest
  <2>4. QED
    BY <1>7, <2>2, <2>3 DEF CreateDispute
<1>8. CASE WriteDispute(q)
  <2>1. /\ UNCHANGED <<job, deal, expired>> /\ pc[q] = "writeDispute"
        /\ loc' = [loc EXCEPT ![q].dispute = 0] /\ Goto(q, "readDeal")
    BY <1>8 DEF WriteDispute
  <2>2. pc'[q] = "readDeal" /\ pc'[Scheduler] = pc[Scheduler]
        /\ loc'[Scheduler] = loc[Scheduler]
    BY <1>1, <2>1 DEF TypeOK, Goto
  <2>3. QED
    BY <1>1, <2>1, <2>2, QuietRequest
<1>9. CASE ReadDeal(q)
  <2>1. UNCHANGED <<job, deal, expired>> /\ pc[q] = "readDeal"
    BY <1>9 DEF ReadDeal, rows
  <2>2. CASE Return(q)
    <3>1. /\ pc'[q] = "idle" /\ pc'[Scheduler] = pc[Scheduler]
          /\ loc'[Scheduler] = loc[Scheduler]
      BY <1>1, <2>2, OneMoves DEF Return
    <3>2. QED
      BY <2>1, <3>1, QuietRequest
  <2>3. ASSUME NEW to \in {"cancelled", "completed"}, Prepare(q, Stepped(deal, to))
        PROVE  SoloInv(q)' /\ StaysDue
    <3>1. Stepped(deal, to).status \in Beyond
      BY DEF Stepped, Beyond, Late
    <3>2. QED
      BY <1>1, <2>1, <2>3, <3>1, PrepareMoves, PreparingRequest
  <2>4. QED
    BY <1>9, <2>2, <2>3 DEF ReadDeal
<1>10. QED
  BY <1>2, <1>3, <1>4, <1>5, <1>6, <1>7, <1>8, <1>9 DEF Continue

(* A step of the scheduler's round, or one of its two writes.              *)
LEMMA SoloSchedules ==
    ASSUME DealInv, NEW q, Alone(q), SoloInv(q), SchedulerStep \/ Continue(Scheduler)
    PROVE  SoloInv(q)' /\ StaysDue
<1> DEFINE S == Scheduler
<1>1. /\ TypeOK /\ S \in Procs /\ q \in Procs \ {S} /\ deal \in Row
      /\ loc[S] \in Local /\ loc[S].row \in Row
  BY ProcAssumption DEF DealInv, TypeOK, Alone, Procs, Local
<1>2. CASE DueJobs \/ AutoAccept
  <2>1. /\ UNCHANGED <<job, deal, expired, loc>> /\ pc'[q] = pc[q]
        /\ pc'[S] \in {"idle", "autoRead", "autoStep"}
        /\ pc'[S] # "idle" => deal.status = "work_done"
    BY <1>1, <1>2, OneGoes DEF DueJobs, AutoAccept, Due, rows
  <2>2. QED
    BY <2>1 DEF SoloInv, StaysDue, Late
<1>3. CASE AutoStep
  <2>1. UNCHANGED <<job, deal, expired>> /\ pc[S] = "autoStep"
    BY <1>3 DEF AutoStep, rows
  <2>2. CASE Return(S)
    <3>1. pc'[S] = "idle" /\ pc'[q] = pc[q] /\ loc'[q] = loc[q]
      BY <1>1, <2>2, OneMoves DEF Return
    <3>2. QED
      BY <2>1, <3>1 DEF SoloInv, StaysDue
  <2>3. CASE Prepare(S, Stepped(deal, "completed"))
    <3>1. Stepped(deal, "completed").status = "completed"
      BY DEF Stepped
    <3>2. /\ pc'[S] = "writeDeal" /\ loc'[S].row.status = "completed"
          /\ pc'[q] = pc[q] /\ loc'[q] = loc[q]
      BY <1>1, <2>3, <3>1, PrepareMoves
    <3>3. QED
      BY <2>1, <3>2 DEF SoloInv, StaysDue
  <2>4. QED
    BY <1>3, <2>2, <2>3 DEF AutoStep
<1>4. CASE WriteDeal(S)
  <2>1. /\ pc[S] = "writeDeal" /\ deal' = loc[S].row /\ Goto(S, "writeJob") /\ UNCHANGED job
        /\ \E l : loc' = [loc EXCEPT ![S] = l]
        /\ loc[S].row.status # "work_done" => UNCHANGED expired
    BY <1>4 DEF WriteDeal, UpdateDeal
  <2>2. deal'.status = "completed" /\ UNCHANGED expired /\ deal.status \in Late
    BY <2>1 DEF SoloInv
  <2>3. pc'[S] = "writeJob" /\ pc'[q] = pc[q] /\ loc'[q] = loc[q]
    BY <1>1, <2>1, OneMoves
  <2>4. QED
    BY <2>1, <2>2, <2>3 DEF SoloInv, StaysDue, Late, Beyond
<1>5. CASE WriteJob(S)
  <2>1. pc[S] = "writeJob" /\ UNCHANGED <<deal, expired>> /\ Return(S)
    BY <1>5 DEF WriteJob
  <2>2. pc'[S] = "idle" /\ pc'[q] = pc[q] /\ loc'[q] = loc[q]
    BY <1>1, <2>1, OneMoves DEF Return
  <2>3. deal.status # "work_done"
    BY <2>1 DEF SoloInv, Beyond
  <2>4. QED
    BY <2>1, <2>2, <2>3 DEF SoloInv, StaysDue
<1>6. Continue(S) => WriteDeal(S) \/ WriteJob(S)
  BY DEF SoloInv, Continue, FindDeal, CreateDeal, ConfirmJob, CreateDispute, WriteDispute,
         ReadDeal, CancelJob
<1>7. QED
  BY <1>2, <1>3, <1>4, <1>5, <1>6 DEF SchedulerStep

(* Every step of an orders service with one request keeps the above.       *)
LEMMA SoloStep ==
    ASSUME DealInv, NEW q, Alone(q), SoloInv(q), [Next]_vars PROVE SoloInv(q)' /\ StaysDue
<1>1. ASSUME Tick PROVE SoloInv(q)' /\ StaysDue
  BY <1>1 DEF Tick, rows, SoloInv, StaysDue
<1>2. CASE UNCHANGED vars
  BY <1>2 DEF vars, rows, SoloInv, StaysDue
<1>3. \A p \in Procs : ~Fail(p)
  BY DEF Alone, Fail
<1>4. Procs = {q, Scheduler}
  BY DEF Alone, Procs
<1>5. QED
  BY <1>1, <1>2, <1>3, <1>4, SoloBegins, SoloContinues, SoloSchedules DEF Next, Alone

(* It holds from the beginning.                                            *)
LEMMA SoloInductive == ASSUME NEW q, Alone(q) PROVE Spec => []SoloInv(q)
<1>1. Init => SoloInv(q)
  BY DEF Init, SoloInv, Procs, Alone, NoRow
<1>2. DealInv /\ SoloInv(q) /\ [Next]_vars => SoloInv(q)'
  BY SoloStep
<1>3. QED
  BY <1>1, <1>2, DealsInductive, PTL DEF Spec

(* What the prover does not know of ENABLED: while the deadline runs time  *)
(* can pass, a round that is due or under way can go on, and so can a      *)
(* process that is about to write.                                         *)
TimeCanPass == deal.deadline /\ ~expired => ENABLED <<Tick>>_vars
RoundIsPossible ==
    (Due /\ pc[Scheduler] = "idle") \/ pc[Scheduler] \in {"autoRead", "autoStep"}
        => ENABLED <<SchedulerStep>>_vars
WriteIsPossible(p) == pc[p] \in {"writeDeal", "writeJob"} => ENABLED <<Continue(p)>>_vars

(* The scheduler has got to a label of its round about the job.            *)
Reached(label) ==
    /\ deal.status = "work_done" /\ job = "work_done" /\ expired
    /\ pc[Scheduler] = label

(* In front of reported work whose time is over the round goes forward,    *)
(* and it ends with a deal that is completed.                              *)
LEMMA RoundMoves ==
    ASSUME DealInv, NEW q, Alone(q), SoloInv(q), [Next]_vars
    PROVE  LET Left == deal'.status # "work_done" IN
           /\ Reached("idle") => Reached("idle")' \/ Reached("autoRead")' \/ Left
           /\ Reached("autoRead") => Reached("autoRead")' \/ Reached("autoStep")' \/ Left
           /\ Reached("autoStep") => Reached("autoStep")' \/ Reached("writeDeal")' \/ Left
           /\ Reached("writeDeal") => Reached("writeDeal")' \/ Left
           /\ SchedulerStep => /\ Reached("idle") => Reached("autoRead")' \/ Left
                               /\ Reached("autoRead") => Reached("autoStep")' \/ Left
                               /\ Reached("autoStep") => Reached("writeDeal")' \/ Left
           /\ Continue(Scheduler) => (Reached("writeDeal") => Left)
<1> DEFINE S == Scheduler
           Left == deal'.status # "work_done"
<1>1. TypeOK /\ S \in Procs /\ q \in Procs \ {S} /\ Procs = {q, S} /\ StaysDue
  BY SoloStep, ProcAssumption DEF DealInv, Alone, Procs
<1>2. CASE SchedulerStep
  <2>1. UNCHANGED <<deal, job, expired>>
    BY <1>2 DEF SchedulerStep, DueJobs, AutoAccept, AutoStep, rows
  <2>2. pc[S] = "idle" => pc'[S] = "autoRead"
    BY <1>1, <1>2 DEF SchedulerStep, DueJobs, AutoAccept, AutoStep, Goto, TypeOK
  <2>3. deal.status = "work_done" /\ pc[S] = "autoRead" => pc'[S] = "autoStep"
    BY <1>1, <1>2 DEF SchedulerStep, DueJobs, AutoAccept, AutoStep, Goto, TypeOK
  <2>4. deal.status = "work_done" /\ pc[S] = "autoStep" => pc'[S] = "writeDeal"
    <3>1. deal.status = "work_done" => CanAdvance(deal.status, "completed", "client")
      BY DEF CanAdvance, ClientSteps
    <3>2. deal.status = "work_done" /\ pc[S] = "autoStep" => Prepare(S, Stepped(deal, "completed"))
      BY <1>2, <3>1 DEF SchedulerStep, DueJobs, AutoAccept, AutoStep
    <3>3. QED
      BY <1>1, <3>2, PrepareMoves
  <2>5. pc[S] # "writeDeal" /\ ~(Reached("writeDeal"))
    BY <1>2 DEF SchedulerStep, DueJobs, AutoAccept, AutoStep, Reached
  <2>6. QED
    BY <2>1, <2>2, <2>3, <2>4, <2>5 DEF Reached
<1>3. CASE Continue(S) /\ ~SchedulerStep
  <2>1. Continue(S) => WriteDeal(S) \/ WriteJob(S)
    BY DEF SoloInv, Continue, FindDeal, CreateDeal, ConfirmJob, CreateDispute, WriteDispute,
           ReadDeal, CancelJob
  <2>2. WriteDeal(S) => pc[S] = "writeDeal" /\ Left
    BY DEF SoloInv, WriteDeal, UpdateDeal
  <2>3. WriteJob(S) => pc[S] = "writeJob"
    BY DEF WriteJob
  <2>4. QED
    BY <1>3, <2>1, <2>2, <2>3 DEF Reached
<1>4. CASE ~Continue(S) /\ ~SchedulerStep
  <2>1. ASSUME NEW p \in Procs, p # S, Begin(p) \/ Continue(p) PROVE pc'[S] = pc[S]
    <3>1. PICK label : Goto(p, label)
      BY <2>1, Zenon
         DEF Begin, ConfirmDeal, AdvanceDeal, OpenDispute, ResolveDispute, Cancel, Continue,
             FindDeal, CreateDeal, ConfirmJob, WriteDeal, WriteJob, CreateDispute, WriteDispute,
             ReadDeal, CancelJob, Prepare, Return
    <3>2. QED
      BY <1>1, <2>1, <3>1 DEF Goto, TypeOK
  <2>2. pc'[S] = pc[S]
    <3>1. Tick \/ UNCHANGED vars => pc' = pc
      BY DEF Tick, vars
    <3>2. \A p \in Procs : ~Fail(p)
      BY DEF Alone, Fail
    <3>3. QED
      BY <1>1, <1>4, <2>1, <3>1, <3>2 DEF Next, Alone
  <2>3. QED
    BY <1>1, <1>4, <2>2 DEF Reached, StaysDue
<1>5. QED
  BY <1>2, <1>3, <1>4

(***************************************************************************)
(* Silence is consent: when the parties send one request at a time and no  *)
(* statement fails, work that is reported done does not wait for ever.     *)
(* The job shows it after the request that reported it, the deadline runs  *)
(* out and is not set again, and the round of autoAccept that finds it     *)
(* completes the deal unless somebody else has moved it.                   *)
(***************************************************************************)
THEOREM SilenceIsAccepted ==
    ASSUME NEW q, Alone(q)
    PROVE  /\ FairSpec /\ []TimeCanPass /\ []RoundIsPossible
           /\ []WriteIsPossible(q) /\ []WriteIsPossible(Scheduler)
           => SilenceIsConsent
<1> DEFINE Done == deal.status = "work_done"
           Shown == Done /\ job = "work_done"
           Late1 == Shown /\ expired
           Inv == DealInv /\ SoloInv(q)
           R0 == Reached("idle")
           R1 == Reached("autoRead")
           R2 == Reached("autoStep")
           R3 == Reached("writeDeal")
           Writing == pc[q] = "writeJob"
<1>1. FairSpec => Spec /\ WF_vars(Tick) /\ WF_vars(SchedulerStep) /\ GoesOn(q) /\ GoesOn(Scheduler)
  <2>1. q \in Procs /\ Scheduler \in Procs
    BY DEF Alone, Procs
  <2>2. (\A p \in Procs : GoesOn(p)) => GoesOn(q) /\ GoesOn(Scheduler)
    BY <2>1
  <2>3. QED
    BY <2>2, PTL DEF FairSpec
<1>2. Spec => []Inv
  BY DealsInductive, SoloInductive, PTL
<1>3. ASSUME Inv
      PROVE  /\ Done => Shown \/ Writing
             /\ Late1 <=> R0 \/ R1 \/ R2 \/ R3
             /\ Done => deal.deadline
  <2>1. Done => deal.deadline
    <3>1. Done => LegalRow(deal)
      BY <1>3 DEF DealInv, TimelineIsLegal
    <3>2. Done => /\ deal.timeline \in Seq(DealStatuses) /\ deal.timeline # <<>>
                  /\ deal.status = deal.timeline[Len(deal.timeline)]
      BY <1>3, <3>1 DEF DealInv, TypeOK, Row, LegalRow, Last
    <3>3. Done => Len(deal.timeline) \in 1..Len(deal.timeline)
      BY <3>2, LenProperties, EmptySeq
    <3>4. QED
      BY <3>1, <3>2, <3>3 DEF LegalRow
  <2>2. QED
    BY <1>3, <2>1 DEF SoloInv, Reached, Beyond
<1>4. ASSUME Inv, [Next]_vars
      PROVE  /\ Shown => Shown' \/ ~Done'
             /\ Late1 => Late1' \/ ~Done'
  BY <1>4, SoloStep DEF StaysDue
<1>5. ASSUME Inv, [Next]_vars, Writing, Continue(q) PROVE ~Writing'
  BY <1>5 DEF Continue, FindDeal, CreateDeal, ConfirmJob, WriteDeal, WriteJob, CreateDispute,
              WriteDispute, ReadDeal, CancelJob, Return, Goto, DealInv, TypeOK, Alone, Procs
<1>6. Tick => expired'
  BY DEF Tick
<1>7. ASSUME Inv, [Next]_vars
      PROVE  /\ R0 => R0' \/ R1' \/ ~Done'
             /\ R1 => R1' \/ R2' \/ ~Done'
             /\ R2 => R2' \/ R3' \/ ~Done'
             /\ R3 => R3' \/ ~Done'
             /\ SchedulerStep => /\ R0 => R1' \/ ~Done'
                                 /\ R1 => R2' \/ ~Done'
                                 /\ R2 => R3' \/ ~Done'
             /\ Continue(Scheduler) => (R3 => ~Done')
  BY <1>7, RoundMoves
<1>8. Inv /\ TimeCanPass => (Shown /\ ~Late1 => ENABLED <<Tick>>_vars)
  BY <1>3 DEF TimeCanPass
<1>9. Inv /\ RoundIsPossible => (R0 \/ R1 \/ R2 => ENABLED <<SchedulerStep>>_vars)
  BY <1>3 DEF RoundIsPossible, Reached, Due
<1>10. WriteIsPossible(q) => (Writing => ENABLED <<Continue(q)>>_vars)
  BY DEF WriteIsPossible
<1>11. WriteIsPossible(Scheduler) => (R3 => ENABLED <<Continue(Scheduler)>>_vars)
  BY DEF WriteIsPossible, Reached
<1>12. Shown => Done
  OBVIOUS
<1>13. Late1 => Shown
  OBVIOUS
<1>14. Shown /\ expired => Late1
  OBVIOUS
<1>15. /\ deal.status = "work_done" <=> Done
       /\ deal.status # "work_done" <=> ~Done
  OBVIOUS
<1> HIDE DEF Done, Shown, Late1, Inv, R0, R1, R2, R3, Writing
<1>16. Spec /\ GoesOn(q) /\ []WriteIsPossible(q) => (Done ~> Shown \/ ~Done)
  BY <1>2, <1>3, <1>5, <1>10, PTL DEF Spec, GoesOn
<1>17. Spec /\ WF_vars(Tick) /\ []TimeCanPass => (Shown ~> Late1 \/ ~Done)
  BY <1>2, <1>4, <1>6, <1>8, <1>12, <1>14, PTL DEF Spec
<1>18. /\ Spec /\ WF_vars(SchedulerStep) /\ GoesOn(Scheduler)
       /\ []RoundIsPossible /\ []WriteIsPossible(Scheduler)
       => (Late1 ~> ~Done)
  BY <1>2, <1>3, <1>7, <1>9, <1>11, PTL DEF Spec, GoesOn
<1>19. QED
  BY <1>1, <1>15, <1>16, <1>17, <1>18, PTL DEF SilenceIsConsent

=============================================================================
