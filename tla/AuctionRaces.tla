---------------------------- MODULE AuctionRaces ----------------------------
(***************************************************************************)
(* An auction under requests that overlap: PlaceBid, WithdrawBid,          *)
(* FinishAuction, AcceptBid, DeclineAllBids, ExpireDecision and Cancel,    *)
(* one SQL statement at a time (with the local computation after it).      *)
(*                                                                         *)
(* Every handler decides on the copies it has read.  UpdateBid writes a    *)
(* bid by id whatever its status is by now, and Update writes all columns  *)
(* of the job from the copy, so it undoes what others wrote in between.    *)
(* Only the unique index on active bids is checked by the database.        *)
(*                                                                         *)
(* The job is an auction without a reserve price and with autoExtend.  The *)
(* recommendation (WinnerBidID) is a matter of OrderLifecycle.             *)
(***************************************************************************)
EXTENDS Workflow, Naturals, FiniteSets

CONSTANTS
    Owners,          \* executors
    Requests,        \* HTTP requests that may be in flight at the same time
    Scheduler,       \* the scheduler goroutine
    MaxBids,         \* bound on the bids that are ever placed
    Prices,          \* prices executors may type
    Duration,        \* end of the auction as published
    DecisionWindow,  \* job.Auction.DecisionWindowH
    SnipeWindow,     \* job.SnipeWindow
    ExtendBy,        \* job.ExtendBy
    WithdrawLimit,   \* job.WithdrawLimit
    Horizon,         \* bound on the clock
    Faults           \* whether statements may fail

ASSUME AuctionProcs == Scheduler \notin Requests /\ Faults \in BOOLEAN

ASSUME AuctionNumbers ==
    /\ MaxBids \in Nat /\ Duration \in Nat /\ DecisionWindow \in Nat
    /\ SnipeWindow \in Nat /\ ExtendBy \in Nat /\ WithdrawLimit \in Nat
    /\ Horizon \in Nat
    /\ Prices \subseteq Nat \ {0}

Procs == Requests \cup {Scheduler}
BidIds == 1..MaxBids

VARIABLES
    job,    \* row of the job: status, end, decision deadline
    bids,   \* rows of the bids, numbered in the order of created_at
    issued, \* how many bids have been numbered
    now,    \* the clock
    pc,     \* what each request does next
    loc     \* the copies each request works on

vars == <<job, bids, issued, now, pc, loc>>

-----------------------------------------------------------------------------
JobRow == [status : JobStatuses, endsAt : Nat, deadline : Nat]
FreshJob == [status |-> "bidding", endsAt |-> Duration, deadline |-> 0]

NoBid == [owner |-> "nobody", price |-> 0, status |-> "none"]
BidRow == [owner : Owners, price : Prices, status : BidStatuses]

(***************************************************************************)
(* The locals of a handler: its copy of the job as it will be written, the *)
(* bid it is about, the bids it still has to write, the status it gives    *)
(* them, and whether the job is written at the end.  What a handler does   *)
(* not use any more is reset.                                              *)
(***************************************************************************)
NoLocal == [job |-> FreshJob, bid |-> 0, row |-> NoBid, todo |-> {}, mark |-> "none",
            save |-> FALSE]
Local == [job : JobRow, bid : BidIds \cup {0}, row : BidRow \cup {NoBid},
          todo : SUBSET BidIds, mark : {"none", "active", "lost", "expired"},
          save : BOOLEAN]

Labels == {"idle", "bestBid", "myBid", "withdrawPrev", "createBid",
           "readJobToWithdraw", "writeWithdrawn", "readJobToAccept", "writeWon",
           "readBids", "writeBids"}

(* The rows, the copies and the program counters keep their shape.         *)
TypeOK ==
    /\ job \in JobRow
    /\ bids \in [BidIds -> BidRow \cup {NoBid}]
    /\ issued \in 0..MaxBids
    /\ now \in 0..Horizon
    /\ pc \in [Procs -> Labels]
    /\ loc \in [Procs -> Local]

Init ==
    /\ job = FreshJob
    /\ bids = [b \in BidIds |-> NoBid]
    /\ issued = 0
    /\ now = 0
    /\ pc = [p \in Procs |-> "idle"]
    /\ loc = [p \in Procs |-> NoLocal]

-----------------------------------------------------------------------------
(* The statements of the store.                                            *)

Active == {b \in BidIds : bids[b].status = "active"}
ActiveOf(o) == {b \in Active : bids[b].owner = o}

(* Mutant: the index is not there.                                         *)
Conflict_Never(b, o) == FALSE

(***************************************************************************)
(* The unique index on (job, owner) where status = 'active': a statement   *)
(* that makes bid b active fails when its owner has another active bid.    *)
(***************************************************************************)
Conflict(b, o) == ActiveOf(o) \ {b} # {}

Goto(p, label) == pc' = [pc EXCEPT ![p] = label]

(* The handler returns, with an answer or an error.                        *)
Return(p) == /\ Goto(p, "idle")
             /\ loc' = [loc EXCEPT ![p] = NoLocal]

(* The handler has the copy l and goes on at label.                        *)
Keep(p, l, label) == /\ loc' = [loc EXCEPT ![p] = l]
                     /\ Goto(p, label)

UpdateBid(b, status) == bids' = [bids EXCEPT ![b].status = status]

-----------------------------------------------------------------------------
(* PlaceBid.                                                               *)

(* The anti-sniping of the copy: its end moves when it is near.            *)
ShouldExtend(j) == j.endsAt > now /\ j.endsAt - now <= SnipeWindow

(***************************************************************************)
(* ByID and CanBid.  The number stands for the time of the request, which  *)
(* becomes created_at of the bid and decides about the extension.          *)
(***************************************************************************)
PlaceBid(p, o, x) ==
    /\ pc[p] = "idle"
    /\ job.status = "bidding"
    /\ now < job.endsAt
    /\ issued < MaxBids
    /\ issued' = issued + 1
    /\ Keep(p, [NoLocal EXCEPT
                  !.job  = IF ShouldExtend(job)
                           THEN [job EXCEPT !.endsAt = job.endsAt + ExtendBy]
                           ELSE FreshJob,
                  !.save = ShouldExtend(job),
                  !.bid  = issued + 1,
                  !.row  = [owner |-> o, price |-> x, status |-> "active"]],
            "bestBid")
    /\ UNCHANGED <<job, bids, now>>

(***************************************************************************)
(* The price is compared with the best of the others, also when the best   *)
(* bid of all is the executor's own.                                       *)
(***************************************************************************)
BeatsOthers(row) ==
    \A b \in Active \ ActiveOf(row.owner) : row.price < bids[b].price

(* BestBid, the cheapest active bid; then BidsByJob when it is one's own.  *)
BestBid(p) ==
    /\ pc[p] = "bestBid"
    /\ IF BeatsOthers(loc[p].row) THEN Keep(p, loc[p], "myBid") ELSE Return(p)
    /\ UNCHANGED <<job, bids, issued, now>>

(* MyBidForJob: the newest bid of the executor, if it is still active.     *)
MyBidForJob(p) ==
    /\ pc[p] = "myBid"
    /\ LET mine == {b \in BidIds : bids[b].owner = loc[p].row.owner}
           newest == {b \in mine : \A c \in mine : c <= b}
       IN  IF newest \cap Active # {}
           THEN Keep(p, [loc[p] EXCEPT !.todo = newest], "withdrawPrev")
           ELSE Keep(p, loc[p], "createBid")
    /\ UNCHANGED <<job, bids, issued, now>>

(* Mutant: the new bid is closed instead of the previous one.              *)
WithdrawPrev_NewBid(p) ==
    /\ pc[p] = "withdrawPrev"
    /\ UpdateBid(loc[p].bid, "withdrawn")
    /\ Keep(p, [loc[p] EXCEPT !.todo = {}], "createBid")
    /\ UNCHANGED <<job, issued, now>>

WithdrawPrev(p) ==
    /\ pc[p] = "withdrawPrev"
    /\ \E b \in loc[p].todo : UpdateBid(b, "withdrawn")
    /\ Keep(p, [loc[p] EXCEPT !.todo = {}], "createBid")
    /\ UNCHANGED <<job, issued, now>>

(* The bid is on file: the job is written only when its end has moved.     *)
AfterBid(p) ==
    IF loc[p].save
    THEN Keep(p, [NoLocal EXCEPT !.job = loc[p].job, !.save = TRUE], "writeBids")
    ELSE Return(p)

(* Mutant: the error of the insert is ignored.                             *)
CreateBid_IgnoresConflict(p) ==
    /\ pc[p] = "createBid"
    /\ LET n == loc[p].bid IN
         bids' = IF Conflict(n, loc[p].row.owner)
                 THEN bids ELSE [bids EXCEPT ![n] = loc[p].row]
    /\ AfterBid(p)
    /\ UNCHANGED <<job, issued, now>>

CreateBid(p) ==
    /\ pc[p] = "createBid"
    /\ LET n == loc[p].bid IN
         \/ /\ ~Conflict(n, loc[p].row.owner)
            /\ bids' = [bids EXCEPT ![n] = loc[p].row]
            /\ AfterBid(p)
         \/ /\ Conflict(n, loc[p].row.owner)
            /\ Return(p)
            /\ UNCHANGED bids
    /\ UNCHANGED <<job, issued, now>>

-----------------------------------------------------------------------------
(* WithdrawBid: the bid is read, then the job, then the bid is written.    *)

WithdrawBid(p, b) ==
    /\ pc[p] = "idle"
    /\ b \in Active
    /\ Keep(p, [NoLocal EXCEPT !.bid = b], "readJobToWithdraw")
    /\ UNCHANGED <<job, bids, issued, now>>

CanWithdrawBid(p) ==
    /\ pc[p] = "readJobToWithdraw"
    /\ IF job.endsAt >= now + WithdrawLimit
       THEN Keep(p, loc[p], "writeWithdrawn")
       ELSE Return(p)
    /\ UNCHANGED <<job, bids, issued, now>>

WriteWithdrawn(p) ==
    /\ pc[p] = "writeWithdrawn"
    /\ UpdateBid(loc[p].bid, "withdrawn")
    /\ Return(p)
    /\ UNCHANGED <<job, issued, now>>

-----------------------------------------------------------------------------
(* The handlers that end the auction read the job, read the bids, write    *)
(* them one by one and write the job last.                                 *)

(* FinishAuction, by the scheduler or by a request.                        *)
FinishAuction(p) ==
    /\ job.status = "bidding"
    /\ Keep(p, [NoLocal EXCEPT !.job = job, !.mark = "active", !.save = TRUE], "readBids")
    /\ UNCHANGED <<job, bids, issued, now>>

DeclineAllBids(p) ==
    /\ pc[p] = "idle"
    /\ job.status = "deciding"
    /\ Keep(p, [NoLocal EXCEPT !.job = [job EXCEPT !.status = "declined_all"],
                               !.mark = "lost", !.save = TRUE], "readBids")
    /\ UNCHANGED <<job, bids, issued, now>>

ExpireDecision(p) ==
    /\ job.status = "deciding"
    /\ now >= job.deadline
    /\ Keep(p, [NoLocal EXCEPT !.job = [job EXCEPT !.status = "expired"],
                               !.mark = "expired", !.save = TRUE], "readBids")
    /\ UNCHANGED <<job, bids, issued, now>>

(* AcceptBid: the bid is read, then the job.                               *)
AcceptBid(p, b) ==
    /\ pc[p] = "idle"
    /\ b \in Active
    /\ Keep(p, [NoLocal EXCEPT !.bid = b], "readJobToAccept")
    /\ UNCHANGED <<job, bids, issued, now>>

AwaitsDecision(p) ==
    /\ pc[p] = "readJobToAccept"
    /\ IF job.status = "deciding"
       THEN Keep(p, [loc[p] EXCEPT !.job = [job EXCEPT !.status = "deal_pending"],
                                   !.mark = "lost", !.save = TRUE], "writeWon")
       ELSE Return(p)
    /\ UNCHANGED <<job, bids, issued, now>>

WriteWon(p) ==
    /\ pc[p] = "writeWon"
    /\ UpdateBid(loc[p].bid, "won")
    /\ Keep(p, loc[p], "readBids")
    /\ UNCHANGED <<job, issued, now>>

(* The order of Score: the cheapest first, the earliest of equal ones.     *)
Before(b, c) == \/ bids[b].price < bids[c].price
                \/ bids[b].price = bids[c].price /\ b <= c

(* A deadline after the end of the modelled time falls on its end.         *)
OnClock(t) == IF t < Horizon THEN t ELSE Horizon

(* Mutant: without bids the auction is left as it is.                      *)
Verdict_NothingToDo(j) ==
    IF Active = {} THEN j
    ELSE [j EXCEPT !.status = "deciding",
                   !.deadline = OnClock(now + DecisionWindow)]

(* What FinishAuction makes of its copy of the job.                        *)
Verdict(j) ==
    IF Active = {} THEN [j EXCEPT !.status = "expired_no_bids"]
    ELSE [j EXCEPT !.status = "deciding",
                   !.deadline = OnClock(now + DecisionWindow)]

(* BidsByJob: the active bids are the ones to be written.                  *)
ReadBids(p) ==
    /\ pc[p] = "readBids"
    /\ Keep(p, [loc[p] EXCEPT
                  !.todo = Active \ {loc[p].bid},
                  !.job  = IF loc[p].mark = "active" THEN Verdict(loc[p].job)
                                                     ELSE loc[p].job],
            "writeBids")
    /\ UNCHANGED <<job, bids, issued, now>>

(* One UpdateBid of the loop; to "active" it may hit the index.            *)
WriteBid(p) ==
    /\ pc[p] = "writeBids"
    /\ \E b \in loc[p].todo :
         /\ \A c \in loc[p].todo : Before(b, c)
         /\ IF loc[p].mark = "active" /\ Conflict(b, bids[b].owner)
            THEN Return(p) /\ UNCHANGED bids
            ELSE /\ UpdateBid(b, loc[p].mark)
                 /\ Keep(p, [loc[p] EXCEPT !.todo = @ \ {b}], "writeBids")
    /\ UNCHANGED <<job, issued, now>>

(* Update: all columns of the copy.                                        *)
WriteJob(p) ==
    /\ pc[p] = "writeBids"
    /\ loc[p].todo = {}
    /\ job' = loc[p].job
    /\ Return(p)
    /\ UNCHANGED <<bids, issued, now>>

(* Cancel: the job is read and written.                                    *)
Cancel(p) ==
    /\ pc[p] = "idle"
    /\ CanTransition(job.status, "cancelled")
    /\ Keep(p, [NoLocal EXCEPT !.job = [job EXCEPT !.status = "cancelled"],
                               !.save = TRUE], "writeBids")
    /\ UNCHANGED <<job, bids, issued, now>>

-----------------------------------------------------------------------------
(* DueJobs picks the job, and the handler reads it again.                  *)
DueJobs ==
    /\ pc[Scheduler] = "idle"
    /\ \/ job.status = "bidding" /\ job.endsAt <= now /\ FinishAuction(Scheduler)
       \/ job.status = "deciding" /\ job.deadline <= now /\ ExpireDecision(Scheduler)

Tick ==
    /\ now < Horizon
    /\ now' = now + 1
    /\ UNCHANGED <<job, bids, issued, pc, loc>>

(***************************************************************************)
(* A statement fails, or the process stops: the request is over.  Where    *)
(* the handler does not look at the error only the latter ends it, see     *)
(* IgnoreError.                                                            *)
(***************************************************************************)
Fail(p) ==
    /\ Faults
    /\ pc[p] # "idle"
    /\ Return(p)
    /\ UNCHANGED <<job, bids, issued, now>>

(***************************************************************************)
(* A statement fails and the handler goes on: PlaceBid with no price to    *)
(* beat when BestBid or BidsByJob failed and with no bid to withdraw when  *)
(* MyBidForJob did; ExpireDecision with no bids when BidsByJob failed and  *)
(* past a bid that it could not write.                                     *)
(***************************************************************************)
IgnoreError(p) ==
    /\ Faults
    /\ \/ pc[p] = "bestBid" /\ Keep(p, loc[p], "myBid")
       \/ pc[p] = "myBid" /\ Keep(p, loc[p], "createBid")
       \/ pc[p] = "readBids" /\ loc[p].mark = "expired" /\ Keep(p, loc[p], "writeBids")
       \/ /\ pc[p] = "writeBids" /\ loc[p].mark = "expired"
          /\ \E b \in loc[p].todo :
               /\ \A c \in loc[p].todo : Before(b, c)
               /\ Keep(p, [loc[p] EXCEPT !.todo = @ \ {b}], "writeBids")
    /\ UNCHANGED <<job, bids, issued, now>>

Begin(p) ==
    \/ \E o \in Owners, x \in Prices : PlaceBid(p, o, x)
    \/ \E b \in BidIds : WithdrawBid(p, b) \/ AcceptBid(p, b)
    \/ pc[p] = "idle" /\ FinishAuction(p)
    \/ DeclineAllBids(p)
    \/ Cancel(p)

Continue(p) ==
    \/ BestBid(p) \/ MyBidForJob(p) \/ WithdrawPrev(p) \/ CreateBid(p)
    \/ CanWithdrawBid(p) \/ WriteWithdrawn(p)
    \/ AwaitsDecision(p) \/ WriteWon(p)
    \/ ReadBids(p) \/ WriteBid(p) \/ WriteJob(p)

Next ==
    \/ \E p \in Requests : Begin(p)
    \/ \E p \in Procs : Continue(p) \/ Fail(p) \/ IgnoreError(p)
    \/ DueJobs
    \/ Tick

Spec == Init /\ [][Next]_vars

(***************************************************************************)
(* Time passes, the scheduler makes its rounds, a request that has begun   *)
(* goes on; nobody has to send a request.                                  *)
(***************************************************************************)
FairSpec ==
    /\ Spec
    /\ WF_vars(Tick)
    /\ WF_vars(DueJobs)
    /\ \A p \in Procs : WF_vars(Continue(p))

-----------------------------------------------------------------------------
(* What overlapping requests cannot break.                                 *)

(***************************************************************************)
(* A double tap is not two bids: whatever overlaps, an executor has at     *)
(* most one standing price, also when a late FinishAuction writes a bid he *)
(* has replaced.  The unique index guards what PlaceBid cannot.            *)
(***************************************************************************)
DoubleTapIsOneBid == \A b, c \in Active : bids[b].owner = bids[c].owner => b = c

Placed == {b \in BidIds : bids[b] # NoBid}

(***************************************************************************)
(* Every prolongation of the auction is paid for with a bid: a request     *)
(* that fails or loses a race cannot move the end of the auction, and a    *)
(* stale copy cannot move it further than the bids on file do.             *)
(***************************************************************************)
ExtensionsArePaid == job.endsAt <= Duration + ExtendBy * Cardinality(Placed)

(***************************************************************************)
(* Whatever overlaps, the auction and the customer's decision come to an   *)
(* end for good: a stale write may reopen them, and the scheduler closes   *)
(* them again.                                                             *)
(***************************************************************************)
AuctionSettles == <>[](job.status \notin {"bidding", "deciding"})

-----------------------------------------------------------------------------
(* The inductive invariant of the proofs.                                  *)

(* The latest end the bids on file have paid for.                          *)
Paid == Duration + ExtendBy * Cardinality(Placed)

(* Labels of PlaceBid before the bid is on file.                           *)
Bidding == {"bestBid", "myBid", "withdrawPrev", "createBid"}

(***************************************************************************)
(* What a request holds at a label: a bid of its own that is not on file   *)
(* and one extension that it still has to pay for, or rows that are on     *)
(* file and a copy of the job whose end is paid for.                       *)
(***************************************************************************)
Holds(label, l) ==
    /\ l.todo \subseteq Placed
    /\ label \in Bidding => /\ l.row \in BidRow
                            /\ l.bid \in 1..issued /\ l.bid \notin Placed
                            /\ l.job.endsAt <= Paid + ExtendBy
    /\ label \notin Bidding => l.job.endsAt <= Paid
    /\ label \in {"readJobToWithdraw", "writeWithdrawn", "readJobToAccept", "writeWon"} =>
         l.bid \in Placed
    /\ label \in {"writeWon", "readBids"} \/ (label = "writeBids" /\ l.todo # {}) =>
         l.mark # "none"

(* Two requests never hold the same new bid.                               *)
OwnNumbers ==
    \A p, q \in Procs :
        p # q /\ pc[p] \in Bidding /\ pc[q] \in Bidding => loc[p].bid # loc[q].bid

AuctionInv ==
    /\ TypeOK
    /\ DoubleTapIsOneBid
    /\ Placed \subseteq 1..issued
    /\ job.endsAt <= Paid
    /\ OwnNumbers
    /\ \A p \in Procs : Holds(pc[p], loc[p])

=============================================================================
