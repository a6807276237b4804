------------------------ MODULE AuctionRaces_proofs ------------------------
(***************************************************************************)
(* What overlapping requests cannot do to an auction, for any number of    *)
(* executors, requests and bids: nobody has two standing prices, and no    *)
(* end of the auction is later than the bids on file have paid for.        *)
(***************************************************************************)
EXTENDS AuctionRaces, FiniteSetTheorems, TLAPS

-----------------------------------------------------------------------------
(* Rows and copies.                                                        *)

(* A blank row is not a row, and a fresh request holds blank copies.       *)
LEMMA Blanks ==
    /\ NoBid \notin BidRow /\ FreshJob \in JobRow /\ FreshJob.endsAt = Duration
    /\ NoLocal \in Local /\ NoLocal.todo = {} /\ NoLocal.job = FreshJob
    /\ 0 \notin BidIds
<1>1. FreshJob \in JobRow /\ FreshJob.endsAt = Duration
  BY AuctionNumbers DEF FreshJob, JobRow, JobStatuses
<1>2. NoBid \notin BidRow
  BY DEF NoBid, BidRow, BidStatuses
<1>3. 0 \notin BidIds
  BY AuctionNumbers DEF BidIds
<1>4. QED
  BY <1>1, <1>2, <1>3 DEF NoLocal, Local

-----------------------------------------------------------------------------
(* What the bids have paid for.                                            *)

(* The bids on file are finitely many.                                     *)
LEMMA PaidType ==
    IsFiniteSet(Placed) /\ Cardinality(Placed) \in Nat /\ Paid \in Nat /\ Duration <= Paid
<1>1. IsFiniteSet(BidIds)
  BY AuctionNumbers, FS_Interval DEF BidIds
<1>2. IsFiniteSet(Placed)
  BY <1>1, FS_Subset DEF Placed
<1>3. Cardinality(Placed) \in Nat
  BY <1>2, FS_CardinalityType
<1>4. \A a, c \in Nat : a * c \in Nat
  OBVIOUS
<1>5. QED
  BY <1>2, <1>3, <1>4, AuctionNumbers DEF Paid

(* The same after a step.                                                  *)
LEMMA PaidTypeNext ==
    IsFiniteSet(Placed') /\ Cardinality(Placed') \in Nat /\ Paid' \in Nat /\ Duration <= Paid'
<1>1. IsFiniteSet(BidIds)
  BY AuctionNumbers, FS_Interval DEF BidIds
<1>2. IsFiniteSet(Placed')
  BY <1>1, FS_Subset DEF Placed
<1>3. Cardinality(Placed') \in Nat
  BY <1>2, FS_CardinalityType
<1>4. \A a, c \in Nat : a * c \in Nat
  OBVIOUS
<1>5. QED
  BY <1>2, <1>3, <1>4, AuctionNumbers DEF Paid

(* A bid that changes its status pays for nothing.                         *)
LEMMA SamePaid == ASSUME Placed' = Placed PROVE Paid' = Paid
BY DEF Paid

(* A new one pays for one extension.                                       *)
LEMMA OneMorePaid ==
    ASSUME NEW n, n \notin Placed, Placed' = Placed \cup {n}
    PROVE  Paid' = Paid + ExtendBy
<1>1. Cardinality(Placed') = Cardinality(Placed) + 1
  BY PaidType, FS_AddElement
<1>2. \A a, c \in Nat : a * (c + 1) = a * c + a
  OBVIOUS
<1>3. ExtendBy * Cardinality(Placed') = ExtendBy * Cardinality(Placed) + ExtendBy
  BY <1>1, <1>2, PaidType, AuctionNumbers
<1>4. ExtendBy * Cardinality(Placed) \in Nat
  BY PaidType, AuctionNumbers
<1>5. QED
  BY <1>3, <1>4, AuctionNumbers DEF Paid

-----------------------------------------------------------------------------
(* What one statement of a request does.                                   *)

(* Process p goes on, with what it needs; a new bid has a new number.      *)
Lands(p) ==
    \E label \in Labels, l \in Local :
        /\ pc' = [pc EXCEPT ![p] = label] /\ loc' = [loc EXCEPT ![p] = l]
        /\ \A d : d = l => Holds(label, d)'
        /\ label \in Bidding => \/ pc[p] \in Bidding /\ l.bid = loc[p].bid
                                \/ l.bid \notin 1..issued

(* Bids stay on file, only p adds its own, and nobody gets a second one.   *)
BidsKeep(p) ==
    /\ bids' \in [BidIds -> BidRow \cup {NoBid}]
    /\ Placed \subseteq Placed'
    /\ \A b \in Placed' : b \in Placed \/ (pc[p] \in Bidding /\ b = loc[p].bid)
    /\ Paid <= Paid'
    /\ DoubleTapIsOneBid'

JobKeeps == job' \in JobRow /\ job'.endsAt <= Paid'

ClockKeeps ==
    issued' \in 0..MaxBids /\ issued <= issued' /\ now' \in 0..Horizon

StepOf(p) == Lands(p) /\ BidsKeep(p) /\ JobKeeps /\ ClockKeeps

(* Bids that are not written are kept.                                     *)
LEMMA BidsRest ==
    ASSUME AuctionInv, NEW p, UNCHANGED bids
    PROVE  BidsKeep(p) /\ Placed' = Placed /\ Paid' = Paid
<1>1. Placed' = Placed
  BY DEF Placed
<1>2. Paid' = Paid
  BY <1>1, SamePaid
<1>3. QED
  BY <1>1, <1>2, PaidType
  DEF BidsKeep, AuctionInv, TypeOK, DoubleTapIsOneBid, Active

(* So is the job, however many bids come.                                  *)
LEMMA JobRests ==
    ASSUME AuctionInv, UNCHANGED job, Paid <= Paid' PROVE JobKeeps
BY PaidType, PaidTypeNext DEF AuctionInv, TypeOK, JobKeeps, JobRow

(* So are the clock and the numbers already given out.                     *)
LEMMA ClockRests == ASSUME AuctionInv, UNCHANGED <<issued, now>> PROVE ClockKeeps
BY AuctionNumbers DEF AuctionInv, TypeOK, ClockKeeps

(* A request that ends holds nothing.                                      *)
LEMMA ReturnLands == ASSUME NEW p, Return(p) PROVE Lands(p)
<1>1. \A d : d = NoLocal => Holds("idle", d)'
  BY Blanks, PaidTypeNext DEF Holds, Bidding
<1>2. QED
  BY <1>1, Blanks DEF Return, Goto, Lands, Labels, Bidding

(* One that goes on holds what it needs.                                   *)
LEMMA KeepLands ==
    ASSUME NEW p, NEW l \in Local, NEW label \in Labels, Keep(p, l, label),
           \A d : d = l => Holds(label, d)',
           label \in Bidding => pc[p] \in Bidding /\ l.bid = loc[p].bid
    PROVE  Lands(p)
BY DEF Keep, Goto, Lands

(* While nothing is written, what is good before is good after.            *)
LEMMA QuietHolds ==
    ASSUME UNCHANGED <<bids, issued>>, NEW label, NEW l, Holds(label, l)
    PROVE  \A d : d = l => Holds(label, d)'
<1>1. Placed' = Placed
  BY DEF Placed
<1>2. Paid' = Paid
  BY <1>1, SamePaid
<1>3. QED
  BY <1>1, <1>2 DEF Holds

(* A step that only moves its request on is a step of that request.        *)
LEMMA QuietStep ==
    ASSUME AuctionInv, NEW p, Lands(p), UNCHANGED <<job, bids, issued, now>>
    PROVE  StepOf(p)
BY BidsRest, JobRests, ClockRests, PaidType DEF StepOf

(* Facts about the copy of a process.                                      *)
LEMMA Copies ==
    ASSUME AuctionInv, NEW p \in Procs
    PROVE  /\ loc[p] \in Local /\ loc[p].job \in JobRow /\ loc[p].bid \in BidIds \cup {0}
           /\ loc[p].todo \subseteq BidIds /\ pc[p] \in Labels /\ Holds(pc[p], loc[p])
BY DEF AuctionInv, TypeOK, Local

-----------------------------------------------------------------------------
(* Requests that begin, and statements that only read.                     *)

(* PlaceBid: the number is new, and the copy of the job is one extension   *)
(* ahead at most.                                                          *)
LEMMA PlaceBidStep ==
    ASSUME AuctionInv, NEW p \in Procs, NEW o \in Owners, NEW x \in Prices, PlaceBid(p, o, x)
    PROVE  StepOf(p)
<1> DEFINE n == issued + 1
           r == [owner |-> o, price |-> x, status |-> "active"]
           j == IF ShouldExtend(job) THEN [job EXCEPT !.endsAt = job.endsAt + ExtendBy]
                                     ELSE FreshJob
           l == [NoLocal EXCEPT !.job = j, !.save = ShouldExtend(job), !.bid = n, !.row = r]
<1>1. /\ Keep(p, l, "bestBid") /\ UNCHANGED <<job, bids, now>>
      /\ issued < MaxBids /\ issued' = n
  BY DEF PlaceBid
<1>2. /\ job \in JobRow /\ job.endsAt \in Nat /\ issued \in 0..MaxBids /\ now \in 0..Horizon
      /\ Placed \subseteq 1..issued /\ job.endsAt <= Paid
  BY DEF AuctionInv, TypeOK, JobRow
<1>3. issued \in Nat /\ n \in BidIds /\ n \notin 1..issued /\ n \in 1..n
  BY <1>1, <1>2, AuctionNumbers DEF BidIds
<1>4. r \in BidRow
  BY DEF BidRow, BidStatuses
<1>5. j \in JobRow /\ j.endsAt <= Paid + ExtendBy
  <2>1. CASE ShouldExtend(job)
    <3>1. j = [job EXCEPT !.endsAt = job.endsAt + ExtendBy]
      BY <2>1
    <3>2. job.endsAt + ExtendBy \in Nat /\ job.endsAt + ExtendBy <= Paid + ExtendBy
      BY <1>2, AuctionNumbers, PaidType
    <3>3. QED
      BY <1>2, <3>1, <3>2 DEF JobRow
  <2>2. CASE ~ShouldExtend(job)
    <3>1. j = FreshJob
      BY <2>2
    <3>2. Duration <= Paid + ExtendBy
      BY PaidType, AuctionNumbers
    <3> HIDE DEF j
    <3>3. QED
      BY <3>1, <3>2, Blanks
  <2>3. QED
    BY <2>1, <2>2
<1>6. ShouldExtend(job) \in BOOLEAN
  BY DEF ShouldExtend
<1>7. l \in Local /\ l.job = j /\ l.bid = n /\ l.row = r /\ l.todo = {}
  <2> HIDE DEF j, n, r
  <2>1. QED
    BY <1>3, <1>4, <1>5, <1>6, Blanks DEF Local
<1>8. BidsKeep(p) /\ Placed' = Placed /\ Paid' = Paid
  BY <1>1, BidsRest
<1>9. \A d : d = l => Holds("bestBid", d)'
  <2> SUFFICES ASSUME NEW d, d = l PROVE Holds("bestBid", d)'
    OBVIOUS
  <2>1. d.job = j /\ d.bid = n /\ d.row = r /\ d.todo = {}
    BY <1>7
  <2>2. d.bid \in 1..issued' /\ d.bid \notin Placed'
    BY <1>1, <1>2, <1>3, <1>8, <2>1
  <2>3. d.job.endsAt <= Paid' + ExtendBy
    BY <1>5, <1>8, <2>1
  <2>4. d.row \in BidRow
    BY <1>4, <2>1
  <2>5. QED
    BY <2>1, <2>2, <2>3, <2>4 DEF Holds, Bidding
<1>10. Lands(p)
  <2>1. pc' = [pc EXCEPT ![p] = "bestBid"] /\ loc' = [loc EXCEPT ![p] = l]
    BY <1>1 DEF Keep, Goto
  <2>2. l.bid \notin 1..issued
    BY <1>3, <1>7
  <2>3. QED
    BY <1>7, <1>9, <2>1, <2>2 DEF Lands, Labels
<1>11. ClockKeeps
  BY <1>1, <1>2, AuctionNumbers DEF ClockKeeps
<1>12. QED
  BY <1>1, <1>8, <1>10, <1>11, JobRests, PaidType DEF StepOf

(* A copy of the job in the hand of a handler outside PlaceBid.            *)
LEMMA JobCopy ==
    ASSUME AuctionInv, NEW status \in JobStatuses
    PROVE  LET j == [job EXCEPT !.status = status]
           IN  /\ j \in JobRow /\ j.endsAt <= Paid /\ job \in JobRow /\ job.endsAt <= Paid
BY DEF AuctionInv, TypeOK, JobRow

(* A handler that decides about the whole auction takes a copy of the job. *)
LEMMA DecideStep ==
    ASSUME AuctionInv, NEW p \in Procs, NEW j \in JobRow, j.endsAt <= Paid,
           NEW mark \in {"active", "lost", "expired"}, UNCHANGED <<job, bids, issued, now>>,
           Keep(p, [NoLocal EXCEPT !.job = j, !.mark = mark, !.save = TRUE], "readBids")
    PROVE  StepOf(p)
<1> DEFINE l == [NoLocal EXCEPT !.job = j, !.mark = mark, !.save = TRUE]
<1>1. l \in Local /\ l.job = j /\ l.mark = mark /\ l.todo = {}
  BY Blanks DEF Local
<1>2. Holds("readBids", l)
  BY <1>1 DEF Holds, Bidding
<1>3. \A d : d = l => Holds("readBids", d)'
  BY <1>2, QuietHolds
<1>4. "readBids" \in Labels /\ "readBids" \notin Bidding
  BY DEF Labels, Bidding
<1>5. Lands(p)
  BY <1>1, <1>3, <1>4, KeepLands
<1>6. QED
  BY <1>5, QuietStep

(* FinishAuction, DeclineAllBids and ExpireDecision.                       *)
LEMMA EndingStep ==
    ASSUME AuctionInv, NEW p \in Procs,
           FinishAuction(p) \/ DeclineAllBids(p) \/ ExpireDecision(p)
    PROVE  StepOf(p)
<1>1. CASE FinishAuction(p)
  <2>1. job \in JobRow /\ job.endsAt <= Paid
    BY DEF AuctionInv, TypeOK
  <2>2. QED
    BY <1>1, <2>1, DecideStep DEF FinishAuction
<1>2. CASE DeclineAllBids(p)
  <2>1. "declined_all" \in JobStatuses
    BY DEF JobStatuses
  <2>2. QED
    BY <1>2, <2>1, JobCopy, DecideStep DEF DeclineAllBids
<1>3. CASE ExpireDecision(p)
  <2>1. "expired" \in JobStatuses
    BY DEF JobStatuses
  <2>2. QED
    BY <1>3, <2>1, JobCopy, DecideStep DEF ExpireDecision
<1>4. QED
  BY <1>1, <1>2, <1>3

(* Cancel of the job.                                                      *)
LEMMA CancelStep ==
    ASSUME AuctionInv, NEW p \in Procs, Cancel(p) PROVE StepOf(p)
<1> DEFINE j == [job EXCEPT !.status = "cancelled"]
           l == [NoLocal EXCEPT !.job = j, !.save = TRUE]
<1>1. Keep(p, l, "writeBids") /\ UNCHANGED <<job, bids, issued, now>>
  BY DEF Cancel
<1>2. j \in JobRow /\ j.endsAt <= Paid
  BY JobCopy DEF JobStatuses
<1>3. l \in Local /\ l.job = j /\ l.todo = {}
  BY <1>2, Blanks DEF Local
<1>4. Holds("writeBids", l)
  BY <1>2, <1>3 DEF Holds, Bidding
<1>5. \A d : d = l => Holds("writeBids", d)'
  BY <1>1, <1>4, QuietHolds
<1>6. "writeBids" \in Labels /\ "writeBids" \notin Bidding
  BY DEF Labels, Bidding
<1>7. Lands(p)
  BY <1>1, <1>3, <1>5, <1>6, KeepLands
<1>8. QED
  BY <1>1, <1>7, QuietStep

(* WithdrawBid and AcceptBid begin with a bid that is on file.             *)
LEMMA PickBidStep ==
    ASSUME AuctionInv, NEW p \in Procs, NEW b \in BidIds, WithdrawBid(p, b) \/ AcceptBid(p, b)
    PROVE  StepOf(p)
<1> DEFINE l == [NoLocal EXCEPT !.bid = b]
<1>1. PICK label \in {"readJobToWithdraw", "readJobToAccept"} : Keep(p, l, label)
  BY DEF WithdrawBid, AcceptBid
<1>2. b \in Active /\ UNCHANGED <<job, bids, issued, now>>
  BY DEF WithdrawBid, AcceptBid
<1>3. b \in Placed
  BY <1>2 DEF Active, Placed, NoBid
<1>4. l \in Local /\ l.job = FreshJob /\ l.bid = b /\ l.todo = {}
  BY Blanks DEF Local
<1>5. Holds(label, l)
  BY <1>3, <1>4, Blanks, PaidType DEF Holds, Bidding
<1>6. \A d : d = l => Holds(label, d)'
  BY <1>2, <1>5, QuietHolds
<1>7. label \in Labels /\ label \notin Bidding
  BY DEF Labels, Bidding
<1>8. Lands(p)
  BY <1>1, <1>4, <1>6, <1>7, KeepLands
<1>9. QED
  BY <1>2, <1>8, QuietStep

(* The beginnings of requests.                                             *)
LEMMA BeginStep == ASSUME AuctionInv, NEW p \in Procs, Begin(p) PROVE StepOf(p)
BY PlaceBidStep, PickBidStep, EndingStep, CancelStep DEF Begin

(* The reading statements in the middle of a request.                      *)
LEMMA ReadStep ==
    ASSUME AuctionInv, NEW p \in Procs,
           \/ BestBid(p) \/ MyBidForJob(p) \/ CanWithdrawBid(p) \/ AwaitsDecision(p)
           \/ ReadBids(p)
    PROVE  StepOf(p)
<1>1. UNCHANGED <<job, bids, issued, now>>
  BY DEF BestBid, MyBidForJob, CanWithdrawBid, AwaitsDecision, ReadBids
<1>2. /\ loc[p] \in Local /\ loc[p].job \in JobRow /\ loc[p].bid \in BidIds \cup {0}
      /\ loc[p].todo \subseteq BidIds /\ pc[p] \in Labels /\ Holds(pc[p], loc[p])
  BY Copies
<1>3. Active \subseteq Placed /\ Placed \subseteq BidIds
  BY DEF Active, Placed, NoBid
<1>4. ASSUME NEW label \in Labels, NEW l \in Local, Holds(label, l), Keep(p, l, label),
             label \in Bidding => pc[p] \in Bidding /\ l.bid = loc[p].bid
      PROVE  Lands(p)
  <2>1. \A d : d = l => Holds(label, d)'
    BY <1>1, <1>4, QuietHolds
  <2>2. QED
    BY <1>4, <2>1, KeepLands
<1>5. ASSUME BestBid(p) PROVE Lands(p)
  <2>1. CASE Return(p)
    BY <2>1, ReturnLands
  <2>2. CASE Keep(p, loc[p], "myBid")
    <3>1. pc[p] = "bestBid"
      BY <1>5 DEF BestBid
    <3>2. Holds("myBid", loc[p])
      BY <1>2, <3>1 DEF Holds, Bidding
    <3>3. QED
      BY <1>2, <1>4, <2>2, <3>1, <3>2 DEF Labels, Bidding
  <2>3. QED
    BY <1>5, <2>1, <2>2 DEF BestBid
<1>6. ASSUME MyBidForJob(p) PROVE Lands(p)
  <2> DEFINE mine == {b \in BidIds : bids[b].owner = loc[p].row.owner}
             newest == {b \in mine : \A c \in mine : c <= b}
             l == [loc[p] EXCEPT !.todo = newest]
  <2>1. pc[p] = "myBid"
    BY <1>6 DEF MyBidForJob
  <2>2. CASE Keep(p, loc[p], "createBid")
    <3>1. Holds("createBid", loc[p])
      BY <1>2, <2>1 DEF Holds, Bidding
    <3>2. QED
      BY <1>2, <1>4, <2>1, <2>2, <3>1 DEF Labels, Bidding
  <2>3. CASE newest \cap Active # {} /\ Keep(p, l, "withdrawPrev")
    <3>1. newest \in SUBSET BidIds
      OBVIOUS
    <3>2. newest \subseteq Placed
      <4>1. PICK a \in newest : a \in Active
        BY <2>3
      <4>2. ASSUME NEW b \in newest PROVE b = a
        <5>1. a <= b /\ b <= a /\ a \in BidIds /\ b \in BidIds
          BY <4>1
        <5>2. QED
          BY <5>1, AuctionNumbers DEF BidIds
      <4>3. QED
        BY <1>3, <4>1, <4>2
    <3>3. /\ l \in Local /\ l.todo = newest /\ l.job = loc[p].job /\ l.bid = loc[p].bid
          /\ l.row = loc[p].row
      <4> HIDE DEF newest
      <4>1. QED
        BY <1>2, <3>1 DEF Local
    <3>4. Holds("withdrawPrev", l)
      <4> HIDE DEF newest, l
      <4>1. QED
        BY <1>2, <2>1, <3>2, <3>3 DEF Holds, Bidding
    <3>5. QED
      <4> HIDE DEF newest, l
      <4>1. QED
        BY <1>4, <2>1, <2>3, <3>3, <3>4 DEF Labels, Bidding
  <2>4. QED
    BY <1>6, <2>2, <2>3 DEF MyBidForJob
<1>7. ASSUME CanWithdrawBid(p) PROVE Lands(p)
  <2>1. CASE Return(p)
    BY <2>1, ReturnLands
  <2>2. CASE Keep(p, loc[p], "writeWithdrawn")
    <3>1. Holds("writeWithdrawn", loc[p])
      BY <1>2, <1>7 DEF CanWithdrawBid, Holds, Bidding
    <3>2. QED
      BY <1>2, <1>4, <2>2, <3>1 DEF Labels, Bidding
  <2>3. QED
    BY <1>7, <2>1, <2>2 DEF CanWithdrawBid
<1>8. ASSUME AwaitsDecision(p) PROVE Lands(p)
  <2> DEFINE j == [job EXCEPT !.status = "deal_pending"]
             l == [loc[p] EXCEPT !.job = j, !.mark = "lost", !.save = TRUE]
  <2>1. CASE Return(p)
    BY <2>1, ReturnLands
  <2>2. CASE Keep(p, l, "writeWon")
    <3>1. j \in JobRow /\ j.endsAt <= Paid
      BY JobCopy DEF JobStatuses
    <3>2. /\ l \in Local /\ l.job = j /\ l.mark = "lost" /\ l.todo = loc[p].todo
          /\ l.bid = loc[p].bid
      <4> HIDE DEF j
      <4>1. QED
        BY <1>2, <3>1 DEF Local
    <3>3. Holds("writeWon", l)
      BY <1>2, <1>8, <3>1, <3>2 DEF AwaitsDecision, Holds, Bidding
    <3>4. QED
      BY <1>4, <2>2, <3>2, <3>3 DEF Labels, Bidding
  <2>3. QED
    BY <1>8, <2>1, <2>2 DEF AwaitsDecision
<1>9. ASSUME ReadBids(p) PROVE Lands(p)
  <2> DEFINE k == loc[p]
             todo == Active \ {k.bid}
             j == IF k.mark = "active" THEN Verdict(k.job) ELSE k.job
             l == [k EXCEPT !.todo = todo, !.job = j]
  <2>1. Keep(p, l, "writeBids") /\ pc[p] = "readBids"
    BY <1>9 DEF ReadBids
  <2>2. k.job.endsAt <= Paid /\ k.mark # "none"
    BY <1>2, <2>1 DEF Holds, Bidding
  <2>3. OnClock(now + DecisionWindow) \in Nat
    BY AuctionNumbers DEF AuctionInv, TypeOK, OnClock
  <2>4. Verdict(k.job) \in JobRow /\ Verdict(k.job).endsAt = k.job.endsAt
    BY <1>2, <2>3 DEF Verdict, JobRow, JobStatuses
  <2>5. j \in JobRow /\ j.endsAt <= Paid
    BY <1>2, <2>2, <2>4
  <2>6. todo \in SUBSET BidIds /\ todo \subseteq Placed
    BY <1>3
  <2> HIDE DEF j, todo
  <2>7. l \in Local /\ l.todo = todo /\ l.job = j /\ l.mark = k.mark
    BY <1>2, <2>5, <2>6 DEF Local
  <2>8. Holds("writeBids", l)
    BY <2>2, <2>5, <2>6, <2>7 DEF Holds, Bidding
  <2>9. QED
    BY <1>4, <2>1, <2>7, <2>8 DEF Labels, Bidding
<1>10. QED
  BY <1>1, <1>5, <1>6, <1>7, <1>8, <1>9, QuietStep

-----------------------------------------------------------------------------
(* Statements that write.                                                  *)

(* A bid on file changes its status; to active only past the index.        *)
LEMMA StatusKeeps ==
    ASSUME AuctionInv, NEW p, NEW b \in Placed, NEW status \in BidStatuses,
           UpdateBid(b, status), status = "active" => ~Conflict(b, bids[b].owner)
    PROVE  BidsKeep(p) /\ Placed' = Placed /\ Paid' = Paid
<1> DEFINE r == [bids[b] EXCEPT !.status = status]
<1>1. /\ bids \in [BidIds -> BidRow \cup {NoBid}] /\ b \in BidIds /\ bids[b] \in BidRow
      /\ DoubleTapIsOneBid
  BY DEF AuctionInv, TypeOK, Placed
<1>2. r \in BidRow /\ r.owner = bids[b].owner /\ r.status = status
  BY <1>1 DEF BidRow
<1>3. /\ bids' \in [BidIds -> BidRow \cup {NoBid}] /\ bids'[b] = r
      /\ \A c \in BidIds \ {b} : bids'[c] = bids[c]
  BY <1>1, <1>2 DEF UpdateBid
<1>4. Placed' = Placed
  BY <1>1, <1>2, <1>3, Blanks DEF Placed
<1>5. Paid' = Paid
  BY <1>4, SamePaid
<1>6. DoubleTapIsOneBid'
  <2> SUFFICES ASSUME NEW c \in Active', NEW d \in Active', bids'[c].owner = bids'[d].owner
               PROVE  c = d
    BY DEF DoubleTapIsOneBid
  <2>1. c \in BidIds /\ d \in BidIds /\ bids'[c].status = "active" /\ bids'[d].status = "active"
    BY DEF Active
  <2>2. ASSUME NEW e \in BidIds \ {b}, bids'[e].status = "active" PROVE e \in Active
    BY <1>3, <2>2 DEF Active
  <2>3. ASSUME NEW e \in BidIds \ {b}, bids'[e].status = "active",
               bids'[e].owner = bids'[b].owner, status = "active"
        PROVE  FALSE
    BY <1>2, <1>3, <2>2, <2>3 DEF Conflict, ActiveOf
  <2>4. CASE c # b /\ d # b
    BY <1>1, <1>3, <2>1, <2>2, <2>4 DEF DoubleTapIsOneBid
  <2>5. CASE c = b \/ d = b
    BY <1>2, <1>3, <2>1, <2>3, <2>5
  <2>6. QED
    BY <2>4, <2>5
<1>7. QED
  BY <1>3, <1>4, <1>5, <1>6, PaidType DEF BidsKeep

(* A bid is put on file, past the index.                                   *)
LEMMA InsertKeeps ==
    ASSUME AuctionInv, NEW p, pc[p] \in Bidding, NEW r \in BidRow, loc[p].bid \in BidIds,
           loc[p].bid \notin Placed, ~Conflict(loc[p].bid, r.owner),
           bids' = [bids EXCEPT ![loc[p].bid] = r]
    PROVE  BidsKeep(p) /\ Paid' = Paid + ExtendBy
<1> DEFINE n == loc[p].bid
<1>1. bids \in [BidIds -> BidRow \cup {NoBid}] /\ DoubleTapIsOneBid
  BY DEF AuctionInv, TypeOK
<1>2. /\ bids' \in [BidIds -> BidRow \cup {NoBid}] /\ bids'[n] = r
      /\ \A c \in BidIds \ {n} : bids'[c] = bids[c]
  BY <1>1
<1>3. Placed' = Placed \cup {n}
  BY <1>2, Blanks DEF Placed
<1>4. Paid' = Paid + ExtendBy
  BY <1>3, OneMorePaid
<1>5. DoubleTapIsOneBid'
  <2> SUFFICES ASSUME NEW c \in Active', NEW d \in Active', bids'[c].owner = bids'[d].owner
               PROVE  c = d
    BY DEF DoubleTapIsOneBid
  <2>1. c \in BidIds /\ d \in BidIds /\ bids'[c].status = "active" /\ bids'[d].status = "active"
    BY DEF Active
  <2>2. ASSUME NEW e \in BidIds \ {n}, bids'[e].status = "active"
        PROVE  e \in Active /\ bids'[e].owner # r.owner
    BY <1>2, <2>2 DEF Active, Conflict, ActiveOf
  <2>3. CASE c # n /\ d # n
    BY <1>1, <1>2, <2>1, <2>2, <2>3 DEF DoubleTapIsOneBid
  <2>4. CASE c = n \/ d = n
    BY <1>2, <2>1, <2>2, <2>4
  <2>5. QED
    BY <2>3, <2>4
<1>6. Paid <= Paid'
  BY <1>4, PaidType, AuctionNumbers
<1>7. QED
  BY <1>2, <1>3, <1>4, <1>5, <1>6 DEF BidsKeep

(* What a request holds stays good when a bid on file changes its status.  *)
LEMMA HoldsAfterStatus ==
    ASSUME Placed' = Placed, Paid' = Paid, UNCHANGED issued, NEW label, NEW l, Holds(label, l)
    PROVE  \A d : d = l => Holds(label, d)'
BY DEF Holds

(* The request closes its bidder's previous bid.                           *)
LEMMA WithdrawPrevStep ==
    ASSUME AuctionInv, NEW p \in Procs, WithdrawPrev(p) PROVE StepOf(p)
<1> DEFINE l == [loc[p] EXCEPT !.todo = {}]
<1>1. PICK b \in loc[p].todo : UpdateBid(b, "withdrawn")
  BY DEF WithdrawPrev
<1>2. /\ pc[p] = "withdrawPrev" /\ Keep(p, l, "createBid") /\ UNCHANGED <<job, issued, now>>
  BY DEF WithdrawPrev
<1>3. loc[p] \in Local /\ Holds("withdrawPrev", loc[p])
  BY <1>2, Copies
<1>4. b \in Placed
  BY <1>1, <1>3 DEF Holds
<1>5. BidsKeep(p) /\ Placed' = Placed /\ Paid' = Paid
  BY <1>1, <1>4, StatusKeeps DEF BidStatuses
<1>6. /\ l \in Local /\ l.todo = {} /\ l.job = loc[p].job /\ l.bid = loc[p].bid
      /\ l.row = loc[p].row
  BY <1>3 DEF Local
<1>7. Holds("createBid", l)
  BY <1>3, <1>6 DEF Holds, Bidding
<1>8. \A d : d = l => Holds("createBid", d)'
  BY <1>2, <1>5, <1>7, HoldsAfterStatus
<1>9. Lands(p)
  <2>1. "createBid" \in Labels /\ pc[p] \in Bidding
    BY <1>2 DEF Labels, Bidding
  <2>2. QED
    BY <1>2, <1>6, <1>8, <2>1, KeepLands
<1>10. QED
  BY <1>2, <1>5, <1>9, JobRests, ClockRests, PaidType DEF StepOf

(* The bid is put on file, and pays for the extension the request carries. *)
LEMMA CreateBidStep ==
    ASSUME AuctionInv, NEW p \in Procs, CreateBid(p) PROVE StepOf(p)
<1> DEFINE n == loc[p].bid
           l == [NoLocal EXCEPT !.job = loc[p].job, !.save = TRUE]
<1>1. pc[p] = "createBid" /\ UNCHANGED <<job, issued, now>>
  BY DEF CreateBid
<1>2. /\ loc[p] \in Local /\ loc[p].job \in JobRow /\ loc[p].row \in BidRow
      /\ n \in BidIds \cup {0} /\ n \in 1..issued /\ n \notin Placed
      /\ loc[p].job.endsAt <= Paid + ExtendBy
  BY <1>1, Copies DEF Holds, Bidding
<1>3. n \in BidIds
  BY <1>2
<1>4. CASE Return(p) /\ UNCHANGED bids
  BY <1>1, <1>4, ReturnLands, QuietStep
<1>5. CASE ~Conflict(n, loc[p].row.owner) /\ bids' = [bids EXCEPT ![n] = loc[p].row] /\ AfterBid(p)
  <2>1. BidsKeep(p) /\ Paid' = Paid + ExtendBy
    <3>1. /\ pc[p] \in Bidding /\ loc[p].row \in BidRow /\ loc[p].bid \in BidIds
          /\ loc[p].bid \notin Placed /\ ~Conflict(loc[p].bid, loc[p].row.owner)
          /\ bids' = [bids EXCEPT ![loc[p].bid] = loc[p].row]
      BY <1>1, <1>2, <1>3, <1>5 DEF Bidding
    <3>2. QED
      BY <3>1, InsertKeeps
  <2>2. Paid <= Paid'
    BY <2>1 DEF BidsKeep
  <2>3. CASE Return(p)
    BY <1>1, <2>1, <2>2, <2>3, ReturnLands, JobRests, ClockRests DEF StepOf
  <2>4. CASE Keep(p, l, "writeBids")
    <3>1. l \in Local /\ l.job = loc[p].job /\ l.todo = {}
      BY <1>2, Blanks DEF Local
    <3>2. \A d : d = l => Holds("writeBids", d)'
      BY <1>2, <2>1, <3>1 DEF Holds, Bidding
    <3>3. "writeBids" \in Labels /\ "writeBids" \notin Bidding
      BY DEF Labels, Bidding
    <3>4. Lands(p)
      BY <2>4, <3>1, <3>2, <3>3, KeepLands
    <3>5. QED
      BY <1>1, <2>1, <2>2, <3>4, JobRests, ClockRests DEF StepOf
  <2>5. QED
    BY <1>5, <2>3, <2>4 DEF AfterBid
<1>6. QED
  BY <1>4, <1>5 DEF CreateBid

(* A bid is withdrawn or has won.                                          *)
LEMMA WriteOneStep ==
    ASSUME AuctionInv, NEW p \in Procs, WriteWithdrawn(p) \/ WriteWon(p) PROVE StepOf(p)
<1>1. UNCHANGED <<job, issued, now>> /\ pc[p] \in {"writeWithdrawn", "writeWon"}
  BY DEF WriteWithdrawn, WriteWon
<1>2. PICK status \in {"withdrawn", "won"} : UpdateBid(loc[p].bid, status)
  BY DEF WriteWithdrawn, WriteWon
<1>3. loc[p] \in Local /\ Holds(pc[p], loc[p])
  BY Copies
<1>4. loc[p].bid \in Placed
  BY <1>1, <1>3 DEF Holds
<1>5. BidsKeep(p) /\ Placed' = Placed /\ Paid' = Paid
  BY <1>2, <1>4, StatusKeeps DEF BidStatuses
<1>6. Lands(p)
  <2>1. CASE Return(p)
    BY <2>1, ReturnLands
  <2>2. CASE WriteWon(p)
    <3>1. Keep(p, loc[p], "readBids") /\ pc[p] = "writeWon"
      BY <2>2 DEF WriteWon
    <3>2. Holds("readBids", loc[p])
      BY <1>3, <3>1 DEF Holds, Bidding
    <3>3. \A d : d = loc[p] => Holds("readBids", d)'
      BY <1>1, <1>5, <3>2, HoldsAfterStatus
    <3>4. "readBids" \in Labels /\ "readBids" \notin Bidding
      BY DEF Labels, Bidding
    <3>5. QED
      BY <1>3, <3>1, <3>3, <3>4, KeepLands
  <2>3. QED
    BY <2>1, <2>2 DEF WriteWithdrawn
<1>7. QED
  BY <1>1, <1>5, <1>6, JobRests, ClockRests, PaidType DEF StepOf

(* The loop over the bids, and the job at its end.                         *)
LEMMA LoopStep ==
    ASSUME AuctionInv, NEW p \in Procs, WriteBid(p) \/ WriteJob(p) PROVE StepOf(p)
<1>1. pc[p] = "writeBids" /\ UNCHANGED <<issued, now>>
  BY DEF WriteBid, WriteJob
<1>2. /\ loc[p] \in Local /\ loc[p].job \in JobRow /\ loc[p].todo \subseteq BidIds
      /\ Holds("writeBids", loc[p]) /\ loc[p].job.endsAt <= Paid
  BY <1>1, Copies DEF Holds, Bidding
<1>3. CASE WriteBid(p)
  <2> DEFINE mark == loc[p].mark
  <2>1. UNCHANGED job
    BY <1>3 DEF WriteBid
  <2>2. CASE Return(p) /\ UNCHANGED bids
    BY <1>1, <2>1, <2>2, ReturnLands, QuietStep
  <2>3. ASSUME NEW b \in loc[p].todo, UpdateBid(b, mark),
               mark = "active" => ~Conflict(b, bids[b].owner),
               Keep(p, [loc[p] EXCEPT !.todo = @ \ {b}], "writeBids")
        PROVE  StepOf(p)
    <3> DEFINE todo == loc[p].todo \ {b}
               l == [loc[p] EXCEPT !.todo = todo]
    <3>1. b \in Placed /\ mark \in BidStatuses /\ loc[p].todo \subseteq Placed /\ mark # "none"
      BY <1>2 DEF Holds, Local, BidStatuses
    <3>2. BidsKeep(p) /\ Placed' = Placed /\ Paid' = Paid
      BY <2>3, <3>1, StatusKeeps
    <3>3. /\ l \in Local /\ l.todo = todo /\ l.job = loc[p].job /\ l.mark = mark
      BY <1>2 DEF Local
    <3>4. Holds("writeBids", l)
      BY <1>2, <3>1, <3>3 DEF Holds, Bidding
    <3>5. \A d : d = l => Holds("writeBids", d)'
      BY <1>1, <3>2, <3>4, HoldsAfterStatus
    <3>6. "writeBids" \in Labels /\ "writeBids" \notin Bidding
      BY DEF Labels, Bidding
    <3>7. Keep(p, l, "writeBids")
      BY <2>3
    <3>8. Lands(p)
      BY <3>3, <3>5, <3>6, <3>7, KeepLands
    <3>9. QED
      BY <1>1, <2>1, <3>2, <3>8, JobRests, ClockRests, PaidType DEF StepOf
  <2>4. QED
    BY <1>3, <2>2, <2>3 DEF WriteBid
<1>4. CASE WriteJob(p)
  <2>1. job' = loc[p].job /\ Return(p) /\ UNCHANGED bids
    BY <1>4 DEF WriteJob
  <2>2. BidsKeep(p) /\ Paid' = Paid
    BY <2>1, BidsRest
  <2>3. JobKeeps
    BY <1>2, <2>1, <2>2 DEF JobKeeps
  <2>4. QED
    BY <1>1, <2>1, <2>2, <2>3, ReturnLands, ClockRests DEF StepOf
<1>5. QED
  BY <1>3, <1>4

(* A request that goes on although a statement failed has no more in hand  *)
(* than before.                                                            *)
LEMMA IgnoreErrorStep ==
    ASSUME AuctionInv, NEW p \in Procs, IgnoreError(p) PROVE StepOf(p)
<1>1. UNCHANGED <<job, bids, issued, now>>
  BY DEF IgnoreError
<1>2. /\ loc[p] \in Local /\ loc[p].todo \subseteq BidIds /\ pc[p] \in Labels
      /\ Holds(pc[p], loc[p])
  BY Copies
<1>3. ASSUME NEW label \in Labels, NEW l \in Local, Holds(label, l), Keep(p, l, label),
             label \in Bidding => pc[p] \in Bidding /\ l.bid = loc[p].bid
      PROVE  Lands(p)
  <2>1. \A d : d = l => Holds(label, d)'
    BY <1>1, <1>3, QuietHolds
  <2>2. QED
    BY <1>3, <2>1, KeepLands
<1>4. ASSUME pc[p] = "bestBid", Keep(p, loc[p], "myBid") PROVE Lands(p)
  <2>1. Holds("myBid", loc[p])
    BY <1>2, <1>4 DEF Holds, Bidding
  <2>2. QED
    BY <1>2, <1>3, <1>4, <2>1 DEF Labels, Bidding
<1>5. ASSUME pc[p] = "myBid", Keep(p, loc[p], "createBid") PROVE Lands(p)
  <2>1. Holds("createBid", loc[p])
    BY <1>2, <1>5 DEF Holds, Bidding
  <2>2. QED
    BY <1>2, <1>3, <1>5, <2>1 DEF Labels, Bidding
<1>6. ASSUME pc[p] = "readBids", Keep(p, loc[p], "writeBids") PROVE Lands(p)
  <2>1. Holds("writeBids", loc[p])
    BY <1>2, <1>6 DEF Holds, Bidding
  <2>2. QED
    BY <1>2, <1>3, <1>6, <2>1 DEF Labels, Bidding
<1>7. ASSUME pc[p] = "writeBids", NEW b \in loc[p].todo,
             Keep(p, [loc[p] EXCEPT !.todo = @ \ {b}], "writeBids")
      PROVE  Lands(p)
  <2> DEFINE l == [loc[p] EXCEPT !.todo = loc[p].todo \ {b}]
  <2>1. /\ l \in Local /\ l.todo = loc[p].todo \ {b} /\ l.job = loc[p].job
        /\ l.mark = loc[p].mark /\ Keep(p, l, "writeBids")
    BY <1>2, <1>7 DEF Local
  <2>2. Holds("writeBids", l)
    BY <1>2, <1>7, <2>1 DEF Holds, Bidding
  <2> HIDE DEF l
  <2>3. QED
    BY <1>3, <2>1, <2>2 DEF Labels, Bidding
<1>8. QED
  BY <1>1, <1>4, <1>5, <1>6, <1>7, QuietStep DEF IgnoreError

(* Every step is a step of one process, or the clock's.                    *)
LEMMA StepShapes ==
    ASSUME AuctionInv, Next PROVE (\E p \in Procs : StepOf(p)) \/ Tick
<1>1. ASSUME NEW p \in Procs, Fail(p) PROVE StepOf(p)
  BY <1>1, ReturnLands, QuietStep DEF Fail
<1>2. ASSUME NEW p \in Procs, Continue(p) PROVE StepOf(p)
  BY <1>2, ReadStep, WithdrawPrevStep, CreateBidStep, WriteOneStep, LoopStep DEF Continue
<1>3. ASSUME DueJobs PROVE StepOf(Scheduler)
  BY <1>3, EndingStep DEF DueJobs, Procs
<1>4. QED
  BY <1>1, <1>2, <1>3, BeginStep, IgnoreErrorStep DEF Next, Procs

-----------------------------------------------------------------------------
(* The invariant.                                                          *)

(* What the other requests hold stays good.                                *)
LEMMA HoldsStays ==
    ASSUME AuctionInv, NEW p \in Procs, BidsKeep(p), ClockKeeps, NEW q \in Procs, q # p
    PROVE  \A label, l : label = pc[q] /\ l = loc[q] => Holds(label, l)'
<1> SUFFICES ASSUME NEW label, NEW l, label = pc[q], l = loc[q] PROVE Holds(label, l)'
  OBVIOUS
<1>1. Holds(label, l) /\ l \in Local /\ l.job.endsAt \in Nat
  BY Copies DEF JobRow
<1>2. Placed \subseteq Placed' /\ l.todo \subseteq Placed'
  BY <1>1 DEF BidsKeep, Holds
<1>3. Paid \in Nat /\ Paid' \in Nat /\ Paid <= Paid' /\ ExtendBy \in Nat
  BY PaidType, PaidTypeNext, AuctionNumbers DEF BidsKeep
<1>4. ASSUME label \in Bidding
      PROVE  /\ l.row \in BidRow /\ l.bid \in 1..issued' /\ l.bid \notin Placed'
             /\ l.job.endsAt <= Paid' + ExtendBy
  <2>1. /\ l.row \in BidRow /\ l.bid \in 1..issued /\ l.bid \notin Placed
        /\ l.job.endsAt <= Paid + ExtendBy
    BY <1>1, <1>4 DEF Holds
  <2>2. pc[p] \in Bidding => loc[p].bid # l.bid
    BY <1>4 DEF AuctionInv, OwnNumbers
  <2>3. l.bid \notin Placed'
    BY <2>1, <2>2 DEF BidsKeep
  <2>4. l.bid \in 1..issued'
    BY <2>1, AuctionNumbers DEF ClockKeeps, AuctionInv, TypeOK
  <2>5. l.job.endsAt <= Paid' + ExtendBy
    BY <1>1, <1>3, <2>1
  <2>6. QED
    BY <2>1, <2>3, <2>4, <2>5
<1>5. label \notin Bidding => l.job.endsAt <= Paid'
  BY <1>1, <1>3 DEF Holds
<1>6. QED
  BY <1>1, <1>2, <1>4, <1>5 DEF Holds

(* Every step keeps the invariant.                                         *)
LEMMA NextAuctionInv == AuctionInv /\ [Next]_vars => AuctionInv'
<1> SUFFICES ASSUME AuctionInv, [Next]_vars PROVE AuctionInv'
  OBVIOUS
<1>1. TypeOK
  BY DEF AuctionInv
<1>2. CASE UNCHANGED <<job, bids, issued, pc, loc>> /\ now' \in 0..Horizon
  <2>1. Placed' = Placed
    BY <1>2 DEF Placed
  <2>2. Paid' = Paid
    BY <2>1, SamePaid
  <2>3. TypeOK' /\ DoubleTapIsOneBid' /\ OwnNumbers'
    BY <1>2 DEF AuctionInv, TypeOK, DoubleTapIsOneBid, Active, OwnNumbers
  <2>4. \A p \in Procs : Holds(pc[p], loc[p])'
    BY <1>2, <2>1, <2>2 DEF AuctionInv, Holds
  <2>5. QED
    BY <1>2, <2>1, <2>2, <2>3, <2>4 DEF AuctionInv
<1>3. ASSUME NEW p \in Procs, StepOf(p) PROVE AuctionInv'
  <2>1. PICK label \in Labels, l \in Local :
               /\ pc' = [pc EXCEPT ![p] = label] /\ loc' = [loc EXCEPT ![p] = l]
               /\ \A d : d = l => Holds(label, d)'
               /\ label \in Bidding => \/ pc[p] \in Bidding /\ l.bid = loc[p].bid
                                       \/ l.bid \notin 1..issued
    BY <1>3 DEF StepOf, Lands
  <2>2. BidsKeep(p) /\ JobKeeps /\ ClockKeeps
    BY <1>3 DEF StepOf
  <2>3. TypeOK'
    BY <1>1, <2>1, <2>2 DEF TypeOK, BidsKeep, JobKeeps, ClockKeeps
  <2>4. pc'[p] = label /\ loc'[p] = l
    BY <1>1, <2>1 DEF TypeOK
  <2>5. \A q \in Procs \ {p} : pc'[q] = pc[q] /\ loc'[q] = loc[q]
    BY <1>1, <2>1 DEF TypeOK
  <2>6. ASSUME NEW q \in Procs PROVE Holds(pc[q], loc[q])'
    <3>1. CASE q = p
      BY <2>1, <2>4, <3>1 DEF Holds
    <3>2. CASE q # p
      <4>1. \A x, k : x = pc[q] /\ k = loc[q] => Holds(x, k)'
        BY <2>2, <3>2, HoldsStays
      <4>2. QED
        BY <2>5, <3>2, <4>1 DEF Holds
    <3>3. QED
      BY <3>1, <3>2
  <2>7. Placed' \subseteq 1..issued'
    <3>1. ASSUME NEW b \in Placed' PROVE b \in 1..issued'
      <4>1. b \in 1..issued
        BY <2>2, <3>1, Copies DEF BidsKeep, AuctionInv, Holds
      <4>2. QED
        BY <2>2, <4>1, AuctionNumbers DEF ClockKeeps, AuctionInv, TypeOK
    <3>2. QED
      BY <3>1
  <2>8. OwnNumbers'
    <3>1. ASSUME NEW q \in Procs \ {p}, pc'[q] \in Bidding, label \in Bidding
          PROVE  loc'[q].bid # l.bid
      <4>1. pc[q] \in Bidding /\ loc'[q] = loc[q] /\ loc[q].bid \in 1..issued
        BY <2>5, <3>1, Copies DEF Holds
      <4>2. pc[p] \in Bidding => loc[q].bid # loc[p].bid
        BY <4>1 DEF AuctionInv, OwnNumbers
      <4>3. QED
        BY <2>1, <3>1, <4>1, <4>2
    <3>2. QED
      BY <2>4, <2>5, <3>1 DEF OwnNumbers, AuctionInv
  <2>9. QED
    BY <2>2, <2>3, <2>6, <2>7, <2>8 DEF AuctionInv, BidsKeep, JobKeeps
<1>4. CASE UNCHANGED vars
  BY <1>1, <1>2, <1>4 DEF vars, TypeOK
<1>5. CASE Tick
  BY <1>1, <1>2, <1>5, AuctionNumbers DEF Tick, TypeOK
<1>6. QED
  BY <1>3, <1>4, <1>5, StepShapes

(* A fresh auction without bids.                                           *)
LEMMA InitAuctionInv == Init => AuctionInv
<1> SUFFICES ASSUME Init PROVE AuctionInv
  OBVIOUS
<1>1. TypeOK
  BY Blanks, AuctionNumbers DEF Init, TypeOK, Labels
<1>2. \A b \in BidIds : bids[b] = NoBid
  BY DEF Init
<1>3. Placed = {} /\ Active = {}
  BY <1>2 DEF Placed, Active, NoBid
<1>4. job.endsAt <= Paid
  BY Blanks, PaidType DEF Init
<1>5. \A p \in Procs : pc[p] = "idle" /\ loc[p] = NoLocal
  BY DEF Init
<1>6. \A p \in Procs : Holds(pc[p], loc[p])
  BY <1>5, Blanks, PaidType DEF Holds, Bidding
<1>7. QED
  BY <1>1, <1>3, <1>4, <1>5, <1>6 DEF AuctionInv, DoubleTapIsOneBid, OwnNumbers, Bidding

(***************************************************************************)
(* The invariant holds: new bids have numbers of their own, and the copies *)
(* of the job that are still to be written are paid for, or will be.       *)
(***************************************************************************)
THEOREM AuctionInductive == Spec => []AuctionInv
BY InitAuctionInv, NextAuctionInv, PTL DEF Spec

(***************************************************************************)
(* The rows, copies and program counters keep their shape: no handler      *)
(* writes the status of a bid that is not on file.                         *)
(***************************************************************************)
THEOREM TypeCorrect == Spec => []TypeOK
<1>1. AuctionInv => TypeOK
  BY DEF AuctionInv
<1>2. QED
  BY <1>1, AuctionInductive, PTL

(***************************************************************************)
(* An executor never has two standing prices, however his PlaceBid         *)
(* overlap with each other and with a FinishAuction that rewrites his bid. *)
(***************************************************************************)
THEOREM OneStandingPrice == Spec => []DoubleTapIsOneBid
<1>1. AuctionInv => DoubleTapIsOneBid
  BY DEF AuctionInv
<1>2. QED
  BY <1>1, AuctionInductive, PTL

(***************************************************************************)
(* The end of the auction is never later than the bids on file pay for:    *)
(* not by a PlaceBid that fails, nor by a stale copy of the job.           *)
(***************************************************************************)
THEOREM EveryExtensionIsPaid == Spec => []ExtensionsArePaid
<1>1. AuctionInv => ExtensionsArePaid
  BY DEF AuctionInv, ExtensionsArePaid, Paid
<1>2. QED
  BY <1>1, AuctionInductive, PTL

=============================================================================
