--------------------------- MODULE OrderLifecycle ---------------------------
(***************************************************************************)
(* The life of one job in the orders service: the customer's draft, the    *)
(* offers of a fixed-price job or the bids of a reverse auction, the       *)
(* choice of an executor, the deal, its dispute, complaints about the job, *)
(* and the scheduler that acts when a deadline passes.                     *)
(*                                                                         *)
(* One action is one whole handler of internal/service, run without        *)
(* interruption: what the rules guarantee when requests do not overlap.    *)
(* Every statement of the service is keyed by one job, so jobs do not      *)
(* influence each other and one job is enough.                             *)
(*                                                                         *)
(* Time.  A deadline is kept as the time that is left until it, because    *)
(* the code only ever compares EndsAt - now, DecisionDeadline - now and    *)
(* AcceptanceDeadline - now with constants.  Tick is the passing of one    *)
(* unit; a timer at 0 is due and stays at 0.                               *)
(***************************************************************************)
EXTENDS Workflow

CONSTANTS
    Owners,            \* executors: they make offers and place bids
    NoOwner,           \* nobody (no deal, no recommended bid)
    Reporters,         \* users who complain about the job
    Budgets,           \* prices the customer may type into the wizard
    Prices,            \* prices executors and the customer may type later
    Terms,             \* auction terms the customer may send: reserve, autoExtend
    AuctionDuration,   \* Auction.DurationH
    DecisionWindow,    \* Auction.DecisionWindowH
    AcceptanceWindow,  \* job.AcceptanceWindow
    SnipeWindow,       \* job.SnipeWindow
    ExtendBy,          \* job.ExtendBy
    WithdrawLimit      \* job.WithdrawLimit

ASSUME PeopleAssumption == NoOwner \notin Owners

ASSUME PriceAssumption ==
    /\ Budgets \subseteq Nat
    /\ Prices \subseteq Nat
    /\ Terms \subseteq [reserve : Nat, autoExtend : BOOLEAN]

ASSUME WindowAssumption ==
    /\ AuctionDuration \in Nat \ {0}
    /\ DecisionWindow \in Nat \ {0}
    /\ AcceptanceWindow \in Nat \ {0}
    /\ SnipeWindow \in Nat \ {0}
    /\ ExtendBy \in Nat \ {0}
    /\ WithdrawLimit \in Nat \ {0}

VARIABLES
    job,        \* row of orders.jobs: status, mode, price, auction terms
    endsIn,     \* time left until Auction.EndsAt
    decideIn,   \* time left until DecisionDeadline
    winner,     \* executor whose bid is WinnerBidID
    offers,     \* latest offer of each executor
    bids,       \* latest bid of each executor
    deal,       \* row of orders.deals, if there is one
    acceptIn,   \* time left until AcceptanceDeadline
    dispute,    \* latest dispute of the deal
    complaints  \* who has an open complaint about the job

auctionVars == <<endsIn, decideIn, winner>>
dealVars == <<deal, acceptIn, dispute>>
vars == <<job, auctionVars, offers, bids, dealVars, complaints>>

-----------------------------------------------------------------------------
(* Types.  Price 0, timer -1 and status "none" stand for an absent value.  *)

NoTimer == -1
Timer == Nat \cup {NoTimer}

Job == [status : JobStatuses \cup {"none"}, mode : {"fixed", "auction"},
        budget : Nat, reserve : Nat, autoExtend : BOOLEAN, filled : BOOLEAN]
Offer == [status : OfferStatuses \cup {"none"}, price : Nat, counter : Nat]
Bid == [status : BidStatuses \cup {"none"}, price : Nat]
Deal == [status : DealStatuses \cup {"none"}, owner : Owners \cup {NoOwner},
         price : Nat]
Dispute == [status : {"none", "open", "resolved"},
            outcome : DisputeOutcomes \cup {"none"}]

(***************************************************************************)
(* Every row keeps a status of its own enumeration, also where one row     *)
(* takes its status from another (a job from its deal), and a price and a  *)
(* deadline are present or absent, never less.                             *)
(***************************************************************************)
TypeOK ==
    /\ job \in Job
    /\ endsIn \in Timer /\ decideIn \in Timer /\ acceptIn \in Timer
    /\ winner \in Owners \cup {NoOwner}
    /\ offers \in [Owners -> Offer]
    /\ bids \in [Owners -> Bid]
    /\ deal \in Deal
    /\ dispute \in Dispute
    /\ complaints \subseteq Reporters

NewJob == [status |-> "draft", mode |-> "fixed", budget |-> 0, reserve |-> 0,
           autoExtend |-> FALSE, filled |-> FALSE]

Init ==
    /\ job = [NewJob EXCEPT !.status = "none"]
    /\ endsIn = NoTimer /\ decideIn = NoTimer /\ acceptIn = NoTimer
    /\ winner = NoOwner
    /\ offers = [o \in Owners |-> [status |-> "none", price |-> 0, counter |-> 0]]
    /\ bids = [o \in Owners |-> [status |-> "none", price |-> 0]]
    /\ deal = [status |-> "none", owner |-> NoOwner, price |-> 0]
    /\ dispute = [status |-> "none", outcome |-> "none"]
    /\ complaints = {}

-----------------------------------------------------------------------------
(* Draft and publication (service/orders.go).                              *)

(***************************************************************************)
(* What one step of the wizard sends.  "keep" and NoBudget are fields the  *)
(* step did not touch; filled says whether the fields the model leaves out *)
(* (category, title, description, photos, place, dates, currency, the two  *)
(* durations) now pass ValidateForPublish.                                 *)
(***************************************************************************)
NoBudget == -1
NoTerms == [reserve |-> -1, autoExtend |-> FALSE]
DraftInputs == [mode : {"keep", "fixed", "auction"},
                budget : Budgets \cup {NoBudget},
                terms : Terms \cup {NoTerms},
                filled : BOOLEAN]

(***************************************************************************)
(* apply, in the order of the code: the mode first (a fixed price drops    *)
(* the terms, a new auction gets the defaults: no reserve, auto-extension  *)
(* on), then the terms, which make the job an auction whatever the mode.   *)
(***************************************************************************)
ApplyMode(j, mode) ==
    IF mode = "fixed"
    THEN [j EXCEPT !.mode = "fixed", !.reserve = 0, !.autoExtend = FALSE]
    ELSE IF mode = "auction" /\ j.mode = "fixed"
         THEN [j EXCEPT !.mode = "auction", !.reserve = 0, !.autoExtend = TRUE]
         ELSE j

ApplyTerms(j, terms) ==
    IF terms = NoTerms THEN j
    ELSE [j EXCEPT !.mode = "auction", !.reserve = terms.reserve,
                   !.autoExtend = terms.autoExtend]

ApplyBudget(j, in) ==
    [j EXCEPT !.filled = in.filled,
              !.budget = IF in.budget = NoBudget THEN j.budget ELSE in.budget]

Apply(j, in) == ApplyTerms(ApplyMode(ApplyBudget(j, in), in.mode), in.terms)

CreateDraft(in) ==
    /\ job.status = "none"
    /\ job' = Apply(NewJob, in)
    /\ UNCHANGED <<auctionVars, offers, bids, dealVars, complaints>>

UpdateDraft(in) ==
    /\ job.status = "draft"
    /\ job' = Apply(job, in)
    /\ UNCHANGED <<auctionVars, offers, bids, dealVars, complaints>>

ValidateForPublish(j) ==
    /\ j.filled
    /\ j.budget > 0
    /\ j.mode = "auction" => j.reserve <= j.budget

Publish ==
    /\ job.status = "draft"
    /\ ValidateForPublish(job)
    /\ CanTransition(job.status, StatusAfterPublish(job.mode))
    /\ job' = [job EXCEPT !.status = StatusAfterPublish(job.mode)]
    /\ endsIn' = IF job.mode = "auction" THEN AuctionDuration ELSE endsIn
    /\ UNCHANGED <<decideIn, winner, offers, bids, dealVars, complaints>>

(***************************************************************************)
(* Cancel writes the job only: the deal, the offers and the bids stay.     *)
(***************************************************************************)
Cancel ==
    /\ CanTransition(job.status, "cancelled")
    /\ job' = [job EXCEPT !.status = "cancelled"]
    /\ UNCHANGED <<auctionVars, offers, bids, dealVars, complaints>>

-----------------------------------------------------------------------------
(* Offers of a fixed-price job (service/offers.go).                        *)

(* 0.3 of the job's price is the lowest offer and the lowest bid.          *)
AboveFloor(price, start) == 10 * price >= 3 * start

CanAcceptOffers == job.mode # "auction" /\ IsOpen(job.status)

ValidateOffer(price) == price > 0 /\ AboveFloor(price, job.budget)

(***************************************************************************)
(* MakeOffer: a live offer is rewritten in place and forgets the           *)
(* customer's counter price, a closed one is followed by a new row, an     *)
(* accepted one is returned as it is.  kind "accept" takes the job's price *)
(* from the server.                                                        *)
(***************************************************************************)
MakeOffer(o, kind, typed) ==
    LET price == IF kind = "accept" THEN job.budget ELSE typed
    IN  /\ CanAcceptOffers
        /\ ValidateOffer(price)
        /\ offers[o].status # "accepted"
        /\ offers' = [offers EXCEPT ![o] =
                        [status |-> "active", price |-> price, counter |-> 0]]
        /\ UNCHANGED <<job, auctionVars, bids, dealVars, complaints>>

(* Mutant: an accepted offer may still be taken back.                      *)
OfferNotFinal_Any(o) == offers[o].status # "none"

OfferNotFinal(o) == offers[o].status \notin {"none", "accepted"}

WithdrawOffer(o) ==
    /\ OfferNotFinal(o)
    /\ offers' = [offers EXCEPT ![o].status = "withdrawn"]
    /\ UNCHANGED <<job, auctionVars, bids, dealVars, complaints>>

DeclineOffer(o) ==
    /\ OfferNotFinal(o)
    /\ offers' = [offers EXCEPT ![o].status = "declined"]
    /\ UNCHANGED <<job, auctionVars, bids, dealVars, complaints>>

CounterOffer(o, price) ==
    /\ offers[o].counter = 0
    /\ offers[o].status = "active"
    /\ price > 0
    /\ offers' = [offers EXCEPT ![o].status = "counter_offered",
                                ![o].counter = price]
    /\ UNCHANGED <<job, auctionVars, bids, dealVars, complaints>>

OfferLive(o) == offers[o].status \in {"active", "counter_offered"}

AcceptedPrice(o) ==
    IF offers[o].status = "counter_offered" THEN offers[o].counter
                                            ELSE offers[o].price

(* Mutant: the other offers are left waiting.                              *)
OffersAfterAccept_OthersWait(o) ==
    [offers EXCEPT ![o].status = "accepted", ![o].price = AcceptedPrice(o)]

OffersAfterAccept(o) ==
    [x \in Owners |->
        CASE x = o -> [offers[o] EXCEPT !.status = "accepted",
                                        !.price = AcceptedPrice(o)]
          [] x # o /\ offers[x].status \in {"none", "declined", "withdrawn"} ->
                offers[x]
          [] OTHER -> [offers[x] EXCEPT !.status = "declined"]]

AcceptOffer(o) ==
    /\ OfferLive(o)
    /\ CanTransition(job.status, "deal_pending")
    /\ offers' = OffersAfterAccept(o)
    /\ job' = [job EXCEPT !.status = "deal_pending"]
    /\ UNCHANGED <<auctionVars, bids, dealVars, complaints>>

-----------------------------------------------------------------------------
(* The reverse auction (service/bids.go, service/bids_accept.go).          *)

CanBid == /\ job.mode = "auction"
          /\ job.status = "bidding"
          /\ endsIn = NoTimer \/ endsIn > 0

(* Mutant: an equal price is accepted.                                     *)
BeatsOthers_OrEqual(o, price) ==
    \A x \in Owners \ {o} : bids[x].status = "active" => price <= bids[x].price

(***************************************************************************)
(* The price to beat is the lowest active bid of the others: when the      *)
(* lowest bid is the bidder's own, PlaceBid looks for the second price,    *)
(* and otherwise the lowest bid is another's anyway.                       *)
(***************************************************************************)
BeatsOthers(o, price) ==
    \A x \in Owners \ {o} : bids[x].status = "active" => price < bids[x].price

ValidateBid(o, price) ==
    /\ price > 0
    /\ BeatsOthers(o, price)
    /\ AboveFloor(price, job.budget)

ShouldExtend == job.autoExtend /\ endsIn > 0 /\ endsIn <= SnipeWindow

PlaceBid(o, price) ==
    /\ CanBid
    /\ ValidateBid(o, price)
    /\ bids' = [bids EXCEPT ![o] = [status |-> "active", price |-> price]]
    /\ endsIn' = IF ShouldExtend THEN endsIn + ExtendBy ELSE endsIn
    /\ UNCHANGED <<job, decideIn, winner, offers, dealVars, complaints>>

(* There is no check of the job's status: only the clock may refuse.       *)
CanWithdrawBid == endsIn = NoTimer \/ endsIn >= WithdrawLimit

WithdrawBid(o) ==
    /\ bids[o].status = "active"
    /\ CanWithdrawBid
    /\ bids' = [bids EXCEPT ![o].status = "withdrawn"]
    /\ UNCHANGED <<job, auctionVars, offers, dealVars, complaints>>

ActiveBids == {o \in Owners : bids[o].status = "active"}

(* Mutant: the reserve is ignored.                                         *)
Scored_NoReserve == ActiveBids

(***************************************************************************)
(* Score with the arguments FinishAuction passes (rating 0, distance       *)
(* unknown, no unit match) orders the bids that reach the reserve by       *)
(* price, the cheapest first.                                              *)
(***************************************************************************)
Scored == {o \in ActiveBids : bids[o].price >= job.reserve}

BestScored(o) == o \in Scored /\ \A x \in Scored : bids[o].price <= bids[x].price

(***************************************************************************)
(* FinishAuction: no bid to recommend closes the job, otherwise the best   *)
(* one is recommended and the decision window opens.  The handler does not *)
(* look at the clock: the scheduler calls it when EndsAt has passed, and   *)
(* POST /auction/finish calls it at any time.                              *)
(***************************************************************************)
FinishAuction ==
    /\ job.mode = "auction" /\ job.status = "bidding"
    /\ \/ /\ Scored = {}
          /\ job' = [job EXCEPT !.status = "expired_no_bids"]
          /\ UNCHANGED <<decideIn, winner>>
       \/ \E o \in Owners :
          /\ BestScored(o)
          /\ job' = [job EXCEPT !.status = "deciding"]
          /\ winner' = o
          /\ decideIn' = DecisionWindow
    /\ UNCHANGED <<endsIn, offers, bids, dealVars, complaints>>

CloseActiveBids(as) ==
    [x \in Owners |-> IF bids[x].status = "active"
                      THEN [bids[x] EXCEPT !.status = as] ELSE bids[x]]

(* Mutant: any auction that is no longer bidding counts.                   *)
AwaitsDecision_AfterBidding == job.mode = "auction" /\ job.status # "bidding"

AwaitsDecision == job.status = "deciding"

(* The customer may take any active bid, not only the recommended one.     *)
AcceptBid(o) ==
    /\ AwaitsDecision
    /\ bids[o].status = "active"
    /\ bids' = [CloseActiveBids("lost") EXCEPT ![o] = [bids[o] EXCEPT !.status = "won"]]
    /\ job' = [job EXCEPT !.status = "deal_pending"]
    /\ winner' = o
    /\ UNCHANGED <<endsIn, decideIn, offers, dealVars, complaints>>

DeclineAllBids ==
    /\ AwaitsDecision
    /\ bids' = CloseActiveBids("lost")
    /\ job' = [job EXCEPT !.status = "declined_all"]
    /\ UNCHANGED <<auctionVars, offers, dealVars, complaints>>

ExpireDecision ==
    /\ AwaitsDecision
    /\ decideIn <= 0
    /\ bids' = CloseActiveBids("expired")
    /\ job' = [job EXCEPT !.status = "expired"]
    /\ UNCHANGED <<auctionVars, offers, dealVars, complaints>>

-----------------------------------------------------------------------------
(* The deal and its dispute (service/deals.go, service/disputes.go).       *)

(* The accepted offer, or failing that the bid that won.                   *)
Chosen(o) ==
    \/ offers[o].status = "accepted"
    \/ /\ \A x \in Owners : offers[x].status # "accepted"
       /\ bids[o].status = "won"

ChosenPrice(o) == IF offers[o].status = "accepted" THEN offers[o].price
                                                   ELSE bids[o].price

ConfirmDeal ==
    /\ deal.status = "none"
    /\ job.status = "deal_pending"
    /\ \E o \in Owners :
        /\ Chosen(o)
        /\ deal' = [status |-> "confirmed", owner |-> o, price |-> ChosenPrice(o)]
    /\ job' = [job EXCEPT !.status = "confirmed"]
    /\ UNCHANGED <<auctionVars, offers, bids, acceptIn, dispute, complaints>>

(* Mutant: the job does not follow.                                        *)
MoveDeal_DealOnly(to) ==
    /\ deal' = [deal EXCEPT !.status = to]
    /\ UNCHANGED job

(* Both rows of a deal step: the deal, then the job that follows it.       *)
MoveDeal(to) ==
    /\ deal' = [deal EXCEPT !.status = to]
    /\ job' = [job EXCEPT !.status = JobStatusForDeal(to)]

(* The steps POST /deals/{id}/step accepts.                                *)
StepTargets == {"on_the_way", "in_progress", "work_done", "completed", "disputed"}

(* Mutant: the deadline is set when the work is accepted.                  *)
AcceptanceTimer_Late(to) ==
    IF to = "completed" THEN AcceptanceWindow ELSE acceptIn

(* The acceptance deadline starts when the work is reported done.          *)
AcceptanceTimer(to) ==
    IF to = "work_done" THEN AcceptanceWindow ELSE acceptIn

AdvanceDeal(side, to) ==
    /\ CanAdvance(deal.status, to, side)
    /\ MoveDeal(to)
    /\ acceptIn' = AcceptanceTimer(to)
    /\ UNCHANGED <<auctionVars, offers, bids, dispute, complaints>>

CancelDeal(side) ==
    /\ CanAdvance(deal.status, "cancelled", side)
    /\ MoveDeal("cancelled")
    /\ UNCHANGED <<auctionVars, offers, bids, acceptIn, dispute, complaints>>

(* Mutant: work that is already done is not parked.                        *)
DisputeParks_OnlyInProgress(s) == s = "in_progress"

(* A dispute takes the deal out of its flow, and out of auto-acceptance.   *)
DisputeParks(s) == s \notin {"disputed", "completed"}

(***************************************************************************)
(* OpenDispute: a unique index allows one open dispute.  A completed deal  *)
(* stays completed while its dispute is open.  Both sides may open one.    *)
(***************************************************************************)
OpenDispute ==
    /\ CanOpenDispute(deal.status)
    /\ dispute.status # "open"
    /\ dispute' = [status |-> "open", outcome |-> "none"]
    /\ IF DisputeParks(deal.status) THEN MoveDeal("disputed")
                                    ELSE UNCHANGED <<deal, job>>
    /\ UNCHANGED <<auctionVars, offers, bids, acceptIn, complaints>>

(* Mutant: the verdict is applied to any deal.                             *)
VerdictApplies_Always == TRUE

VerdictApplies == deal.status = "disputed"

ResolveDispute(outcome) ==
    /\ dispute.status = "open"
    /\ dispute' = [status |-> "resolved", outcome |-> outcome]
    /\ IF VerdictApplies
       THEN MoveDeal(IF outcome = "client" THEN "cancelled" ELSE "completed")
       ELSE UNCHANGED <<deal, job>>
    /\ UNCHANGED <<auctionVars, offers, bids, acceptIn, complaints>>

-----------------------------------------------------------------------------
(* Complaints about the job (service/complaints.go).                       *)

(* A unique index allows one open complaint per author.                    *)
Complain(r) ==
    /\ job.status # "none"
    /\ r \notin complaints
    /\ complaints' = complaints \cup {r}
    /\ UNCHANGED <<job, auctionVars, offers, bids, dealVars>>

ReviewComplaint(r, action) ==
    /\ r \in complaints
    /\ complaints' = complaints \ {r}
    /\ job' = IF action = "removed" /\ CanTransition(job.status, "cancelled")
              THEN [job EXCEPT !.status = "cancelled"] ELSE job
    /\ UNCHANGED <<auctionVars, offers, bids, dealVars>>

-----------------------------------------------------------------------------
(* Time and the scheduler (service/scheduler.go, store DueJobs).           *)

Elapse(t) == IF t > 0 THEN t - 1 ELSE t

Tick ==
    /\ endsIn > 0 \/ decideIn > 0 \/ acceptIn > 0
    /\ endsIn' = Elapse(endsIn)
    /\ decideIn' = Elapse(decideIn)
    /\ acceptIn' = Elapse(acceptIn)
    /\ UNCHANGED <<job, winner, offers, bids, deal, dispute, complaints>>

(* Mutants: an auction or a decision without active bids is never due.     *)
DueAuction_WithBids == job.status = "bidding" /\ endsIn = 0 /\ ActiveBids # {}
DueDecision_WithBids == job.status = "deciding" /\ decideIn = 0 /\ ActiveBids # {}

DueAuction == job.status = "bidding" /\ endsIn = 0
DueDecision == job.status = "deciding" /\ decideIn = 0
DueAcceptance ==
    job.status = "work_done" /\ deal.status = "work_done" /\ acceptIn = 0

(* One pass over a due job; autoAccept acts in the customer's name.        *)
RunOnce ==
    \/ DueAuction /\ FinishAuction
    \/ DueDecision /\ ExpireDecision
    \/ DueAcceptance /\ AdvanceDeal("client", "completed")

-----------------------------------------------------------------------------
ClientStep ==
    \/ \E in \in DraftInputs : CreateDraft(in) \/ UpdateDraft(in)
    \/ Publish
    \/ Cancel
    \/ \E o \in Owners : DeclineOffer(o) \/ AcceptOffer(o) \/ AcceptBid(o)
    \/ \E o \in Owners, p \in Prices : CounterOffer(o, p)
    \/ DeclineAllBids
    \/ ConfirmDeal

OwnerStep ==
    \/ \E o \in Owners, k \in {"accept", "counter"}, p \in Prices : MakeOffer(o, k, p)
    \/ \E o \in Owners : WithdrawOffer(o) \/ WithdrawBid(o)
    \/ \E o \in Owners, p \in Prices : PlaceBid(o, p)

DealStep ==
    \/ \E side \in Sides, to \in StepTargets : AdvanceDeal(side, to)
    \/ \E side \in Sides : CancelDeal(side)
    \/ OpenDispute
    \/ \E outcome \in DisputeOutcomes : ResolveDispute(outcome)

ModerationStep ==
    \/ \E r \in Reporters : Complain(r)
    \/ \E r \in Reporters, action \in {"dismissed", "removed", "warned"} :
            ReviewComplaint(r, action)

Next ==
    \/ ClientStep
    \/ OwnerStep
    \/ DealStep
    \/ ModerationStep
    \/ FinishAuction
    \/ RunOnce
    \/ Tick

Spec == Init /\ [][Next]_vars

(***************************************************************************)
(* Time passes, and the scheduler goroutine runs every minute until the    *)
(* process is stopped.  Nobody is obliged to send a request.               *)
(***************************************************************************)
FairSpec == Spec /\ WF_vars(Tick) /\ WF_vars(RunOnce)


-----------------------------------------------------------------------------
(* Safety.                                                                 *)

LiveOffers == {o \in Owners : OfferLive(o)}
AcceptedOffers == {o \in Owners : offers[o].status = "accepted"}
WonBids == {o \in Owners : bids[o].status = "won"}

(* One executor is chosen, by one of the two ways, and nobody else waits.  *)
Settled ==
    /\ LiveOffers = {} /\ ActiveBids = {}
    /\ \E o \in Owners :
          \/ AcceptedOffers = {o} /\ WonBids = {}
          \/ AcceptedOffers = {} /\ WonBids = {o}

(***************************************************************************)
(* While a job waits for the customer's confirmation exactly one executor  *)
(* is chosen, through an offer or through a bid and never through both,    *)
(* and nobody else is kept waiting: AcceptOffer and AcceptBid close the    *)
(* rest, and no later call reopens it.                                     *)
(***************************************************************************)
WinnerSettled == job.status = "deal_pending" => Settled

(***************************************************************************)
(* The price and the executor of a deal are the ones the customer chose:   *)
(* whatever is called after ConfirmDeal, the accepted offer or the won bid *)
(* that the deal was made from still says the same.                        *)
(***************************************************************************)
DealHonoursWinner ==
    deal.status # "none" =>
        /\ deal.owner \in Owners
        /\ Chosen(deal.owner)
        /\ deal.price = ChosenPrice(deal.owner)

(***************************************************************************)
(* The bids of a running auction form a strict ranking: PlaceBid never     *)
(* lets two executors stand at one price, so the recommendation of         *)
(* FinishAuction does not depend on the order of the rows.                 *)
(***************************************************************************)
DistinctActivePrices ==
    \A o, x \in ActiveBids : bids[o].price = bids[x].price => o = x

(***************************************************************************)
(* As long as the recommended bid stands, the customer is shown the        *)
(* cheapest bid that reaches the reserve: no call between FinishAuction    *)
(* and the decision makes a cheaper one appear.                            *)
(***************************************************************************)
RecommendedIsCheapest ==
    job.status = "deciding" /\ winner \in ActiveBids =>
        /\ bids[winner].price >= job.reserve
        /\ \A o \in ActiveBids : bids[o].price >= job.reserve =>
                                    bids[winner].price <= bids[o].price

(***************************************************************************)
(* Job and deal agree on how far the work is.  The one exception is a job  *)
(* cancelled over a running deal, by Cancel or by a moderator; without a   *)
(* deal a job is never past deal_pending.  It makes auto-acceptance        *)
(* reliable: DueJobs finds the deal only while both rows say work_done.    *)
(***************************************************************************)
JobDealAgreement ==
    IF deal.status = "none"
    THEN job.status \notin {"confirmed", "in_progress", "work_done",
                            "completed", "disputed"}
    ELSE \/ job.status = JobStatusForDeal(deal.status)
         \/ /\ job.status = "cancelled"
            /\ deal.status \in {"confirmed", "on_the_way", "in_progress", "disputed"}

(* The customer closes a deal, in the one way or the other.                *)
ClientCloses ==
    \/ AdvanceDeal("client", "completed")
    \/ CancelDeal("client")

(***************************************************************************)
(* While a dispute is open, two people can move the deal: the moderator by *)
(* a verdict, and the customer, to whom dealFlow leaves the way out of     *)
(* disputed (he accepts the work or cancels, without the moderator).  The  *)
(* executor does not go on with the work and the scheduler does not accept *)
(* it, although its deadline keeps running: OpenDispute has taken the deal *)
(* out of the statuses in which they would find it.                        *)
(***************************************************************************)
DisputeHoldsDeal ==
    [][dispute.status = "open" /\ deal' # deal
        => \/ dispute'.status = "resolved"
           \/ deal.status = "disputed" /\ ClientCloses]_vars

(***************************************************************************)
(* A deal that is completed or cancelled never changes again, whatever     *)
(* disputes, moderators, the parties and the scheduler do afterwards.      *)
(***************************************************************************)
DealClosedIsFinal == [][DealClosed(deal.status) => UNCHANGED deal]_vars

(***************************************************************************)
(* A job that ended without a deal never comes back, although its bids and *)
(* offers may still be active rows.                                        *)
(***************************************************************************)
ClosedJobStaysClosed ==
    [][deal.status = "none" /\ job.status \in {"cancelled", "declined_all",
                                               "expired", "expired_no_bids"}
        => job'.status = job.status]_vars

-----------------------------------------------------------------------------
(* The inductive invariant behind the safety properties.                   *)

NoOffers == \A o \in Owners : offers[o].status = "none"
NoBids == \A o \in Owners : bids[o].status = "none"

(* Offers belong to fixed prices, bids to auctions, and a draft has none.  *)
ModeMatches ==
    /\ job.status \in {"none", "draft"} => NoOffers /\ NoBids
    /\ job.mode = "fixed" => NoBids
    /\ job.mode = "auction" => NoOffers
    /\ job.status = "collecting_offers" => job.mode = "fixed"
    /\ job.status \in {"bidding", "deciding"} => job.mode = "auction"

(* Before the customer's choice no offer is accepted and no bid has won.   *)
NothingChosenYet ==
    job.status \in {"none", "draft", "published", "collecting_offers", "bidding",
                    "deciding", "expired_no_bids", "declined_all", "expired"}
        => AcceptedOffers = {} /\ WonBids = {}

(* The choice stays settled for as long as there is a deal.                *)
ChoiceSettled == job.status = "deal_pending" \/ deal.status # "none" => Settled

(* OpenDispute parks the deal, and nobody takes it back into its flow.     *)
OpenDisputeParksDeal ==
    dispute.status = "open" => deal.status \in {"disputed", "completed", "cancelled"}

IInv ==
    /\ TypeOK
    /\ ModeMatches
    /\ NothingChosenYet
    /\ ChoiceSettled
    /\ DealHonoursWinner
    /\ JobDealAgreement
    /\ OpenDisputeParksDeal

-----------------------------------------------------------------------------
(* Liveness: what the scheduler brings to an end without anybody's help.   *)

(* An auction whose time is over does not stay "bidding".                  *)
DueAuctionCloses ==
    (job.status = "bidding" /\ endsIn = 0) ~> job.status # "bidding"

(* The customer's silence ends the decision window.                        *)
DecisionCloses == job.status = "deciding" ~> job.status # "deciding"

(* Work that is reported done is accepted, disputed or auto-accepted.      *)
SilenceIsConsent == deal.status = "work_done" ~> deal.status # "work_done"

=============================================================================
