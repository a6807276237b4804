----------------------- MODULE OrderLifecycle_proofs -----------------------
(***************************************************************************)
(* Proofs about OrderLifecycle for every set of executors, every price     *)
(* list and every length of the windows.                                   *)
(***************************************************************************)
EXTENDS OrderLifecycle, WellFoundedInduction, TLAPS

-----------------------------------------------------------------------------
(* Facts about the operators.                                              *)

(* A step of the wizard yields a well-formed job in the same status.       *)
LEMMA ApplyType ==
    ASSUME NEW j \in Job, NEW in \in DraftInputs
    PROVE  Apply(j, in) \in Job /\ Apply(j, in).status = j.status
<1>1. in.terms # NoTerms => in.terms \in [reserve : Nat, autoExtend : BOOLEAN]
  BY PriceAssumption DEF DraftInputs
<1>2. in.budget # NoBudget => in.budget \in Nat
  BY PriceAssumption DEF DraftInputs
<1>3. in.filled \in BOOLEAN
  BY DEF DraftInputs
<1>4. /\ ApplyBudget(j, in) \in Job
      /\ ApplyBudget(j, in).status = j.status
  BY <1>2, <1>3 DEF ApplyBudget, Job
<1>5. ASSUME NEW k \in Job
      PROVE  ApplyMode(k, in.mode) \in Job /\ ApplyMode(k, in.mode).status = k.status
  BY DEF ApplyMode, Job
<1>6. ASSUME NEW k \in Job
      PROVE  ApplyTerms(k, in.terms) \in Job /\ ApplyTerms(k, in.terms).status = k.status
  BY <1>1 DEF ApplyTerms, Job
<1>7. QED
  BY <1>4, <1>5, <1>6 DEF Apply

(* A new draft is well formed.                                             *)
LEMMA NewJobType == NewJob \in Job /\ NewJob.status = "draft"
BY DEF NewJob, Job, JobStatuses

(* A timer stays a timer when a unit of time passes.                       *)
LEMMA ElapseType == ASSUME NEW t \in Timer PROVE Elapse(t) \in Timer
BY DEF Timer, NoTimer, Elapse

(* The status of a job that follows its deal is a status.                  *)
LEMMA JobStatusForDealType ==
    ASSUME NEW s PROVE JobStatusForDeal(s) \in JobStatuses
BY DEF JobStatusForDeal, JobStatuses

(* A job keeps its type when its status is set to another status.          *)
LEMMA JobStatusSet ==
    ASSUME job \in Job, NEW s \in JobStatuses
    PROVE  [job EXCEPT !.status = s] \in Job
BY DEF Job

-----------------------------------------------------------------------------
(* Type correctness.                                                       *)

(* The initial state is well typed.                                        *)
LEMMA InitTypeOK == Init => TypeOK
<1> SUFFICES ASSUME Init PROVE TypeOK
  OBVIOUS
<1>1. job \in Job
  BY DEF Init, NewJob, Job
<1>2. offers \in [Owners -> Offer] /\ bids \in [Owners -> Bid]
  BY DEF Init, Offer, Bid
<1>3. deal \in Deal /\ dispute \in Dispute
  BY DEF Init, Deal, Dispute
<1>4. /\ endsIn \in Timer /\ decideIn \in Timer /\ acceptIn \in Timer
      /\ winner \in Owners \cup {NoOwner} /\ complaints \subseteq Reporters
  BY DEF Init, Timer
<1>5. QED
  BY <1>1, <1>2, <1>3, <1>4 DEF TypeOK

(* Both rows of a deal step keep their types.                              *)
LEMMA MoveDealType ==
    ASSUME TypeOK, NEW to \in DealStatuses, MoveDeal(to)
    PROVE  deal' \in Deal /\ job' \in Job
<1>1. deal' \in Deal
  BY DEF TypeOK, MoveDeal, Deal
<1>2. job' \in Job
  BY JobStatusForDealType, JobStatusSet DEF TypeOK, MoveDeal
<1>3. QED
  BY <1>1, <1>2

(* Closing an auction, with or without a recommendation, keeps the types.  *)
LEMMA FinishAuctionType ==
    ASSUME TypeOK, FinishAuction PROVE TypeOK'
<1>1. /\ endsIn' \in Timer /\ acceptIn' \in Timer /\ offers' \in [Owners -> Offer]
      /\ bids' \in [Owners -> Bid] /\ deal' \in Deal /\ dispute' \in Dispute
      /\ complaints' \subseteq Reporters
  BY DEF TypeOK, FinishAuction, dealVars
<1>2. CASE Scored = {} /\ job' = [job EXCEPT !.status = "expired_no_bids"]
           /\ UNCHANGED <<decideIn, winner>>
  BY <1>1, <1>2 DEF TypeOK, Job, JobStatuses
<1>3. CASE \E o \in Owners :
             /\ BestScored(o)
             /\ job' = [job EXCEPT !.status = "deciding"]
             /\ winner' = o
             /\ decideIn' = DecisionWindow
  BY <1>1, <1>3, WindowAssumption DEF TypeOK, Job, JobStatuses, Timer
<1>4. QED
  BY <1>2, <1>3 DEF FinishAuction

(* An active bid that is closed is still a bid.                            *)
LEMMA CloseActiveBidsType ==
    ASSUME bids \in [Owners -> Bid], NEW as \in BidStatuses
    PROVE  CloseActiveBids(as) \in [Owners -> Bid]
BY DEF CloseActiveBids, Bid

(* So does a step of a deal.                                               *)
LEMMA AdvanceDealType ==
    ASSUME TypeOK, NEW side, NEW to \in DealStatuses, AdvanceDeal(side, to)
    PROVE  TypeOK'
<1>1. deal' \in Deal /\ job' \in Job
  BY MoveDealType DEF AdvanceDeal
<1>2. acceptIn' \in Timer
  BY WindowAssumption DEF AdvanceDeal, AcceptanceTimer, TypeOK, Timer
<1>3. QED
  BY <1>1, <1>2 DEF AdvanceDeal, TypeOK, auctionVars

(* So does the end of the decision window.                                 *)
LEMMA ExpireDecisionType ==
    ASSUME TypeOK, ExpireDecision PROVE TypeOK'
<1>1. bids' \in [Owners -> Bid]
  BY CloseActiveBidsType DEF ExpireDecision, TypeOK, BidStatuses
<1>2. job' \in Job
  BY JobStatusSet DEF ExpireDecision, TypeOK, JobStatuses
<1>3. QED
  BY <1>1, <1>2 DEF ExpireDecision, TypeOK, auctionVars, dealVars

(* Every step, with or without a change, keeps the types.                  *)
LEMMA NextTypeOK == TypeOK /\ [Next]_vars => TypeOK'
<1> SUFFICES ASSUME TypeOK, [Next]_vars PROVE TypeOK'
  OBVIOUS
<1>1. ASSUME NEW in \in DraftInputs, CreateDraft(in) PROVE TypeOK'
  BY <1>1, NewJobType, ApplyType DEF CreateDraft, TypeOK, auctionVars, dealVars
<1>2. ASSUME NEW in \in DraftInputs, UpdateDraft(in) PROVE TypeOK'
  BY <1>2, ApplyType DEF UpdateDraft, TypeOK, auctionVars, dealVars
<1>3. CASE Publish
  <2>1. job' \in Job
    BY <1>3, JobStatusSet DEF Publish, TypeOK, StatusAfterPublish, JobStatuses
  <2>2. endsIn' \in Timer
    BY <1>3, WindowAssumption DEF Publish, TypeOK, Timer
  <2>3. QED
    BY <1>3, <2>1, <2>2 DEF Publish, TypeOK, dealVars
<1>4. CASE Cancel
  <2>1. job' \in Job
    BY <1>4, JobStatusSet DEF Cancel, TypeOK, JobStatuses
  <2>2. QED
    BY <1>4, <2>1 DEF Cancel, TypeOK, auctionVars, dealVars
<1>5. ASSUME NEW o \in Owners, NEW kind, NEW typed \in Prices, MakeOffer(o, kind, typed)
      PROVE  TypeOK'
  <2>1. offers' \in [Owners -> Offer]
    BY <1>5, PriceAssumption DEF MakeOffer, TypeOK, Job, Offer, OfferStatuses
  <2>2. QED
    BY <1>5, <2>1 DEF MakeOffer, TypeOK, auctionVars, dealVars
<1>6. ASSUME NEW o \in Owners, WithdrawOffer(o) \/ DeclineOffer(o)
      PROVE  TypeOK'
  <2>1. offers' \in [Owners -> Offer]
    BY <1>6 DEF WithdrawOffer, DeclineOffer, TypeOK, Offer, OfferStatuses
  <2>2. QED
    BY <1>6, <2>1 DEF WithdrawOffer, DeclineOffer, TypeOK, auctionVars, dealVars
<1>7. ASSUME NEW o \in Owners, NEW p \in Prices, CounterOffer(o, p) PROVE TypeOK'
  <2>1. offers' \in [Owners -> Offer]
    BY <1>7, PriceAssumption DEF CounterOffer, TypeOK, Offer, OfferStatuses
  <2>2. QED
    BY <1>7, <2>1 DEF CounterOffer, TypeOK, auctionVars, dealVars
<1>8. ASSUME NEW o \in Owners, AcceptOffer(o) PROVE TypeOK'
  <2>1. AcceptedPrice(o) \in Nat
    BY DEF AcceptedPrice, TypeOK, Offer
  <2>2. offers' \in [Owners -> Offer]
    BY <1>8, <2>1 DEF AcceptOffer, OffersAfterAccept, TypeOK, Offer, OfferStatuses
  <2>3. job' \in Job
    BY <1>8, JobStatusSet DEF AcceptOffer, TypeOK, JobStatuses
  <2>4. QED
    BY <1>8, <2>2, <2>3 DEF AcceptOffer, TypeOK, auctionVars, dealVars
<1>9. ASSUME NEW o \in Owners, NEW p \in Prices, PlaceBid(o, p) PROVE TypeOK'
  <2>1. bids' \in [Owners -> Bid]
    BY <1>9, PriceAssumption DEF PlaceBid, TypeOK, Bid, BidStatuses
  <2>2. endsIn' \in Timer
    BY <1>9, WindowAssumption DEF PlaceBid, ShouldExtend, TypeOK, Timer
  <2>3. QED
    BY <1>9, <2>1, <2>2 DEF PlaceBid, TypeOK, dealVars
<1>10. ASSUME NEW o \in Owners, WithdrawBid(o) PROVE TypeOK'
  <2>1. bids' \in [Owners -> Bid]
    BY <1>10 DEF WithdrawBid, TypeOK, Bid, BidStatuses
  <2>2. QED
    BY <1>10, <2>1 DEF WithdrawBid, TypeOK, auctionVars, dealVars
<1>11. CASE FinishAuction
  BY <1>11, FinishAuctionType
<1>12. ASSUME NEW o \in Owners, AcceptBid(o) PROVE TypeOK'
  <2>1. bids' \in [Owners -> Bid]
    BY <1>12, CloseActiveBidsType DEF AcceptBid, TypeOK, Bid, BidStatuses
  <2>2. job' \in Job
    BY <1>12, JobStatusSet DEF AcceptBid, TypeOK, JobStatuses
  <2>3. QED
    BY <1>12, <2>1, <2>2 DEF AcceptBid, TypeOK, dealVars
<1>13. CASE DeclineAllBids
  <2>1. bids' \in [Owners -> Bid]
    BY <1>13, CloseActiveBidsType DEF DeclineAllBids, TypeOK, BidStatuses
  <2>2. job' \in Job
    BY <1>13, JobStatusSet DEF DeclineAllBids, TypeOK, JobStatuses
  <2>3. QED
    BY <1>13, <2>1, <2>2 DEF DeclineAllBids, TypeOK, auctionVars, dealVars
<1>14. CASE ConfirmDeal
  <2>1. deal' \in Deal
    BY <1>14 DEF ConfirmDeal, ChosenPrice, TypeOK, Offer, Bid, Deal, DealStatuses
  <2>2. job' \in Job
    BY <1>14, JobStatusSet DEF ConfirmDeal, TypeOK, JobStatuses
  <2>3. QED
    BY <1>14, <2>1, <2>2 DEF ConfirmDeal, TypeOK, auctionVars
<1>15. ASSUME NEW side \in Sides, NEW to \in StepTargets, AdvanceDeal(side, to)
       PROVE  TypeOK'
  BY <1>15, AdvanceDealType DEF StepTargets, DealStatuses
<1>16. ASSUME NEW side \in Sides, CancelDeal(side) PROVE TypeOK'
  <2>1. deal' \in Deal /\ job' \in Job
    BY <1>16, MoveDealType DEF CancelDeal, DealStatuses
  <2>2. QED
    BY <1>16, <2>1 DEF CancelDeal, TypeOK, auctionVars
<1>17. CASE OpenDispute
  <2>1. deal' \in Deal /\ job' \in Job
    BY <1>17, MoveDealType DEF OpenDispute, TypeOK, DealStatuses
  <2>2. dispute' \in Dispute
    BY <1>17 DEF OpenDispute, Dispute
  <2>3. QED
    BY <1>17, <2>1, <2>2 DEF OpenDispute, TypeOK, auctionVars
<1>18. ASSUME NEW outcome \in DisputeOutcomes, ResolveDispute(outcome) PROVE TypeOK'
  <2>1. deal' \in Deal /\ job' \in Job
    BY <1>18, MoveDealType DEF ResolveDispute, TypeOK, DealStatuses
  <2>2. dispute' \in Dispute
    BY <1>18 DEF ResolveDispute, Dispute
  <2>3. QED
    BY <1>18, <2>1, <2>2 DEF ResolveDispute, TypeOK, auctionVars
<1>19. ASSUME NEW r \in Reporters, Complain(r) PROVE TypeOK'
  BY <1>19 DEF Complain, TypeOK, auctionVars, dealVars
<1>20. ASSUME NEW r \in Reporters, NEW action, ReviewComplaint(r, action) PROVE TypeOK'
  <2>1. job' \in Job
    BY <1>20, JobStatusSet DEF ReviewComplaint, TypeOK, JobStatuses
  <2>2. QED
    BY <1>20, <2>1 DEF ReviewComplaint, TypeOK, auctionVars, dealVars
<1>21. CASE RunOnce
  <2>1. CASE DueAuction /\ FinishAuction
    BY <2>1, FinishAuctionType
  <2>2. CASE DueDecision /\ ExpireDecision
    BY <2>2, ExpireDecisionType
  <2>3. CASE DueAcceptance /\ AdvanceDeal("client", "completed")
    BY <2>3, AdvanceDealType DEF DealStatuses
  <2>4. QED
    BY <1>21, <2>1, <2>2, <2>3 DEF RunOnce
<1>22. CASE Tick
  BY <1>22, ElapseType DEF Tick, TypeOK
<1>23. CASE UNCHANGED vars
  BY <1>23 DEF TypeOK, vars, auctionVars, dealVars
<1>24. QED
  BY <1>1, <1>2, <1>3, <1>4, <1>5, <1>6, <1>7, <1>8, <1>9, <1>10, <1>11, <1>12,
     <1>13, <1>14, <1>15, <1>16, <1>17, <1>18, <1>19, <1>20, <1>21, <1>22, <1>23
     DEF Next, ClientStep, OwnerStep, DealStep, ModerationStep

(***************************************************************************)
(* Type correctness, for every instance: no handler writes a status that   *)
(* is not in its enumeration, a negative price or a negative deadline.     *)
(***************************************************************************)
THEOREM TypeCorrect == Spec => []TypeOK
<1>1. Init => TypeOK
  BY InitTypeOK
<1>2. TypeOK /\ [Next]_vars => TypeOK'
  BY NextTypeOK
<1>3. QED
  BY <1>1, <1>2, PTL DEF Spec

-----------------------------------------------------------------------------
(* The inductive invariant.                                                *)

(* A step that leaves the rows alone keeps the invariant.                  *)
LEMMA FrameStep ==
    ASSUME IInv, TypeOK', UNCHANGED <<job, offers, bids, deal, dispute>>
    PROVE  IInv'
<1>1. ModeMatches' /\ NothingChosenYet'
  BY DEF IInv, ModeMatches, NoOffers, NoBids, NothingChosenYet, AcceptedOffers, WonBids
<1>2. ChoiceSettled' /\ DealHonoursWinner'
  BY DEF IInv, ChoiceSettled, Settled, LiveOffers, OfferLive, ActiveBids,
         AcceptedOffers, WonBids, DealHonoursWinner, Chosen, ChosenPrice
<1>3. JobDealAgreement' /\ OpenDisputeParksDeal'
  BY DEF IInv, JobDealAgreement, OpenDisputeParksDeal
<1>4. QED
  BY <1>1, <1>2, <1>3 DEF IInv

(* Cancelling a job alone, from a status that allows it: the deal may be   *)
(* left running, but only in the statuses JobDealAgreement excuses.        *)
LEMMA CancelJobStep ==
    ASSUME IInv, TypeOK', CanTransition(job.status, "cancelled"),
           job' = [job EXCEPT !.status = "cancelled"],
           UNCHANGED <<offers, bids, deal, dispute>>
    PROVE  IInv'
<1>1. job'.status = "cancelled" /\ job'.mode = job.mode
  BY DEF IInv, TypeOK, Job
<1>2. ModeMatches' /\ NothingChosenYet'
  BY <1>1 DEF IInv, ModeMatches, NoOffers, NoBids, NothingChosenYet
<1>3. ChoiceSettled' /\ DealHonoursWinner'
  BY <1>1 DEF IInv, ChoiceSettled, Settled, LiveOffers, OfferLive, ActiveBids,
         AcceptedOffers, WonBids, DealHonoursWinner, Chosen, ChosenPrice
<1>4. JobDealAgreement' /\ OpenDisputeParksDeal'
  BY <1>1 DEF IInv, TypeOK, Deal, DealStatuses, JobDealAgreement, JobStatusForDeal,
         CanTransition, Allowed, OpenDisputeParksDeal
<1>5. QED
  BY <1>2, <1>3, <1>4 DEF IInv

(* Closing the bids of an undecided auction: nobody has been chosen.       *)
LEMMA CloseBidsStep ==
    ASSUME IInv, TypeOK', job.status = "deciding",
           NEW as \in {"lost", "expired"}, bids' = CloseActiveBids(as),
           NEW to \in {"declined_all", "expired"}, job' = [job EXCEPT !.status = to],
           UNCHANGED <<offers, deal, dispute>>
    PROVE  IInv'
<1>1. job'.status = to /\ job'.mode = job.mode
  BY DEF IInv, TypeOK, Job
<1>2. job.mode = "auction" /\ NoOffers /\ deal.status = "none"
  BY DEF IInv, ModeMatches, JobDealAgreement, JobStatusForDeal
<1>3. \A x \in Owners : bids'[x].status # "won"
  BY DEF IInv, TypeOK, Bid, NothingChosenYet, WonBids, CloseActiveBids
<1>4. ModeMatches' /\ NothingChosenYet'
  BY <1>1, <1>2, <1>3 DEF ModeMatches, NoOffers, NothingChosenYet, AcceptedOffers, WonBids
<1>5. /\ ChoiceSettled' /\ DealHonoursWinner'
      /\ JobDealAgreement' /\ OpenDisputeParksDeal'
  BY <1>1, <1>2 DEF IInv, ChoiceSettled, DealHonoursWinner, JobDealAgreement,
         OpenDisputeParksDeal
<1>6. QED
  BY <1>4, <1>5 DEF IInv

(* Closing an auction leaves every bid as it is.                           *)
LEMMA FinishAuctionIInv ==
    ASSUME IInv, TypeOK', FinishAuction PROVE IInv'
<1>1. /\ job.mode = "auction" /\ job.status = "bidding" /\ job'.mode = "auction"
      /\ job'.status \in {"deciding", "expired_no_bids"}
      /\ UNCHANGED <<offers, bids, deal, dispute>>
  BY DEF FinishAuction, IInv, TypeOK, Job, dealVars
<1>2. ModeMatches' /\ NothingChosenYet'
  BY <1>1 DEF IInv, ModeMatches, NoOffers, NoBids, NothingChosenYet, AcceptedOffers, WonBids
<1>3. deal.status = "none"
  BY <1>1 DEF IInv, JobDealAgreement, JobStatusForDeal
<1>4. /\ ChoiceSettled' /\ DealHonoursWinner'
      /\ JobDealAgreement' /\ OpenDisputeParksDeal'
  BY <1>1, <1>3 DEF IInv, ChoiceSettled, DealHonoursWinner, JobDealAgreement,
         OpenDisputeParksDeal
<1>5. QED
  BY <1>2, <1>4 DEF IInv

(* A move of a deal takes the job with it.                                 *)
LEMMA MoveDealIInv ==
    ASSUME IInv, TypeOK', NEW to \in DealStatuses, MoveDeal(to),
           deal.status # "none", OpenDisputeParksDeal',
           UNCHANGED <<offers, bids>>
    PROVE  IInv'
<1>1. /\ job'.status = JobStatusForDeal(to) /\ job'.mode = job.mode
      /\ deal'.status = to /\ deal'.owner = deal.owner /\ deal'.price = deal.price
  BY DEF MoveDeal, IInv, TypeOK, Job, Deal
<1>2. to # "none"
  BY DEF DealStatuses
<1>3. ModeMatches' /\ NothingChosenYet'
  BY <1>1 DEF IInv, ModeMatches, NoOffers, NoBids, NothingChosenYet, JobStatusForDeal
<1>4. ChoiceSettled' /\ DealHonoursWinner'
  BY <1>1 DEF IInv, ChoiceSettled, Settled, LiveOffers, OfferLive, ActiveBids,
         AcceptedOffers, WonBids, DealHonoursWinner, Chosen, ChosenPrice
<1>5. JobDealAgreement'
  BY <1>1, <1>2 DEF JobDealAgreement
<1>6. QED
  BY <1>3, <1>4, <1>5 DEF IInv

(* A step of a deal that is under way, by the party that may take it.      *)
LEMMA AdvanceDealIInv ==
    ASSUME IInv, TypeOK', NEW side, NEW to \in DealStatuses, AdvanceDeal(side, to)
    PROVE  IInv'
<1>1. /\ deal.status # "none"
      /\ deal.status = "disputed" => to \in {"completed", "cancelled"}
      /\ deal.status \notin {"completed", "cancelled"}
  BY DEF AdvanceDeal, CanAdvance, OwnerSteps, ClientSteps
<1>2. OpenDisputeParksDeal'
  BY <1>1 DEF AdvanceDeal, MoveDeal, IInv, TypeOK, Deal, OpenDisputeParksDeal
<1>3. QED
  BY <1>1, <1>2, MoveDealIInv DEF AdvanceDeal

(* A dispute about a deal that is already disputed or closed.              *)
LEMMA DisputeOnlyStep ==
    ASSUME IInv, TypeOK', deal.status \in {"disputed", "completed", "cancelled"},
           UNCHANGED <<job, offers, bids, deal>>
    PROVE  IInv'
<1>1. ModeMatches' /\ NothingChosenYet'
  BY DEF IInv, ModeMatches, NoOffers, NoBids, NothingChosenYet, AcceptedOffers, WonBids
<1>2. ChoiceSettled' /\ DealHonoursWinner'
  BY DEF IInv, ChoiceSettled, Settled, LiveOffers, OfferLive, ActiveBids,
         AcceptedOffers, WonBids, DealHonoursWinner, Chosen, ChosenPrice
<1>3. JobDealAgreement' /\ OpenDisputeParksDeal'
  BY DEF IInv, JobDealAgreement, OpenDisputeParksDeal
<1>4. QED
  BY <1>1, <1>2, <1>3 DEF IInv

(* Every step keeps the inductive invariant.                               *)
LEMMA NextIInv == IInv /\ [Next]_vars => IInv'
<1> SUFFICES ASSUME IInv, [Next]_vars PROVE IInv'
  OBVIOUS
<1>0. TypeOK'
  BY NextTypeOK DEF IInv
<1>1. ASSUME NEW in \in DraftInputs, CreateDraft(in)
      PROVE  IInv'
  <2>1. job' \in Job /\ job'.status = "draft"
    BY <1>1, ApplyType, NewJobType DEF CreateDraft
  <2>2. deal.status = "none" /\ UNCHANGED <<offers, bids, deal, dispute>>
    BY <1>1 DEF CreateDraft, IInv, JobDealAgreement, JobStatusForDeal,
       dealVars
  <2>3. NoOffers /\ NoBids
    BY <1>1 DEF CreateDraft, IInv, ModeMatches
  <2>4. ModeMatches' /\ NothingChosenYet'
    BY <2>1, <2>2, <2>3 DEF ModeMatches, NoOffers, NoBids,
       NothingChosenYet, AcceptedOffers, WonBids
  <2>5. ChoiceSettled' /\ JobDealAgreement'
    BY <2>1, <2>2 DEF ChoiceSettled, JobDealAgreement
  <2>6. DealHonoursWinner' /\ OpenDisputeParksDeal'
    BY <2>2 DEF IInv, DealHonoursWinner, OpenDisputeParksDeal
  <2>7. QED
    BY <1>0, <2>4, <2>5, <2>6 DEF IInv
<1>2. ASSUME NEW in \in DraftInputs, UpdateDraft(in)
      PROVE  IInv'
  <2>1. job' \in Job /\ job'.status = "draft"
    BY <1>2, ApplyType DEF UpdateDraft, IInv, TypeOK
  <2>2. deal.status = "none" /\ UNCHANGED <<offers, bids, deal, dispute>>
    BY <1>2 DEF UpdateDraft, IInv, JobDealAgreement, JobStatusForDeal,
       dealVars
  <2>3. NoOffers /\ NoBids
    BY <1>2 DEF UpdateDraft, IInv, ModeMatches
  <2>4. ModeMatches' /\ NothingChosenYet'
    BY <2>1, <2>2, <2>3 DEF ModeMatches, NoOffers, NoBids,
       NothingChosenYet, AcceptedOffers, WonBids
  <2>5. ChoiceSettled' /\ JobDealAgreement'
    BY <2>1, <2>2 DEF ChoiceSettled, JobDealAgreement
  <2>6. DealHonoursWinner' /\ OpenDisputeParksDeal'
    BY <2>2 DEF IInv, DealHonoursWinner, OpenDisputeParksDeal
  <2>7. QED
    BY <1>0, <2>4, <2>5, <2>6 DEF IInv
<1>3. CASE Publish
  <2>1. UNCHANGED <<offers, bids, deal, dispute>>
    BY <1>3 DEF Publish, dealVars
  <2>2. /\ job.status = "draft" /\ job'.mode = job.mode
        /\ job'.status = IF job.mode = "auction" THEN "bidding" ELSE "collecting_offers"
    BY <1>3 DEF Publish, StatusAfterPublish, IInv, TypeOK, Job
  <2>3. ModeMatches' /\ NothingChosenYet'
    BY <2>1, <2>2 DEF IInv, TypeOK, Job, ModeMatches, NoOffers, NoBids,
       NothingChosenYet, AcceptedOffers, WonBids
  <2>4. ChoiceSettled' /\ JobDealAgreement'
    BY <2>1, <2>2 DEF IInv, ChoiceSettled, JobDealAgreement,
       JobStatusForDeal
  <2>5. DealHonoursWinner' /\ OpenDisputeParksDeal'
    BY <2>1 DEF IInv, DealHonoursWinner, Chosen, ChosenPrice,
       OpenDisputeParksDeal
  <2>6. QED
    BY <1>0, <2>3, <2>4, <2>5 DEF IInv
<1>4. CASE Cancel
  BY <1>4, CancelJobStep, <1>0 DEF Cancel, auctionVars, dealVars
<1>5. ASSUME NEW o \in Owners, NEW kind, NEW typed \in Prices,
             MakeOffer(o, kind, typed)
      PROVE  IInv'
  <2>1. UNCHANGED <<job, bids, deal, dispute>>
    BY <1>5 DEF MakeOffer, dealVars
  <2>2. ModeMatches' /\ NothingChosenYet'
    BY <1>5, <2>1 DEF MakeOffer, CanAcceptOffers, IsOpen, IInv, TypeOK,
       Job, Offer, ModeMatches, NoOffers, NoBids, NothingChosenYet,
       AcceptedOffers, WonBids
  <2>3. ChoiceSettled'
    BY <1>5, <2>1 DEF MakeOffer, CanAcceptOffers, IsOpen, IInv, TypeOK,
       Offer, ChoiceSettled, Settled, LiveOffers, OfferLive, ActiveBids,
       AcceptedOffers, WonBids, JobDealAgreement, JobStatusForDeal
  <2>4. DealHonoursWinner'
    BY <1>5, <2>1 DEF MakeOffer, CanAcceptOffers, IsOpen, IInv, TypeOK,
       Offer, DealHonoursWinner, Chosen, ChosenPrice, JobDealAgreement,
       JobStatusForDeal
  <2>5. JobDealAgreement' /\ OpenDisputeParksDeal'
    BY <2>1 DEF IInv, JobDealAgreement, OpenDisputeParksDeal
  <2>6. QED
    BY <1>0, <2>2, <2>3, <2>4, <2>5 DEF IInv
<1>6. ASSUME NEW o \in Owners, WithdrawOffer(o) \/ DeclineOffer(o)
      PROVE  IInv'
  <2>1. UNCHANGED <<job, bids, deal, dispute>>
    BY <1>6 DEF WithdrawOffer, DeclineOffer, dealVars
  <2>2. ModeMatches' /\ NothingChosenYet'
    BY <1>6, <2>1 DEF WithdrawOffer, DeclineOffer, OfferNotFinal, IInv,
       TypeOK, Job, Offer, ModeMatches, NoOffers, NoBids, NothingChosenYet,
       AcceptedOffers, WonBids
  <2>3. ChoiceSettled'
    <3>1. AcceptedOffers' = AcceptedOffers /\ LiveOffers' \subseteq LiveOffers
      BY <1>6 DEF WithdrawOffer, DeclineOffer, OfferNotFinal, IInv, TypeOK,
         Offer, AcceptedOffers, LiveOffers, OfferLive
    <3>2. ActiveBids' = ActiveBids /\ WonBids' = WonBids
      BY <2>1 DEF ActiveBids, WonBids
    <3>3. QED
      BY <2>1, <3>1, <3>2 DEF IInv, ChoiceSettled, Settled
  <2>4. DealHonoursWinner'
    BY <1>6, <2>1 DEF WithdrawOffer, DeclineOffer, OfferNotFinal, IInv,
       TypeOK, Offer, DealHonoursWinner, Chosen, ChosenPrice,
       JobDealAgreement, JobStatusForDeal
  <2>5. JobDealAgreement' /\ OpenDisputeParksDeal'
    BY <2>1 DEF IInv, JobDealAgreement, OpenDisputeParksDeal
  <2>6. QED
    BY <1>0, <2>2, <2>3, <2>4, <2>5 DEF IInv
<1>7. ASSUME NEW o \in Owners, NEW p \in Prices, CounterOffer(o, p)
      PROVE  IInv'
  <2>1. UNCHANGED <<job, bids, deal, dispute>>
    BY <1>7 DEF CounterOffer, dealVars
  <2>2. ModeMatches' /\ NothingChosenYet'
    BY <1>7, <2>1 DEF CounterOffer, auctionVars, IInv, TypeOK, Job, Offer,
       ModeMatches, NoOffers, NoBids, NothingChosenYet, AcceptedOffers,
       WonBids
  <2>3. ChoiceSettled'
    BY <1>7, <2>1 DEF CounterOffer, auctionVars, IInv, TypeOK, Offer,
       ChoiceSettled, Settled, LiveOffers, OfferLive, ActiveBids,
       AcceptedOffers, WonBids, JobDealAgreement, JobStatusForDeal
  <2>4. DealHonoursWinner'
    BY <1>7, <2>1 DEF CounterOffer, auctionVars, IInv, TypeOK, Offer,
       DealHonoursWinner, Chosen, ChosenPrice, JobDealAgreement,
       JobStatusForDeal
  <2>5. JobDealAgreement' /\ OpenDisputeParksDeal'
    BY <2>1 DEF IInv, JobDealAgreement, OpenDisputeParksDeal
  <2>6. QED
    BY <1>0, <2>2, <2>3, <2>4, <2>5 DEF IInv
<1>8. ASSUME NEW o \in Owners, AcceptOffer(o)
      PROVE  IInv'
  <2>1. /\ job.status = "collecting_offers" /\ job'.status = "deal_pending"
        /\ job'.mode = job.mode /\ UNCHANGED <<bids, deal, dispute>>
    BY <1>8 DEF AcceptOffer, CanTransition, Allowed, IInv, TypeOK, Job,
       dealVars
  <2>2. NoBids /\ job.mode = "fixed" /\ deal.status = "none"
    BY <2>1 DEF IInv, ModeMatches, JobDealAgreement, JobStatusForDeal
  <2>3. \A x \in Owners :
            /\ x = o => offers'[x].status = "accepted"
            /\ x # o => offers'[x].status \in {"none", "declined", "withdrawn"}
    BY <1>8 DEF AcceptOffer, OffersAfterAccept, IInv, TypeOK, Offer
  <2>4. ModeMatches' /\ NothingChosenYet'
    BY <2>1, <2>2 DEF ModeMatches, NoOffers, NoBids, NothingChosenYet
  <2>5. LiveOffers' = {} /\ AcceptedOffers' = {o}
    <3>1. \A x \in Owners : /\ ~OfferLive(x)'
                            /\ offers'[x].status = "accepted" <=> x = o
      BY <2>3 DEF OfferLive
    <3>2. QED
      BY <3>1 DEF LiveOffers, AcceptedOffers
  <2>6. ActiveBids' = {} /\ WonBids' = {}
    BY <2>1, <2>2 DEF NoBids, ActiveBids, WonBids
  <2>7. ChoiceSettled'
    BY <2>5, <2>6 DEF ChoiceSettled, Settled
  <2>8. /\ DealHonoursWinner' /\ JobDealAgreement'
        /\ OpenDisputeParksDeal'
    BY <2>1, <2>2 DEF IInv, DealHonoursWinner, JobDealAgreement,
       OpenDisputeParksDeal
  <2>9. QED
    BY <1>0, <2>4, <2>7, <2>8 DEF IInv
<1>9. ASSUME NEW o \in Owners, NEW p \in Prices, PlaceBid(o, p)
      PROVE  IInv'
  <2>1. UNCHANGED <<job, offers, deal, dispute>>
    BY <1>9 DEF PlaceBid, dealVars
  <2>2. ModeMatches' /\ NothingChosenYet'
    BY <1>9, <2>1 DEF PlaceBid, CanBid, IInv, TypeOK, Job, Bid,
       ModeMatches, NoOffers, NoBids, NothingChosenYet, AcceptedOffers,
       WonBids
  <2>3. ChoiceSettled'
    BY <1>9, <2>1 DEF PlaceBid, CanBid, IInv, TypeOK, Bid, ChoiceSettled,
       Settled, LiveOffers, OfferLive, ActiveBids, AcceptedOffers, WonBids,
       JobDealAgreement, JobStatusForDeal
  <2>4. DealHonoursWinner'
    BY <1>9, <2>1 DEF PlaceBid, CanBid, IInv, TypeOK, Bid,
       DealHonoursWinner, Chosen, ChosenPrice, JobDealAgreement,
       JobStatusForDeal
  <2>5. JobDealAgreement' /\ OpenDisputeParksDeal'
    BY <2>1 DEF IInv, JobDealAgreement, OpenDisputeParksDeal
  <2>6. QED
    BY <1>0, <2>2, <2>3, <2>4, <2>5 DEF IInv
<1>10. ASSUME NEW o \in Owners, WithdrawBid(o)
      PROVE  IInv'
  <2>1. UNCHANGED <<job, offers, deal, dispute>>
    BY <1>10 DEF WithdrawBid, dealVars
  <2>2. ModeMatches' /\ NothingChosenYet'
    BY <1>10, <2>1 DEF WithdrawBid, auctionVars, IInv, TypeOK, Job, Bid,
       ModeMatches, NoOffers, NoBids, NothingChosenYet, AcceptedOffers,
       WonBids
  <2>3. ChoiceSettled'
    BY <1>10, <2>1 DEF WithdrawBid, auctionVars, IInv, TypeOK, Bid,
       ChoiceSettled, Settled, LiveOffers, OfferLive, ActiveBids,
       AcceptedOffers, WonBids, JobDealAgreement, JobStatusForDeal
  <2>4. DealHonoursWinner'
    BY <1>10, <2>1 DEF WithdrawBid, auctionVars, IInv, TypeOK, Bid,
       DealHonoursWinner, Chosen, ChosenPrice, JobDealAgreement,
       JobStatusForDeal
  <2>5. JobDealAgreement' /\ OpenDisputeParksDeal'
    BY <2>1 DEF IInv, JobDealAgreement, OpenDisputeParksDeal
  <2>6. QED
    BY <1>0, <2>2, <2>3, <2>4, <2>5 DEF IInv
<1>11. CASE FinishAuction
  BY <1>11, FinishAuctionIInv, <1>0
<1>12. ASSUME NEW o \in Owners, AcceptBid(o)
      PROVE  IInv'
  <2>1. /\ job.status = "deciding" /\ job'.status = "deal_pending"
        /\ job'.mode = job.mode /\ UNCHANGED <<offers, deal, dispute>>
    BY <1>12 DEF AcceptBid, AwaitsDecision, IInv, TypeOK, Job, dealVars
  <2>2. NoOffers /\ job.mode = "auction" /\ deal.status = "none"
    BY <2>1 DEF IInv, ModeMatches, JobDealAgreement, JobStatusForDeal
  <2>3. \A x \in Owners : bids[x].status # "won"
    BY <2>1 DEF IInv, NothingChosenYet, AcceptedOffers, WonBids
  <2>4. \A x \in Owners :
            /\ x = o => bids'[x].status = "won"
            /\ x # o => bids'[x].status \notin {"won", "active"}
    BY <1>12, <2>3 DEF AcceptBid, CloseActiveBids, IInv, TypeOK, Bid
  <2>5. ModeMatches' /\ NothingChosenYet'
    BY <2>1, <2>2 DEF ModeMatches, NoOffers, NoBids, NothingChosenYet
  <2>6. ActiveBids' = {} /\ WonBids' = {o}
    <3>1. \A x \in Owners : /\ bids'[x].status # "active"
                            /\ bids'[x].status = "won" <=> x = o
      BY <2>4
    <3>2. QED
      BY <3>1 DEF ActiveBids, WonBids
  <2>7. LiveOffers' = {} /\ AcceptedOffers' = {}
    BY <2>1, <2>2 DEF NoOffers, LiveOffers, OfferLive, AcceptedOffers
  <2>8. ChoiceSettled'
    BY <2>6, <2>7 DEF ChoiceSettled, Settled
  <2>9. /\ DealHonoursWinner' /\ JobDealAgreement'
        /\ OpenDisputeParksDeal'
    BY <2>1, <2>2 DEF IInv, DealHonoursWinner, JobDealAgreement,
       OpenDisputeParksDeal
  <2>10. QED
    BY <1>0, <2>5, <2>8, <2>9 DEF IInv
<1>13. CASE DeclineAllBids
  BY <1>13, CloseBidsStep, <1>0 DEF DeclineAllBids, AwaitsDecision,
     dealVars
<1>14. CASE ConfirmDeal
  <2>1. /\ job.status = "deal_pending" /\ job'.status = "confirmed"
        /\ job'.mode = job.mode /\ deal.status = "none" /\ deal'.status = "confirmed"
        /\ UNCHANGED <<offers, bids, dispute>>
    BY <1>14 DEF ConfirmDeal, IInv, TypeOK, Job
  <2>2. ModeMatches' /\ NothingChosenYet'
    BY <2>1 DEF IInv, ModeMatches, NoOffers, NoBids, NothingChosenYet
  <2>3. ChoiceSettled'
    BY <2>1 DEF IInv, ChoiceSettled, Settled, LiveOffers, OfferLive,
       ActiveBids, AcceptedOffers, WonBids
  <2>4. DealHonoursWinner'
    BY <1>14, <2>1 DEF ConfirmDeal, DealHonoursWinner, Chosen, ChosenPrice
  <2>5. JobDealAgreement' /\ OpenDisputeParksDeal'
    BY <2>1 DEF IInv, JobDealAgreement, JobStatusForDeal,
       OpenDisputeParksDeal
  <2>6. QED
    BY <1>0, <2>2, <2>3, <2>4, <2>5 DEF IInv
<1>15. ASSUME NEW side \in Sides, NEW to \in StepTargets,
             AdvanceDeal(side, to)
      PROVE  IInv'
  BY <1>15, AdvanceDealIInv, <1>0 DEF StepTargets, DealStatuses
<1>16. ASSUME NEW side \in Sides, CancelDeal(side)
      PROVE  IInv'
  <2>1. deal.status # "none"
    BY <1>16 DEF CancelDeal, CanAdvance, OwnerSteps, ClientSteps
  <2>2. deal'.status = "cancelled"
    BY <1>16 DEF CancelDeal, MoveDeal, IInv, TypeOK, Deal
  <2>3. OpenDisputeParksDeal'
    BY <2>2 DEF OpenDisputeParksDeal
  <2>4. QED
    BY <1>0, <1>16, <2>1, <2>3, MoveDealIInv DEF CancelDeal, DealStatuses
<1>17. CASE OpenDispute
  <2>1. deal.status \in {"in_progress", "work_done", "completed", "disputed"}
    BY <1>17 DEF OpenDispute, CanOpenDispute
  <2>2. CASE DisputeParks(deal.status)
    <3>1. MoveDeal("disputed") /\ UNCHANGED <<offers, bids>>
      BY <1>17, <2>2 DEF OpenDispute
    <3>2. OpenDisputeParksDeal'
      BY <3>1 DEF MoveDeal, IInv, TypeOK, Deal, OpenDisputeParksDeal
    <3>3. QED
      BY <1>0, <2>1, <3>1, <3>2, MoveDealIInv DEF DealStatuses
  <2>3. CASE ~DisputeParks(deal.status)
    BY <1>0, <1>17, <2>1, <2>3, DisputeOnlyStep DEF OpenDispute, DisputeParks
  <2>4. QED
    BY <2>2, <2>3
<1>18. ASSUME NEW outcome \in DisputeOutcomes, ResolveDispute(outcome)
      PROVE  IInv'
  <2>1. CASE VerdictApplies
    BY <1>18, <2>1, MoveDealIInv, <1>0 DEF ResolveDispute, VerdictApplies,
       DealStatuses, OpenDisputeParksDeal
  <2>2. CASE ~VerdictApplies
    BY <1>18, <2>2, DisputeOnlyStep, <1>0 DEF ResolveDispute, IInv,
       OpenDisputeParksDeal
  <2>3. QED
    BY <2>1, <2>2
<1>19. ASSUME NEW r \in Reporters, Complain(r)
      PROVE  IInv'
  BY <1>19, FrameStep, <1>0 DEF Complain, auctionVars, dealVars
<1>20. ASSUME NEW r \in Reporters, NEW action, ReviewComplaint(r, action)
      PROVE  IInv'
  <2>1. CASE job' = job
    BY <1>20, <2>1, FrameStep, <1>0 DEF ReviewComplaint, dealVars
  <2>2. CASE job' # job
    BY <1>20, <2>2, CancelJobStep, <1>0 DEF ReviewComplaint, dealVars
  <2>3. QED
    BY <2>1, <2>2
<1>21. CASE RunOnce
  <2>1. CASE FinishAuction
    BY <2>1, FinishAuctionIInv, <1>0
  <2>2. CASE ExpireDecision
    BY <2>2, CloseBidsStep, <1>0 DEF ExpireDecision, AwaitsDecision,
       dealVars
  <2>3. CASE AdvanceDeal("client", "completed")
    BY <2>3, AdvanceDealIInv, <1>0 DEF DealStatuses
  <2>4. QED
    BY <1>21, <2>1, <2>2, <2>3 DEF RunOnce
<1>22. CASE Tick
  BY <1>22, FrameStep, <1>0 DEF Tick
<1>23. CASE UNCHANGED vars
  BY <1>23, FrameStep, <1>0 DEF vars, auctionVars, dealVars
<1>24. QED
  BY <1>1, <1>2, <1>3, <1>4, <1>5, <1>6, <1>7, <1>8, <1>9, <1>10, <1>11,
     <1>12, <1>13, <1>14, <1>15, <1>16, <1>17, <1>18, <1>19, <1>20, <1>21,
     <1>22, <1>23 DEF Next, ClientStep, OwnerStep, DealStep, ModerationStep


(* The invariant holds before the first request.                           *)
LEMMA InitIInv == Init => IInv
<1> SUFFICES ASSUME Init PROVE IInv
  OBVIOUS
<1>1. NoOffers /\ NoBids
  BY DEF Init, NoOffers, NoBids
<1>2. job.status = "none" /\ deal.status = "none" /\ dispute.status = "none"
  BY DEF Init, NewJob
<1>3. ModeMatches /\ NothingChosenYet
  BY <1>1, <1>2 DEF ModeMatches, NoOffers, NoBids, NothingChosenYet, AcceptedOffers, WonBids
<1>4. /\ ChoiceSettled /\ DealHonoursWinner /\ JobDealAgreement
      /\ OpenDisputeParksDeal
  BY <1>2 DEF ChoiceSettled, DealHonoursWinner, JobDealAgreement, OpenDisputeParksDeal
<1>5. QED
  BY <1>3, <1>4, InitTypeOK DEF IInv

(* The inductive invariant holds in every reachable state.                 *)
THEOREM Inductive == Spec => []IInv
BY InitIInv, NextIInv, PTL DEF Spec

(***************************************************************************)
(* Whatever the requests and their order, a job that waits for             *)
(* confirmation has exactly one chosen executor and nobody else waiting.   *)
(***************************************************************************)
THEOREM OneWinner == Spec => []WinnerSettled
<1>1. IInv => WinnerSettled
  BY DEF IInv, ChoiceSettled, WinnerSettled
<1>2. QED
  BY <1>1, Inductive, PTL

(***************************************************************************)
(* A deal never parts from the offer or the bid it was made from.          *)
(***************************************************************************)
THEOREM DealKeepsItsPrice == Spec => []DealHonoursWinner
<1>1. IInv => DealHonoursWinner
  BY DEF IInv
<1>2. QED
  BY <1>1, Inductive, PTL

(***************************************************************************)
(* Job and deal agree, except for a job cancelled over a running deal.     *)
(***************************************************************************)
THEOREM JobAndDealAgree == Spec => []JobDealAgreement
<1>1. IInv => JobDealAgreement
  BY DEF IInv
<1>2. QED
  BY <1>1, Inductive, PTL

-----------------------------------------------------------------------------
(* What no step may do.                                                    *)

(* The handlers that write the deal.                                       *)
DealWriters ==
    \/ ConfirmDeal
    \/ \E side \in Sides, to \in StepTargets : AdvanceDeal(side, to)
    \/ \E side \in Sides : CancelDeal(side)
    \/ OpenDispute
    \/ \E outcome \in DisputeOutcomes : ResolveDispute(outcome)
    \/ DueAcceptance /\ AdvanceDeal("client", "completed")

(* Nothing else does.                                                      *)
LEMMA DealWrittenBy ==
    ASSUME [Next]_vars PROVE UNCHANGED deal \/ DealWriters
<1> SUFFICES ASSUME ~DealWriters PROVE UNCHANGED deal
  OBVIOUS
<1>1. ASSUME NEW in \in DraftInputs, CreateDraft(in) \/ UpdateDraft(in)
      PROVE  UNCHANGED deal
  BY <1>1 DEF CreateDraft, UpdateDraft, dealVars
<1>2. CASE Publish
  BY <1>2 DEF Publish, dealVars
<1>3. CASE Cancel
  BY <1>3 DEF Cancel, dealVars
<1>4. ASSUME NEW o \in Owners, NEW kind, NEW typed \in Prices,
             MakeOffer(o, kind, typed)
      PROVE  UNCHANGED deal
  BY <1>4 DEF MakeOffer, dealVars
<1>5. ASSUME NEW o \in Owners, WithdrawOffer(o) \/ DeclineOffer(o)
      PROVE  UNCHANGED deal
  BY <1>5 DEF WithdrawOffer, DeclineOffer, dealVars
<1>6. ASSUME NEW o \in Owners, NEW p \in Prices, CounterOffer(o, p)
      PROVE  UNCHANGED deal
  BY <1>6 DEF CounterOffer, dealVars
<1>7. ASSUME NEW o \in Owners, AcceptOffer(o)
      PROVE  UNCHANGED deal
  BY <1>7 DEF AcceptOffer, dealVars
<1>8. ASSUME NEW o \in Owners, NEW p \in Prices, PlaceBid(o, p)
      PROVE  UNCHANGED deal
  BY <1>8 DEF PlaceBid, dealVars
<1>9. ASSUME NEW o \in Owners, WithdrawBid(o)
      PROVE  UNCHANGED deal
  BY <1>9 DEF WithdrawBid, dealVars
<1>10. CASE FinishAuction
  BY <1>10 DEF FinishAuction, dealVars
<1>11. ASSUME NEW o \in Owners, AcceptBid(o)
      PROVE  UNCHANGED deal
  BY <1>11 DEF AcceptBid, dealVars
<1>12. CASE DeclineAllBids
  BY <1>12 DEF DeclineAllBids, dealVars
<1>13. ~DealStep /\ ~ConfirmDeal
  BY DEF DealStep, DealWriters
<1>14. ASSUME NEW r \in Reporters, Complain(r)
      PROVE  UNCHANGED deal
  BY <1>14 DEF Complain, dealVars
<1>15. ASSUME NEW r \in Reporters, NEW action, ReviewComplaint(r, action)
      PROVE  UNCHANGED deal
  BY <1>15 DEF ReviewComplaint, dealVars
<1>16. CASE RunOnce
  BY <1>16 DEF RunOnce, FinishAuction, ExpireDecision, DealWriters, dealVars
<1>17. CASE Tick
  BY <1>17 DEF Tick, dealVars
<1>18. CASE UNCHANGED vars
  BY <1>18 DEF vars, dealVars
<1>19. QED
  BY <1>1, <1>2, <1>3, <1>4, <1>5, <1>6, <1>7, <1>8, <1>9, <1>10, <1>11,
     <1>12, <1>13, <1>14, <1>15, <1>16, <1>17, <1>18
     DEF Next, ClientStep, OwnerStep, ModerationStep

(* No handler writes a deal that is completed or cancelled.                *)
LEMMA ClosedDealStep ==
    ASSUME [Next]_vars, DealClosed(deal.status) PROVE UNCHANGED deal
<1>1. CASE ConfirmDeal
  BY <1>1 DEF ConfirmDeal, DealClosed
<1>2. ASSUME NEW side \in Sides, NEW to \in StepTargets, AdvanceDeal(side, to)
      PROVE  UNCHANGED deal
  BY <1>2 DEF AdvanceDeal, CanAdvance, OwnerSteps, ClientSteps, DealClosed
<1>3. ASSUME NEW side \in Sides, CancelDeal(side)
      PROVE  UNCHANGED deal
  BY <1>3 DEF CancelDeal, CanAdvance, OwnerSteps, ClientSteps, DealClosed
<1>4. CASE OpenDispute
  BY <1>4 DEF OpenDispute, CanOpenDispute, DisputeParks, DealClosed
<1>5. ASSUME NEW outcome \in DisputeOutcomes, ResolveDispute(outcome)
      PROVE  UNCHANGED deal
  BY <1>5 DEF ResolveDispute, VerdictApplies, DealClosed
<1>6. ~DueAcceptance
  BY DEF DueAcceptance, DealClosed
<1>7. QED
  BY <1>1, <1>2, <1>3, <1>4, <1>5, <1>6, DealWrittenBy DEF DealWriters

(* A deal with an open dispute is moved by a verdict or by the customer.   *)
LEMMA DisputedDealStep ==
    ASSUME IInv, [Next]_vars, dispute.status = "open", deal' # deal
    PROVE  \/ dispute'.status = "resolved"
           \/ deal.status = "disputed" /\ ClientCloses
<1>1. deal.status = "disputed"
  <2>1. deal.status \in {"disputed", "completed", "cancelled"}
    BY DEF IInv, OpenDisputeParksDeal
  <2>2. QED
    BY <2>1, ClosedDealStep DEF DealClosed
<1>2. ~ConfirmDeal /\ ~OpenDispute /\ ~DueAcceptance
  BY <1>1 DEF ConfirmDeal, OpenDispute, DueAcceptance
<1>3. ASSUME NEW side \in Sides, NEW to \in StepTargets, AdvanceDeal(side, to)
      PROVE  AdvanceDeal("client", "completed")
  BY <1>1, <1>3 DEF AdvanceDeal, CanAdvance, OwnerSteps, ClientSteps, StepTargets
<1>4. ASSUME NEW side \in Sides, CancelDeal(side)
      PROVE  CancelDeal("client")
  BY <1>1, <1>4 DEF CancelDeal, CanAdvance, OwnerSteps, ClientSteps
<1>5. ASSUME NEW outcome \in DisputeOutcomes, ResolveDispute(outcome)
      PROVE  dispute'.status = "resolved"
  BY <1>5 DEF ResolveDispute
<1>6. QED
  BY <1>1, <1>2, <1>3, <1>4, <1>5, DealWrittenBy DEF DealWriters, ClientCloses

(***************************************************************************)
(* While a dispute is open neither the executor nor the scheduler moves    *)
(* the deal; the customer may still close it himself.                      *)
(***************************************************************************)
THEOREM WorkStopsDuringDispute == Spec => DisputeHoldsDeal
<1>1. IInv /\ [Next]_vars =>
        [dispute.status = "open" /\ deal' # deal
          => \/ dispute'.status = "resolved"
             \/ deal.status = "disputed" /\ ClientCloses]_vars
  BY DisputedDealStep
<1>2. QED
  BY <1>1, Inductive, PTL DEF Spec, DisputeHoldsDeal

(***************************************************************************)
(* A completed or cancelled deal is final: a later dispute, verdict, step  *)
(* or cancellation never reopens it.                                       *)
(***************************************************************************)
THEOREM ClosedDealIsFinal == Spec => DealClosedIsFinal
<1>1. [Next]_vars => [DealClosed(deal.status) => UNCHANGED deal]_vars
  BY ClosedDealStep
<1>2. QED
  BY <1>1, PTL DEF Spec, DealClosedIsFinal

(* No handler moves a job that has ended without a deal.                   *)
LEMMA ClosedJobStep ==
    ASSUME [Next]_vars, deal.status = "none",
           job.status \in {"cancelled", "declined_all", "expired", "expired_no_bids"}
    PROVE  job'.status = job.status
<1>1. ASSUME NEW in \in DraftInputs, CreateDraft(in) \/ UpdateDraft(in)
      PROVE  job'.status = job.status
  BY <1>1 DEF CreateDraft, UpdateDraft
<1>2. CASE Publish
  BY <1>2 DEF Publish
<1>3. CASE Cancel
  BY <1>3 DEF Cancel, CanTransition, Allowed
<1>4. ASSUME NEW o \in Owners, NEW kind, NEW typed \in Prices,
             MakeOffer(o, kind, typed)
      PROVE  job'.status = job.status
  BY <1>4 DEF MakeOffer
<1>5. ASSUME NEW o \in Owners, WithdrawOffer(o) \/ DeclineOffer(o)
      PROVE  job'.status = job.status
  BY <1>5 DEF WithdrawOffer, DeclineOffer
<1>6. ASSUME NEW o \in Owners, NEW p \in Prices, CounterOffer(o, p)
      PROVE  job'.status = job.status
  BY <1>6 DEF CounterOffer
<1>7. ASSUME NEW o \in Owners, AcceptOffer(o)
      PROVE  job'.status = job.status
  BY <1>7 DEF AcceptOffer, CanTransition, Allowed
<1>8. ASSUME NEW o \in Owners, NEW p \in Prices, PlaceBid(o, p)
      PROVE  job'.status = job.status
  BY <1>8 DEF PlaceBid
<1>9. ASSUME NEW o \in Owners, WithdrawBid(o)
      PROVE  job'.status = job.status
  BY <1>9 DEF WithdrawBid
<1>10. CASE FinishAuction
  BY <1>10 DEF FinishAuction
<1>11. ASSUME NEW o \in Owners, AcceptBid(o)
      PROVE  job'.status = job.status
  BY <1>11 DEF AcceptBid, AwaitsDecision
<1>12. CASE DeclineAllBids
  BY <1>12 DEF DeclineAllBids, AwaitsDecision
<1>13. CASE ConfirmDeal
  BY <1>13 DEF ConfirmDeal
<1>14. ASSUME NEW side \in Sides, NEW to \in StepTargets,
             AdvanceDeal(side, to)
      PROVE  job'.status = job.status
  BY <1>14 DEF AdvanceDeal, CanAdvance, OwnerSteps, ClientSteps
<1>15. ASSUME NEW side \in Sides, CancelDeal(side)
      PROVE  job'.status = job.status
  BY <1>15 DEF CancelDeal, CanAdvance, OwnerSteps, ClientSteps
<1>16. CASE OpenDispute
  BY <1>16 DEF OpenDispute, CanOpenDispute
<1>17. ASSUME NEW outcome \in DisputeOutcomes, ResolveDispute(outcome)
      PROVE  job'.status = job.status
  BY <1>17 DEF ResolveDispute, VerdictApplies
<1>18. ASSUME NEW r \in Reporters, Complain(r)
      PROVE  job'.status = job.status
  BY <1>18 DEF Complain
<1>19. ASSUME NEW r \in Reporters, NEW action, ReviewComplaint(r, action)
      PROVE  job'.status = job.status
  BY <1>19 DEF ReviewComplaint, CanTransition, Allowed
<1>20. CASE RunOnce
  BY <1>20 DEF RunOnce, DueAuction, DueDecision, DueAcceptance
<1>21. CASE Tick
  BY <1>21 DEF Tick
<1>22. CASE UNCHANGED vars
  BY <1>22 DEF vars, auctionVars
<1>23. QED
  BY <1>1, <1>2, <1>3, <1>4, <1>5, <1>6, <1>7, <1>8, <1>9, <1>10, <1>11,
     <1>12, <1>13, <1>14, <1>15, <1>16, <1>17, <1>18, <1>19, <1>20, <1>21,
     <1>22 DEF Next, ClientStep, OwnerStep, DealStep, ModerationStep

(***************************************************************************)
(* A job that ended without a deal never comes back to life.               *)
(***************************************************************************)
THEOREM ClosedJobIsFinal == Spec => ClosedJobStaysClosed
<1> DEFINE Ended == job.status \in {"cancelled", "declined_all", "expired",
                                    "expired_no_bids"}
<1>1. [Next]_vars =>
        [deal.status = "none" /\ Ended => job'.status = job.status]_vars
  BY ClosedJobStep
<1>2. QED
  BY <1>1, PTL DEF Spec, ClosedJobStaysClosed

-----------------------------------------------------------------------------
(* The ranking of the bids.                                                *)

(* No bid becomes active, and the ones that stay keep their prices.        *)
BidsOnlyClose ==
    \A o \in Owners : bids'[o].status = "active" =>
                          bids[o].status = "active" /\ bids'[o].price = bids[o].price

(* A job that is decided about was already, with this recommendation.      *)
DecisionRests ==
    job'.status = "deciding" => /\ job.status = "deciding" /\ UNCHANGED winner
                                /\ job'.reserve = job.reserve

(* A job whose status is set to another one is not decided about.          *)
LEMMA OtherStatus ==
    ASSUME TypeOK, NEW s, s # "deciding", job' = [job EXCEPT !.status = s]
    PROVE  DecisionRests
<1>1. job'.status = s
  BY DEF TypeOK, Job
<1>2. QED
  BY <1>1 DEF DecisionRests

(* Closing the active bids opens none.                                     *)
LEMMA ClosingCloses ==
    ASSUME TypeOK, NEW as, as # "active", bids' = CloseActiveBids(as)
    PROVE  BidsOnlyClose
<1>1. ASSUME NEW o \in Owners, bids[o].status = "active"
      PROVE  [bids[o] EXCEPT !.status = as].status = as
  BY DEF TypeOK, Bid
<1>2. QED
  BY <1>1 DEF BidsOnlyClose, CloseActiveBids

(* A step of a deal is about neither the bids nor the decision.            *)
LEMMA MoveDealRanks ==
    ASSUME TypeOK, NEW to, MoveDeal(to) PROVE DecisionRests
<1>1. JobStatusForDeal(to) # "deciding"
  BY DEF JobStatusForDeal
<1>2. QED
  BY <1>1, OtherStatus DEF MoveDeal

(* Bids that are not written only close.                                   *)
LEMMA BidsRest == ASSUME UNCHANGED bids PROVE BidsOnlyClose
BY DEF BidsOnlyClose

(* So it is with a decision nobody touches.                                *)
LEMMA DecisionRest == ASSUME UNCHANGED <<job, winner>> PROVE DecisionRests
BY DEF DecisionRests

(* Only PlaceBid opens bids and only FinishAuction opens the decision.     *)
LEMMA RankingStep ==
    ASSUME TypeOK, [Next]_vars
    PROVE  \/ BidsOnlyClose /\ DecisionRests
           \/ FinishAuction
           \/ \E o \in Owners, p \in Prices : PlaceBid(o, p)
<1> DEFINE Calm == BidsOnlyClose /\ DecisionRests
<1>1. ASSUME NEW in \in DraftInputs, CreateDraft(in) \/ UpdateDraft(in) PROVE Calm
  <2>1. job' = Apply(NewJob, in) \/ (job.status = "draft" /\ job' = Apply(job, in))
    BY <1>1 DEF CreateDraft, UpdateDraft
  <2>2. job'.status = "draft"
    BY <2>1, NewJobType, ApplyType DEF TypeOK
  <2>3. QED
    BY <1>1, <2>2, BidsRest DEF CreateDraft, UpdateDraft, DecisionRests
<1>2. CASE Publish
  <2>1. StatusAfterPublish(job.mode) # "deciding"
    BY DEF StatusAfterPublish
  <2>2. QED
    BY <1>2, <2>1, BidsRest, OtherStatus DEF Publish
<1>3. CASE Cancel
  BY <1>3, BidsRest, OtherStatus DEF Cancel
<1>4. ASSUME NEW o \in Owners, NEW kind, NEW typed \in Prices, MakeOffer(o, kind, typed)
      PROVE  Calm
  BY <1>4, BidsRest, DecisionRest DEF MakeOffer, auctionVars
<1>5. ASSUME NEW o \in Owners, WithdrawOffer(o) \/ DeclineOffer(o) PROVE Calm
  BY <1>5, BidsRest, DecisionRest DEF WithdrawOffer, DeclineOffer, auctionVars
<1>6. ASSUME NEW o \in Owners, NEW p \in Prices, CounterOffer(o, p) PROVE Calm
  BY <1>6, BidsRest, DecisionRest DEF CounterOffer, auctionVars
<1>7. ASSUME NEW o \in Owners, AcceptOffer(o) PROVE Calm
  BY <1>7, BidsRest, OtherStatus DEF AcceptOffer
<1>8. ASSUME NEW o \in Owners, WithdrawBid(o) PROVE Calm
  <2>1. [bids[o] EXCEPT !.status = "withdrawn"].status = "withdrawn"
    BY DEF TypeOK, Bid
  <2>2. BidsOnlyClose
    BY <1>8, <2>1 DEF WithdrawBid, BidsOnlyClose, TypeOK
  <2>3. QED
    BY <1>8, <2>2, DecisionRest DEF WithdrawBid, auctionVars
<1>9. ASSUME NEW o \in Owners, AcceptBid(o) PROVE Calm
  <2>1. ASSUME NEW x \in Owners, bids'[x].status = "active"
        PROVE  bids[x].status = "active" /\ bids'[x].price = bids[x].price
    <3>1. CASE x = o
      <4>1. bids'[x] = [bids[o] EXCEPT !.status = "won"]
        BY <1>9, <3>1 DEF AcceptBid, CloseActiveBids
      <4>2. bids'[x].status = "won"
        BY <4>1 DEF TypeOK, Bid
      <4>3. QED
        BY <2>1, <4>2
    <3>2. CASE x # o
      <4>1. bids'[x] = IF bids[x].status = "active" THEN [bids[x] EXCEPT !.status = "lost"]
                                                    ELSE bids[x]
        BY <1>9, <3>2 DEF AcceptBid, CloseActiveBids
      <4>2. [bids[x] EXCEPT !.status = "lost"].status = "lost"
        BY DEF TypeOK, Bid
      <4>3. QED
        BY <2>1, <4>1, <4>2
    <3>3. QED
      BY <3>1, <3>2
  <2>2. QED
    BY <1>9, <2>1, OtherStatus DEF AcceptBid, BidsOnlyClose
<1>10. CASE DeclineAllBids
  BY <1>10, ClosingCloses, OtherStatus DEF DeclineAllBids
<1>11. CASE ExpireDecision
  BY <1>11, ClosingCloses, OtherStatus DEF ExpireDecision
<1>12. CASE ConfirmDeal
  BY <1>12, BidsRest, OtherStatus DEF ConfirmDeal
<1>13. ASSUME NEW side, NEW to, AdvanceDeal(side, to) PROVE Calm
  BY <1>13, BidsRest, MoveDealRanks DEF AdvanceDeal
<1>14. ASSUME NEW side, CancelDeal(side) PROVE Calm
  BY <1>14, BidsRest, MoveDealRanks DEF CancelDeal
<1>15. CASE OpenDispute
  BY <1>15, BidsRest, MoveDealRanks, DecisionRest DEF OpenDispute, auctionVars
<1>16. ASSUME NEW outcome, ResolveDispute(outcome) PROVE Calm
  BY <1>16, BidsRest, MoveDealRanks, DecisionRest DEF ResolveDispute, auctionVars
<1>17. ASSUME NEW r, NEW action, Complain(r) \/ ReviewComplaint(r, action) PROVE Calm
  BY <1>17, BidsRest, DecisionRest, OtherStatus DEF Complain, ReviewComplaint, auctionVars
<1>18. CASE Tick \/ UNCHANGED vars
  BY <1>18, BidsRest, DecisionRest DEF Tick, vars, auctionVars
<1> HIDE DEF Calm
<1>19. CASE RunOnce
  BY <1>11, <1>13, <1>19 DEF RunOnce, Calm
<1>20. QED
  BY <1>1, <1>2, <1>3, <1>4, <1>5, <1>6, <1>7, <1>8, <1>9, <1>10, <1>12, <1>13, <1>14,
     <1>15, <1>16, <1>17, <1>18, <1>19
  DEF Next, ClientStep, OwnerStep, DealStep, ModerationStep, Calm

(* Every step keeps the ranking strict.                                    *)
LEMMA NextDistinct ==
    TypeOK /\ DistinctActivePrices /\ [Next]_vars => DistinctActivePrices'
<1> SUFFICES ASSUME TypeOK, DistinctActivePrices, [Next]_vars PROVE DistinctActivePrices'
  OBVIOUS
<1>1. CASE BidsOnlyClose
  BY <1>1 DEF BidsOnlyClose, DistinctActivePrices, ActiveBids
<1>2. CASE FinishAuction
  BY <1>2 DEF FinishAuction, DistinctActivePrices, ActiveBids
<1>3. ASSUME NEW o \in Owners, NEW p \in Prices, PlaceBid(o, p)
      PROVE  DistinctActivePrices'
  <2>1. /\ bids'[o].price = p /\ \A x \in Owners \ {o} : bids'[x] = bids[x]
        /\ \A x \in Owners \ {o} : bids[x].status = "active" => p < bids[x].price
    BY <1>3 DEF PlaceBid, ValidateBid, BeatsOthers, TypeOK
  <2>2. \A x \in Owners : bids[x].price \in Nat
    BY DEF TypeOK, Bid
  <2>3. p \in Nat
    BY PriceAssumption
  <2>4. ASSUME NEW x \in Owners \ {o}, bids'[x].status = "active" PROVE bids'[x].price # p
    BY <2>1, <2>2, <2>3, <2>4
  <2>5. QED
    BY <2>1, <2>4 DEF DistinctActivePrices, ActiveBids
<1>4. QED
  BY <1>1, <1>2, <1>3, RankingStep

(***************************************************************************)
(* The active bids of an auction are a strict ranking, for any number of   *)
(* executors and any prices, whatever the requests and the scheduler do.   *)
(***************************************************************************)
THEOREM StrictRanking == Spec => []DistinctActivePrices
<1>1. Init => DistinctActivePrices
  BY DEF Init, DistinctActivePrices, ActiveBids
<1>2. QED
  BY <1>1, NextDistinct, TypeCorrect, PTL DEF Spec

(* Every step keeps the recommendation the best.                           *)
LEMMA NextRecommended ==
    TypeOK /\ RecommendedIsCheapest /\ [Next]_vars => RecommendedIsCheapest'
<1> SUFFICES ASSUME TypeOK, RecommendedIsCheapest, [Next]_vars PROVE RecommendedIsCheapest'
  OBVIOUS
<1>1. CASE BidsOnlyClose /\ DecisionRests
  <2> SUFFICES ASSUME job'.status = "deciding", winner' \in ActiveBids'
               PROVE  /\ bids'[winner'].price >= job'.reserve
                      /\ \A o \in ActiveBids' : bids'[o].price >= job'.reserve =>
                                                   bids'[winner'].price <= bids'[o].price
    BY DEF RecommendedIsCheapest
  <2>1. /\ job.status = "deciding" /\ winner' = winner /\ job'.reserve = job.reserve
    BY <1>1 DEF DecisionRests
  <2>2. \A o \in ActiveBids' : o \in ActiveBids /\ bids'[o].price = bids[o].price
    BY <1>1 DEF BidsOnlyClose, ActiveBids
  <2>3. QED
    BY <2>1, <2>2 DEF RecommendedIsCheapest
<1>2. CASE FinishAuction
  <2>1. UNCHANGED bids
    BY <1>2 DEF FinishAuction
  <2>2. CASE job' = [job EXCEPT !.status = "expired_no_bids"]
    BY <2>2 DEF RecommendedIsCheapest, TypeOK, Job
  <2>3. ASSUME NEW o \in Owners, BestScored(o), winner' = o,
               job' = [job EXCEPT !.status = "deciding"]
        PROVE  RecommendedIsCheapest'
    <3>1. job'.reserve = job.reserve
      BY <2>3 DEF TypeOK, Job
    <3>2. QED
      BY <2>1, <2>3, <3>1 DEF RecommendedIsCheapest, BestScored, Scored, ActiveBids
  <2>4. QED
    BY <1>2, <2>2, <2>3 DEF FinishAuction
<1>3. ASSUME NEW o \in Owners, NEW p \in Prices, PlaceBid(o, p)
      PROVE  RecommendedIsCheapest'
  BY <1>3 DEF PlaceBid, CanBid, RecommendedIsCheapest
<1>4. QED
  BY <1>1, <1>2, <1>3, RankingStep

(***************************************************************************)
(* While the recommended bid stands, no active bid that reaches the        *)
(* reserve is cheaper: FinishAuction picks it, and nothing that happens    *)
(* before the customer's decision undercuts it.                            *)
(***************************************************************************)
THEOREM RecommendationStaysBest == Spec => []RecommendedIsCheapest
<1>1. Init => RecommendedIsCheapest
  BY DEF Init, RecommendedIsCheapest, NewJob
<1>2. QED
  BY <1>1, NextRecommended, TypeCorrect, PTL DEF Spec

-----------------------------------------------------------------------------
(* The clocks.                                                             *)

(* How a step may leave the job in a status that waits for a clock: the    *)
(* clock goes on, or the wait begins and the clock is set.  Only a bid     *)
(* prolongs the auction, and only before it is over.                       *)
AuctionClock ==
    job'.status = "bidding" =>
        \/ job.status = "bidding" /\ endsIn' \in {endsIn, Elapse(endsIn)}
        \/ job.status = "bidding" /\ endsIn > 0 /\ endsIn' > endsIn
        \/ job.status = "draft" /\ endsIn' = AuctionDuration

DecisionClock ==
    job'.status = "deciding" =>
        \/ job.status = "deciding" /\ decideIn' \in {decideIn, Elapse(decideIn)}
        \/ job.status = "bidding" /\ decideIn' = DecisionWindow

AcceptanceClock ==
    deal'.status = "work_done" =>
        \/ deal.status = "work_done" /\ acceptIn' \in {acceptIn, Elapse(acceptIn)}
        \/ deal.status = "in_progress" /\ acceptIn' = AcceptanceWindow

ClocksRun == AuctionClock /\ DecisionClock /\ AcceptanceClock

(* A step that touches neither the statuses nor the clocks.                *)
LEMMA ClocksRest ==
    ASSUME job'.status = job.status, UNCHANGED <<auctionVars, dealVars>>
    PROVE  ClocksRun
BY DEF ClocksRun, AuctionClock, DecisionClock, AcceptanceClock, auctionVars, dealVars

(* A step that brings the job to a status that waits for no clock, and     *)
(* leaves the deal alone.                                                  *)
LEMMA WaitIsOver ==
    ASSUME TypeOK, NEW s, s \notin {"bidding", "deciding"},
           job' = [job EXCEPT !.status = s], UNCHANGED <<deal, acceptIn>>
    PROVE  ClocksRun
<1>1. job'.status = s
  BY DEF TypeOK, Job
<1>2. QED
  BY <1>1 DEF ClocksRun, AuctionClock, DecisionClock, AcceptanceClock

(* A deal leaves in_progress for work_done with a fresh deadline, and      *)
(* comes to work_done in no other way.                                     *)
LEMMA MoveDealClock ==
    ASSUME TypeOK, NEW to, MoveDeal(to),
           to = "work_done" => deal.status = "in_progress" /\ acceptIn' = AcceptanceWindow
    PROVE  ClocksRun
<1>1. JobStatusForDeal(to) \notin {"bidding", "deciding"}
  BY DEF JobStatusForDeal
<1>2. job'.status = JobStatusForDeal(to) /\ deal'.status = to
  BY DEF MoveDeal, TypeOK, Job, Deal
<1>3. QED
  BY <1>1, <1>2 DEF ClocksRun, AuctionClock, DecisionClock, AcceptanceClock

(* The steps of the parties and of the scheduler on a deal.                *)
LEMMA AdvanceDealClock ==
    ASSUME TypeOK, NEW side, NEW to, AdvanceDeal(side, to) PROVE ClocksRun
<1>1. to = "work_done" => deal.status = "in_progress"
  BY DEF AdvanceDeal, CanAdvance, OwnerSteps, ClientSteps
<1>2. QED
  BY <1>1, MoveDealClock DEF AdvanceDeal, AcceptanceTimer

(* No handler sets a clock back, stops it or forgets it.                   *)
LEMMA ClockStep == ASSUME TypeOK, [Next]_vars PROVE ClocksRun
<1>1. ASSUME NEW in \in DraftInputs, CreateDraft(in) \/ UpdateDraft(in) PROVE ClocksRun
  <2>1. job' = Apply(NewJob, in) \/ (job.status = "draft" /\ job' = Apply(job, in))
    BY <1>1 DEF CreateDraft, UpdateDraft
  <2>2. job'.status = "draft"
    BY <2>1, NewJobType, ApplyType DEF TypeOK
  <2>3. QED
    BY <1>1, <2>2 DEF CreateDraft, UpdateDraft, dealVars, ClocksRun, AuctionClock,
       DecisionClock, AcceptanceClock
<1>2. CASE Publish
  <2>1. job'.status = StatusAfterPublish(job.mode) /\ job.status = "draft"
    BY <1>2 DEF Publish, TypeOK, Job
  <2>2. job'.status = "bidding" => endsIn' = AuctionDuration
    BY <1>2, <2>1 DEF Publish, StatusAfterPublish
  <2>3. job'.status # "deciding"
    BY <2>1 DEF StatusAfterPublish
  <2>4. QED
    BY <1>2, <2>1, <2>2, <2>3 DEF Publish, dealVars, ClocksRun, AuctionClock,
       DecisionClock, AcceptanceClock
<1>3. CASE Cancel
  BY <1>3, WaitIsOver DEF Cancel, dealVars
<1>4. ASSUME NEW o \in Owners, NEW kind, NEW typed \in Prices, MakeOffer(o, kind, typed)
      PROVE  ClocksRun
  BY <1>4, ClocksRest DEF MakeOffer
<1>5. ASSUME NEW o \in Owners, WithdrawOffer(o) \/ DeclineOffer(o) PROVE ClocksRun
  BY <1>5, ClocksRest DEF WithdrawOffer, DeclineOffer
<1>6. ASSUME NEW o \in Owners, NEW p \in Prices, CounterOffer(o, p) PROVE ClocksRun
  BY <1>6, ClocksRest DEF CounterOffer
<1>7. ASSUME NEW o \in Owners, AcceptOffer(o) PROVE ClocksRun
  BY <1>7, WaitIsOver DEF AcceptOffer, dealVars
<1>8. ASSUME NEW o \in Owners, NEW p \in Prices, PlaceBid(o, p) PROVE ClocksRun
  <2>1. endsIn' = endsIn \/ (endsIn > 0 /\ endsIn' > endsIn)
    <3>1. CASE ShouldExtend
      <4>1. endsIn > 0 /\ endsIn' = endsIn + ExtendBy /\ endsIn \in Int
        BY <1>8, <3>1 DEF PlaceBid, ShouldExtend, TypeOK, Timer, NoTimer
      <4>2. QED
        BY <4>1, WindowAssumption
    <3>2. CASE ~ShouldExtend
      BY <1>8, <3>2 DEF PlaceBid
    <3>3. QED
      BY <3>1, <3>2
  <2>2. QED
    BY <1>8, <2>1 DEF PlaceBid, dealVars, ClocksRun, AuctionClock, DecisionClock,
       AcceptanceClock
<1>9. ASSUME NEW o \in Owners, WithdrawBid(o) PROVE ClocksRun
  BY <1>9, ClocksRest DEF WithdrawBid
<1>10. CASE FinishAuction
  <2>1. CASE job' = [job EXCEPT !.status = "expired_no_bids"]
    BY <1>10, <2>1, WaitIsOver DEF FinishAuction, dealVars
  <2>2. CASE job' = [job EXCEPT !.status = "deciding"] /\ decideIn' = DecisionWindow
    <3>1. job'.status = "deciding"
      BY <2>2 DEF TypeOK, Job
    <3>2. QED
      BY <1>10, <2>2, <3>1 DEF FinishAuction, dealVars, ClocksRun, AuctionClock,
         DecisionClock, AcceptanceClock
  <2>3. QED
    BY <1>10, <2>1, <2>2 DEF FinishAuction
<1>11. ASSUME NEW o \in Owners, AcceptBid(o) PROVE ClocksRun
  BY <1>11, WaitIsOver DEF AcceptBid, dealVars
<1>12. CASE DeclineAllBids
  BY <1>12, WaitIsOver DEF DeclineAllBids, dealVars
<1>13. CASE ExpireDecision
  BY <1>13, WaitIsOver DEF ExpireDecision, dealVars
<1>14. CASE ConfirmDeal
  <2>1. deal'.status = "confirmed"
    BY <1>14 DEF ConfirmDeal
  <2>2. job'.status = "confirmed"
    BY <1>14 DEF ConfirmDeal, TypeOK, Job
  <2>3. QED
    BY <2>1, <2>2 DEF ClocksRun, AuctionClock, DecisionClock, AcceptanceClock
<1>15. ASSUME NEW side, NEW to, AdvanceDeal(side, to) PROVE ClocksRun
  BY <1>15, AdvanceDealClock
<1>16. ASSUME NEW side, CancelDeal(side) PROVE ClocksRun
  BY <1>16, MoveDealClock DEF CancelDeal
<1>17. CASE OpenDispute
  <2>1. CASE DisputeParks(deal.status)
    BY <1>17, <2>1, MoveDealClock DEF OpenDispute
  <2>2. CASE ~DisputeParks(deal.status)
    BY <1>17, <2>2 DEF OpenDispute, auctionVars, ClocksRun, AuctionClock, DecisionClock,
       AcceptanceClock
  <2>3. QED
    BY <2>1, <2>2
<1>18. ASSUME NEW outcome, ResolveDispute(outcome) PROVE ClocksRun
  <2>1. CASE VerdictApplies
    BY <1>18, <2>1, MoveDealClock DEF ResolveDispute
  <2>2. CASE ~VerdictApplies
    BY <1>18, <2>2 DEF ResolveDispute, auctionVars, ClocksRun, AuctionClock, DecisionClock,
       AcceptanceClock
  <2>3. QED
    BY <2>1, <2>2
<1>19. ASSUME NEW r, NEW action, Complain(r) \/ ReviewComplaint(r, action) PROVE ClocksRun
  BY <1>19, ClocksRest, WaitIsOver DEF Complain, ReviewComplaint, dealVars
<1>20. CASE Tick
  BY <1>20 DEF Tick, ClocksRun, AuctionClock, DecisionClock, AcceptanceClock
<1>21. CASE UNCHANGED vars
  BY <1>21, ClocksRest DEF vars
<1>22. CASE RunOnce
  BY <1>10, <1>13, <1>15, <1>22 DEF RunOnce
<1>23. QED
  BY <1>1, <1>2, <1>3, <1>4, <1>5, <1>6, <1>7, <1>8, <1>9, <1>10, <1>11, <1>12, <1>14,
     <1>15, <1>16, <1>17, <1>18, <1>19, <1>20, <1>21, <1>22
  DEF Next, ClientStep, OwnerStep, DealStep, ModerationStep

(***************************************************************************)
(* Whoever waits has a deadline: an auction, a decision and a delivery     *)
(* that waits for the customer always have the column set by which DueJobs *)
(* will find them.                                                         *)
(***************************************************************************)
EveryWaitHasADeadline ==
    /\ job.status = "bidding" => endsIn \in Nat
    /\ job.status = "deciding" => decideIn \in Nat
    /\ deal.status = "work_done" => acceptIn \in Nat /\ job.status = "work_done"

(***************************************************************************)
(* No order of requests leaves a job waiting for a deadline that was never *)
(* set, for every length of the windows.                                   *)
(***************************************************************************)
THEOREM NobodyWaitsForever == Spec => []EveryWaitHasADeadline
<1> DEFINE Set == /\ job.status = "bidding" => endsIn \in Nat
                  /\ job.status = "deciding" => decideIn \in Nat
                  /\ deal.status = "work_done" => acceptIn \in Nat
<1>1. Init => Set
  BY DEF Init, NewJob
<1>2. ASSUME TypeOK, Set, [Next]_vars, TypeOK' PROVE Set'
  <2>1. ClocksRun
    BY <1>2, ClockStep
  <2>2. \A t \in Nat : Elapse(t) \in Nat
    BY DEF Elapse
  <2>3. /\ AuctionDuration \in Nat /\ DecisionWindow \in Nat /\ AcceptanceWindow \in Nat
    BY WindowAssumption
  <2>4. endsIn > 0 /\ endsIn' > endsIn => endsIn' \in Nat
    BY <1>2 DEF TypeOK, Timer, NoTimer
  <2>5. QED
    BY <1>2, <2>1, <2>2, <2>3, <2>4 DEF ClocksRun, AuctionClock, DecisionClock,
       AcceptanceClock
<1>3. IInv /\ Set => EveryWaitHasADeadline
  BY DEF IInv, JobDealAgreement, JobStatusForDeal, EveryWaitHasADeadline
<1> HIDE DEF Set
<1>4. QED
  BY <1>1, <1>2, <1>3, TypeCorrect, Inductive, PTL DEF Spec

-----------------------------------------------------------------------------
(* Liveness.  ENABLED is the one thing taken as a hypothesis: a pass of    *)
(* the scheduler can be made over a due job, and time can pass while a     *)
(* clock runs.  The guards of both say so, and BestBidExists shows that    *)
(* the choice inside FinishAuction never comes up empty.                   *)

PassIsPossible == DueAuction \/ DueDecision \/ DueAcceptance => ENABLED <<RunOnce>>_vars
TimeCanPass == endsIn > 0 \/ decideIn > 0 \/ acceptIn > 0 => ENABLED <<Tick>>_vars

(* A set of natural numbers that is not empty has a least element.         *)
LEMMA LeastPrice ==
    ASSUME NEW T, T \subseteq Nat, T # {}
    PROVE  \E m \in T : \A k \in T : m <= k
<1>1. \E m \in T : \A k \in T : ~(<<k, m>> \in OpToRel(<, Nat))
  <2> DEFINE R == OpToRel(<, Nat)
  <2>1. IsWellFoundedOn(R, Nat)
    BY NatLessThanWellFounded, Zenon
  <2> HIDE DEF R
  <2>2. \E m \in T : \A k \in T : ~(<<k, m>> \in R)
    BY <2>1, WFMin, Zenon
  <2>3. QED
    BY <2>2, Zenon DEF R
<1>2. PICK m \in T : \A k \in T : ~(k < m)
  BY <1>1 DEF OpToRel
<1>3. QED
  BY <1>2

(* Of the bids that reach the reserve one is the best, however many there  *)
(* are: FinishAuction always has an outcome.                               *)
LEMMA BestBidExists ==
    ASSUME TypeOK, Scored # {} PROVE \E o \in Owners : BestScored(o)
<1> DEFINE T == {bids[o].price : o \in Scored}
<1>1. \A o \in Scored : o \in Owners /\ bids[o].price \in Nat
  BY DEF Scored, ActiveBids, TypeOK, Bid
<1>2. T \subseteq Nat /\ T # {}
  BY <1>1
<1>3. PICK m \in T : \A k \in T : m <= k
  BY <1>2, LeastPrice
<1>4. PICK o \in Scored : bids[o].price = m
  OBVIOUS
<1>5. QED
  BY <1>1, <1>3, <1>4 DEF BestScored

(***************************************************************************)
(* An auction whose time is over does not stay "bidding": until it is      *)
(* closed it stays due, no bid prolongs it, and every pass closes it.      *)
(***************************************************************************)
THEOREM SchedulerClosesAuctions == FairSpec /\ []PassIsPossible => DueAuctionCloses
<1> DEFINE Closed == job.status # "bidding"
<1>1. ASSUME TypeOK, [Next]_vars, DueAuction PROVE DueAuction' \/ Closed'
  <2>1. AuctionClock
    BY <1>1, ClockStep DEF ClocksRun
  <2>2. QED
    BY <1>1, <2>1 DEF AuctionClock, DueAuction, Elapse
<1>2. ASSUME TypeOK, DueAuction, <<RunOnce>>_vars PROVE Closed'
  <2>1. FinishAuction
    BY <1>2 DEF RunOnce, DueAuction, DueDecision, DueAcceptance
  <2>2. QED
    BY <1>2, <2>1 DEF FinishAuction, TypeOK, Job
<1>3. PassIsPossible => (DueAuction => ENABLED <<RunOnce>>_vars)
  <2> DEFINE E == ENABLED <<RunOnce>>_vars
  <2>1. (DueAuction \/ DueDecision \/ DueAcceptance => E) => (DueAuction => E)
    <3> HIDE DEF E
    <3>1. QED
      OBVIOUS
  <2>2. QED
    BY <2>1 DEF PassIsPossible
<1>4. DueAuction <=> job.status = "bidding" /\ endsIn = 0
  BY DEF DueAuction
<1>5. QED
  BY <1>1, <1>2, <1>3, <1>4, TypeCorrect, PTL DEF FairSpec, Spec, DueAuctionCloses

(***************************************************************************)
(* A decision whose window is over does not stay open: nothing but the     *)
(* decision itself takes it off the scheduler's list, and a pass ends it.  *)
(***************************************************************************)
THEOREM SchedulerClosesDecisions ==
    FairSpec /\ []PassIsPossible => (DueDecision ~> job.status # "deciding")
<1> DEFINE Closed == job.status # "deciding"
<1>1. ASSUME TypeOK, [Next]_vars, DueDecision PROVE DueDecision' \/ Closed'
  <2>1. DecisionClock
    BY <1>1, ClockStep DEF ClocksRun
  <2>2. QED
    BY <1>1, <2>1 DEF DecisionClock, DueDecision, Elapse
<1>2. ASSUME TypeOK, DueDecision, <<RunOnce>>_vars PROVE Closed'
  <2>1. ExpireDecision
    BY <1>2 DEF RunOnce, DueAuction, DueDecision, DueAcceptance
  <2>2. QED
    BY <1>2, <2>1 DEF ExpireDecision, TypeOK, Job
<1>3. PassIsPossible => (DueDecision => ENABLED <<RunOnce>>_vars)
  <2> DEFINE E == ENABLED <<RunOnce>>_vars
  <2>1. (DueAuction \/ DueDecision \/ DueAcceptance => E) => (DueDecision => E)
    <3> HIDE DEF E
    <3>1. QED
      OBVIOUS
  <2>2. QED
    BY <2>1 DEF PassIsPossible
<1>4. QED
  BY <1>1, <1>2, <1>3, TypeCorrect, PTL DEF FairSpec, Spec

(***************************************************************************)
(* Work that is due for acceptance does not stay in work_done: a dispute,  *)
(* the customer or a pass of the scheduler takes it out, and nobody can    *)
(* take the job off the list without moving the deal.                      *)
(***************************************************************************)
THEOREM SchedulerAcceptsWork ==
    FairSpec /\ []PassIsPossible => (DueAcceptance ~> deal.status # "work_done")
<1> DEFINE Closed == deal.status # "work_done"
<1>1. ASSUME TypeOK, EveryWaitHasADeadline', [Next]_vars, DueAcceptance
      PROVE  DueAcceptance' \/ Closed'
  <2>1. AcceptanceClock
    BY <1>1, ClockStep DEF ClocksRun
  <2>2. QED
    BY <1>1, <2>1 DEF AcceptanceClock, DueAcceptance, Elapse, EveryWaitHasADeadline
<1>2. ASSUME TypeOK, DueAcceptance, <<RunOnce>>_vars PROVE Closed'
  <2>1. AdvanceDeal("client", "completed")
    BY <1>2 DEF RunOnce, DueAuction, DueDecision, DueAcceptance
  <2>2. QED
    BY <1>2, <2>1 DEF AdvanceDeal, MoveDeal, TypeOK, Deal
<1>3. PassIsPossible => (DueAcceptance => ENABLED <<RunOnce>>_vars)
  <2> DEFINE E == ENABLED <<RunOnce>>_vars
  <2>1. (DueAuction \/ DueDecision \/ DueAcceptance => E) => (DueAcceptance => E)
    <3> HIDE DEF E
    <3>1. QED
      OBVIOUS
  <2>2. QED
    BY <2>1 DEF PassIsPossible
<1>4. QED
  BY <1>1, <1>2, <1>3, TypeCorrect, NobodyWaitsForever, PTL DEF FairSpec, Spec

(* The two windows of a customer, with n units left.                       *)
Deciding(n) == job.status = "deciding" /\ decideIn = n
Objecting(n) == deal.status = "work_done" /\ acceptIn = n

(***************************************************************************)
(* A decision window shrinks by every unit of time until it is over or the *)
(* customer has decided; no request sets it back.  With the theorem above  *)
(* this is DecisionCloses, but for the counting of n steps.                *)
(***************************************************************************)
THEOREM DecisionWindowShrinks ==
    ASSUME NEW n \in Nat
    PROVE  FairSpec /\ []TimeCanPass =>
             (Deciding(n + 1) ~> (job.status # "deciding" \/ Deciding(n)))
<1> DEFINE Goal == job.status # "deciding" \/ Deciding(n)
<1>1. ASSUME TypeOK, [Next]_vars, Deciding(n + 1) PROVE Deciding(n + 1)' \/ Goal'
  <2>1. DecisionClock
    BY <1>1, ClockStep DEF ClocksRun
  <2>2. Elapse(n + 1) = n
    BY DEF Elapse
  <2>3. QED
    BY <1>1, <2>1, <2>2 DEF DecisionClock, Deciding
<1>2. ASSUME Deciding(n + 1), <<Tick>>_vars PROVE Goal'
  <2>1. Elapse(n + 1) = n
    BY DEF Elapse
  <2>2. QED
    BY <1>2, <2>1 DEF Tick, Deciding
<1>3. TimeCanPass => (Deciding(n + 1) => ENABLED <<Tick>>_vars)
  <2> DEFINE E == ENABLED <<Tick>>_vars
             Running == endsIn > 0 \/ decideIn > 0 \/ acceptIn > 0
  <2>1. Deciding(n + 1) => Running
    BY DEF Deciding
  <2>2. (Running => E) => (Deciding(n + 1) => E)
    <3> HIDE DEF E, Running
    <3>1. QED
      BY <2>1
  <2>3. QED
    BY <2>2 DEF TimeCanPass
<1> HIDE DEF Goal
<1>4. Goal <=> job.status # "deciding" \/ Deciding(n)
  BY DEF Goal
<1>5. QED
  BY <1>1, <1>2, <1>3, <1>4, TypeCorrect, PTL DEF FairSpec, Spec

(***************************************************************************)
(* So does the window in which a customer may object to work reported      *)
(* done: with SchedulerAcceptsWork this is SilenceIsConsent, but for the   *)
(* counting of n steps.                                                    *)
(***************************************************************************)
THEOREM AcceptanceWindowShrinks ==
    ASSUME NEW n \in Nat
    PROVE  FairSpec /\ []TimeCanPass =>
             (Objecting(n + 1) ~> (deal.status # "work_done" \/ Objecting(n)))
<1> DEFINE Goal == deal.status # "work_done" \/ Objecting(n)
<1>1. ASSUME TypeOK, [Next]_vars, Objecting(n + 1) PROVE Objecting(n + 1)' \/ Goal'
  <2>1. AcceptanceClock
    BY <1>1, ClockStep DEF ClocksRun
  <2>2. Elapse(n + 1) = n
    BY DEF Elapse
  <2>3. QED
    BY <1>1, <2>1, <2>2 DEF AcceptanceClock, Objecting
<1>2. ASSUME Objecting(n + 1), <<Tick>>_vars PROVE Goal'
  <2>1. Elapse(n + 1) = n
    BY DEF Elapse
  <2>2. QED
    BY <1>2, <2>1 DEF Tick, Objecting
<1>3. TimeCanPass => (Objecting(n + 1) => ENABLED <<Tick>>_vars)
  <2> DEFINE E == ENABLED <<Tick>>_vars
             Running == endsIn > 0 \/ decideIn > 0 \/ acceptIn > 0
  <2>1. Objecting(n + 1) => Running
    BY DEF Objecting
  <2>2. (Running => E) => (Objecting(n + 1) => E)
    <3> HIDE DEF E, Running
    <3>1. QED
      BY <2>1
  <2>3. QED
    BY <2>2 DEF TimeCanPass
<1> HIDE DEF Goal
<1>4. Goal <=> deal.status # "work_done" \/ Objecting(n)
  BY DEF Goal
<1>5. QED
  BY <1>1, <1>2, <1>3, <1>4, TypeCorrect, PTL DEF FairSpec, Spec

=============================================================================
