------------------------------ MODULE Workflow ------------------------------
(***************************************************************************)
(* The status rules of the orders service (services/orders/internal/job):  *)
(* the transition matrix of a job, the steps of a deal and who may take    *)
(* them, and how the status of a job follows the status of its deal.  The  *)
(* operators are pure: every module about jobs, deals and disputes uses    *)
(* them.                                                                   *)
(***************************************************************************)
EXTENDS Integers

JobStatuses ==
    {"draft", "published", "collecting_offers", "bidding", "deal_pending",
     "deciding", "confirmed", "in_progress", "work_done", "completed",
     "disputed", "cancelled", "declined_all", "expired", "expired_no_bids"}

OfferStatuses ==
    {"active", "withdrawn", "declined", "accepted", "counter_offered"}

BidStatuses == {"active", "withdrawn", "outbid", "won", "lost", "expired"}

DealStatuses ==
    {"confirmed", "on_the_way", "in_progress", "work_done", "completed",
     "disputed", "cancelled"}

DisputeOutcomes == {"client", "owner", "compromise"}

(***************************************************************************)
(* var allowed: where a job may go from each status.                       *)
(***************************************************************************)
Allowed(from) ==
    CASE from = "draft" ->
            {"published", "collecting_offers", "bidding", "cancelled"}
      [] from = "published" -> {"collecting_offers", "bidding", "cancelled"}
      [] from = "collecting_offers" -> {"deal_pending", "cancelled", "expired"}
      [] from = "bidding" -> {"deciding", "expired_no_bids", "cancelled"}
      [] from = "deal_pending" -> {"confirmed", "cancelled"}
      [] from = "deciding" ->
            {"confirmed", "declined_all", "expired", "cancelled"}
      [] from = "confirmed" -> {"in_progress", "cancelled"}
      [] from = "in_progress" -> {"work_done", "disputed", "cancelled"}
      [] from = "work_done" -> {"completed", "disputed"}
      [] from = "disputed" -> {"completed", "cancelled"}
      [] OTHER -> {}

CanTransition(from, to) == to \in Allowed(from)

IsOpen(s) == s \in {"published", "collecting_offers", "bidding"}

StatusAfterPublish(mode) ==
    IF mode = "auction" THEN "bidding" ELSE "collecting_offers"

(***************************************************************************)
(* var dealFlow, read by side: the steps the executor ("owner") and the    *)
(* customer ("client") may take from each deal status.  A closed deal has  *)
(* no steps.                                                               *)
(***************************************************************************)
Sides == {"owner", "client"}

OwnerSteps(from) ==
    CASE from = "confirmed"   -> {"on_the_way", "in_progress", "cancelled"}
      [] from = "on_the_way"  -> {"in_progress", "cancelled"}
      [] from = "in_progress" -> {"work_done", "disputed", "cancelled"}
      [] OTHER -> {}

ClientSteps(from) ==
    CASE from \in {"confirmed", "on_the_way"} -> {"cancelled"}
      [] from = "in_progress" -> {"disputed", "cancelled"}
      [] from = "work_done"   -> {"completed", "disputed"}
      [] from = "disputed"    -> {"completed", "cancelled"}
      [] OTHER -> {}

CanAdvance(from, to, side) ==
    to \in IF side = "owner" THEN OwnerSteps(from) ELSE ClientSteps(from)

DealClosed(s) == s \in {"completed", "cancelled"}

(***************************************************************************)
(* A dispute is opened about work that has begun, even about a deal that   *)
(* is already completed or disputed.                                       *)
(***************************************************************************)
CanOpenDispute(s) == s \in {"in_progress", "work_done", "completed", "disputed"}

(* Mutant: the deal's status is taken over as it is.                       *)
JobStatusForDeal_SameName(s) == s

JobStatusForDeal(s) ==
    CASE s = "confirmed" -> "confirmed"
      [] s \in {"on_the_way", "in_progress"} -> "in_progress"
      [] s = "work_done" -> "work_done"
      [] s = "completed" -> "completed"
      [] s = "disputed"  -> "disputed"
      [] OTHER -> "cancelled"

=============================================================================
