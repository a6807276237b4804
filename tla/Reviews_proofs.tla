--------------------------- MODULE Reviews_proofs ---------------------------
(***************************************************************************)
(* Proofs about Reviews, and that it implements BlindReviews, for every    *)
(* number of requests in flight, of disputes and of failures; and that     *)
(* no review stays hidden.                                                 *)
(***************************************************************************)
EXTENDS Reviews, WellFoundedInduction, TLAPS

-----------------------------------------------------------------------------
(* Facts about the operators.                                              *)

(* The other side is a side, and another one.                              *)
LEMMA OtherSide == ASSUME NEW s \in Sides PROVE Other(s) \in Sides /\ Other(s) # s
<1>1. \E t \in Sides : t # s
  BY TwoSides
<1>2. QED
  BY <1>1 DEF Other

(* Every request begins with, and returns to, a well-formed local.         *)
LEMMA NoLocalType ==
    /\ NoLocal \in Local
    /\ NoLocal.due = [s \in Sides |-> NoRow]
    /\ NoRow \in Row
<1>1. (CHOOSE s \in Sides : TRUE) \in Sides
  BY TwoSides
<1>2. NoRow \in Row /\ "work_done" \in DealStatuses /\ 0 \in 0..MaxDisputes
  BY ReviewBounds DEF NoRow, Row, DealStatuses
<1>3. QED
  BY <1>1, <1>2 DEF NoLocal, Local

(* What NoLocal stands for is never due, so nothing is asked of the rows.  *)
LEMMA GroundedAtRest ==
    ASSUME NEW l, l.due = [s \in Sides |-> NoRow],
           NEW label \in Labels \ {"createReview", "openTheirs", "writeReply"}
    PROVE  Grounded(label, l)'
BY DEF Grounded

-----------------------------------------------------------------------------
(* The shape of a step.                                                    *)

(* A row is never removed, an open one never hidden, nobody grows younger. *)
StagesGrow ==
    /\ aged \subseteq aged'
    /\ \A s \in Sides : /\ reviews[s].stage # "absent" => reviews'[s].stage # "absent"
                        /\ reviews[s].stage = "open" => reviews'[s].stage = "open"

(* Process p goes on with a well-formed local it may rely on.              *)
Lands(p) ==
    \E label \in Labels, l \in Local :
        /\ Goto(p, label, l)
        /\ label \in {"createDispute", "writeDispute"} => l.dispute \in Stamps
        /\ Grounded(label, l)'

(* What the tables may go through in a step.                               *)
TablesKeep ==
    /\ deal' \in DealStatuses
    /\ disputes' \in [Stamps -> {"none", "open", "resolved"}]
    /\ asked' \in 0..MaxDisputes
    /\ reviews' \in [Sides -> Row]
    /\ aged' \subseteq Sides
    /\ faults' \in 0..MaxFaults

(* What a step does to the reviews, seen by the public and by BlindReviews.*)
PublicStep == StagesGrow /\ RepliesAreOpen' /\ [Blind!Next]_(Blind!vars)

(* A step of process p.                                                    *)
StepOf(p) ==
    /\ Lands(p)
    /\ TablesKeep
    /\ PublicStep

(* A step that leaves the reviews alone shows the public nothing.          *)
LEMMA QuietStep ==
    ASSUME UNCHANGED <<reviews, aged>>, ReviewInv
    PROVE  PublicStep
BY DEF PublicStep, StagesGrow, ReviewInv, RepliesAreOpen, Blind!vars

(* A row that is there is overwritten by an open copy: BlindReviews opens  *)
(* it, or nothing happens because it was open.                             *)
LEMMA OpenStep ==
    ASSUME ReviewInv, NEW s \in Sides, NEW copy \in Row, copy.stage = "open",
           UpdateReview(s, copy), UNCHANGED aged,
           reviews[s].stage # "absent",
           \/ reviews[s].stage = "open" \/ s \in aged
           \/ \E t \in Sides \ {s} : reviews[t].stage # "absent"
    PROVE  PublicStep /\ reviews' \in [Sides -> Row]
<1> DEFINE stage == [t \in Sides |-> reviews[t].stage]
<1>1. reviews \in [Sides -> Row] /\ RepliesAreOpen
  BY DEF ReviewInv, TypeOK
<1>2. /\ reviews' \in [Sides -> Row] /\ reviews'[s] = copy
      /\ \A t \in Sides \ {s} : reviews'[t] = reviews[t]
  BY <1>1 DEF UpdateReview
<1>3. StagesGrow /\ RepliesAreOpen'
  BY <1>1, <1>2 DEF StagesGrow, RepliesAreOpen
<1>4. stage' = [stage EXCEPT ![s] = "open"]
  BY <1>2
<1>5. [Blind!Next]_(Blind!vars)
  <2>1. CASE reviews[s].stage = "open"
    <3>1. stage' = stage
      BY <1>4, <2>1
    <3>2. QED
      BY <3>1 DEF Blind!vars
  <2>2. CASE reviews[s].stage # "open"
    <3>1. stage[s] = "hidden"
      BY <1>1, <2>2 DEF Row
    <3>2. Blind!OtherWrote(s) \/ s \in aged
      BY <2>2 DEF Blind!OtherWrote, Blind!Written
    <3>3. Blind!Open(s)
      BY <1>4, <3>1, <3>2 DEF Blind!Open
    <3>4. QED
      BY <3>3 DEF Blind!Next
  <2>3. QED
    BY <2>1, <2>2
<1>6. QED
  BY <1>2, <1>3, <1>5 DEF PublicStep

(* A missing row is inserted: hidden, or open when the other is there.     *)
LEMMA InsertStep ==
    ASSUME ReviewInv, NEW s \in Sides, NEW how \in {"hidden", "open"},
           reviews' = [reviews EXCEPT ![s].stage = how], UNCHANGED aged,
           reviews[s].stage = "absent",
           how = "open" => \E t \in Sides \ {s} : reviews[t].stage # "absent"
    PROVE  PublicStep /\ reviews' \in [Sides -> Row] /\ reviews'[s].stage = how
<1> DEFINE stage == [t \in Sides |-> reviews[t].stage]
<1>1. reviews \in [Sides -> Row] /\ RepliesAreOpen
  BY DEF ReviewInv, TypeOK
<1>2. /\ reviews' \in [Sides -> Row] /\ reviews'[s].stage = how
      /\ reviews'[s].replied = reviews[s].replied
      /\ \A t \in Sides \ {s} : reviews'[t] = reviews[t]
  BY <1>1 DEF Row
<1>3. StagesGrow /\ RepliesAreOpen'
  BY <1>1, <1>2 DEF StagesGrow, RepliesAreOpen
<1>4. stage' = [stage EXCEPT ![s] = how]
  BY <1>2
<1>5. how = "open" => Blind!OtherWrote(s)
  BY DEF Blind!OtherWrote, Blind!Written
<1>6. ~Blind!Written(s)
  BY DEF Blind!Written
<1>7. Blind!Leave(s)
  BY <1>4, <1>5, <1>6 DEF Blind!Leave
<1>8. QED
  BY <1>2, <1>3, <1>7 DEF PublicStep, Blind!Next

(* Process p returns.                                                      *)
LEMMA ReturnLands ==
    ASSUME NEW p, Goto(p, "idle", NoLocal) PROVE Lands(p)
BY NoLocalType, GroundedAtRest DEF Lands, Labels

(* Process p goes on as it is, or with fresh values where nothing is held. *)
LEMMA FreshLands ==
    ASSUME NEW p, NEW label \in Labels \ {"createReview", "openTheirs", "writeReply"},
           NEW l \in Local, Goto(p, label, l), l.due = [s \in Sides |-> NoRow],
           label \in {"createDispute", "writeDispute"} => l.dispute \in Stamps
    PROVE  Lands(p)
BY GroundedAtRest DEF Lands

-----------------------------------------------------------------------------
(* The steps of requests, one lemma for each kind.                         *)

(* The tables that a request leaves alone keep their shape.                *)
LEMMA TablesRest ==
    ASSUME TypeOK, UNCHANGED <<deal, disputes, asked, reviews, aged, faults>>
    PROVE  TablesKeep
BY DEF TypeOK, TablesKeep

(* A request begins.                                                       *)
LEMMA BeginStep ==
    ASSUME ReviewInv, NEW p \in Procs, Begin(p) PROVE StepOf(p)
<1>1. TypeOK /\ UNCHANGED <<deal, disputes, reviews, aged, faults>>
  BY DEF ReviewInv, Begin, LeaveReview, ReplyToReview, AcceptWork, OpenDispute, ResolveDispute
<1>2. NoLocal \in Local /\ NoLocal.due = [s \in Sides |-> NoRow]
  BY NoLocalType
<1>3. ASSUME NEW s \in Sides, LeaveReview(p, s) PROVE Lands(p)
  <2> DEFINE l == [NoLocal EXCEPT !.side = s]
  <2>1. l \in Local /\ l.due = [t \in Sides |-> NoRow]
    BY <1>2 DEF Local
  <2>2. QED
    BY <1>3, <2>1, FreshLands DEF LeaveReview, Labels
<1>4. ASSUME NEW s \in Sides, ReplyToReview(p, s) PROVE Lands(p)
  <2> DEFINE copy == [reviews[s] EXCEPT !.replied = TRUE]
             l == [NoLocal EXCEPT !.side = s, !.theirs = copy]
  <2>1. copy \in Row /\ copy.stage = "open" /\ reviews[s].stage = "open"
    BY <1>1, <1>4 DEF TypeOK, Row, ReplyToReview, CanReply
  <2>2. /\ l \in Local /\ l.due = [t \in Sides |-> NoRow]
        /\ l.side = s /\ l.theirs = copy
    BY <1>2, <2>1 DEF Local
  <2>3. \A d : d = l => Grounded("writeReply", d)'
    BY <1>1, <2>1, <2>2 DEF Grounded
  <2>4. QED
    BY <1>4, <2>2, <2>3 DEF ReplyToReview, Lands, Labels
<1>5. ASSUME AcceptWork(p) PROVE Lands(p)
  <2> DEFINE l == [NoLocal EXCEPT !.deal = "completed"]
  <2>1. l \in Local /\ l.due = [t \in Sides |-> NoRow]
    BY <1>2 DEF Local, DealStatuses, Verdicts
  <2>2. QED
    BY <1>5, <2>1, FreshLands DEF AcceptWork, Labels
<1>6. ASSUME OpenDispute(p) PROVE Lands(p)
  <2> DEFINE l == [NoLocal EXCEPT !.deal = deal, !.dispute = asked + 1]
  <2>1. asked + 1 \in Stamps /\ asked + 1 \in 0..MaxDisputes /\ deal \in DealStatuses
    BY <1>1, <1>6, ReviewBounds DEF TypeOK, OpenDispute, Stamps
  <2>2. l \in Local /\ l.dispute = asked + 1 /\ l.due = [t \in Sides |-> NoRow]
    BY <1>2, <2>1 DEF Local
  <2>3. QED
    BY <1>6, <2>1, <2>2, FreshLands DEF OpenDispute, Labels
<1>7. ASSUME NEW n \in Stamps, NEW verdict \in Verdicts, ResolveDispute(p, n, verdict)
      PROVE  Lands(p)
  <2> DEFINE l == [NoLocal EXCEPT !.dispute = n, !.deal = verdict]
  <2>1. n \in 0..MaxDisputes
    BY ReviewBounds DEF Stamps
  <2>2. l \in Local /\ l.dispute = n /\ l.due = [t \in Sides |-> NoRow]
    BY <1>2, <2>1 DEF Local, DealStatuses
  <2>3. QED
    BY <1>7, <2>2, FreshLands DEF ResolveDispute, Labels
<1>8. Lands(p)
  BY <1>3, <1>4, <1>5, <1>6, <1>7 DEF Begin
<1>9. asked' \in 0..MaxDisputes
  <2>1. UNCHANGED asked \/ (asked < MaxDisputes /\ asked' = asked + 1)
    BY DEF Begin, LeaveReview, ReplyToReview, AcceptWork, OpenDispute, ResolveDispute
  <2>2. asked \in 0..MaxDisputes
    BY <1>1 DEF TypeOK
  <2>3. QED
    BY <2>1, <2>2, ReviewBounds
<1>10. QED
  BY <1>1, <1>8, <1>9, QuietStep DEF StepOf, TablesKeep, TypeOK

(* A request reads and goes on.                                            *)
LEMMA ReadStep ==
    ASSUME ReviewInv, NEW p \in Procs, CheckDispute(p) \/ ReviewsByDeal(p) \/ ReadDeal(p)
    PROVE  StepOf(p)
<1>1. TypeOK /\ UNCHANGED <<deal, disputes, asked, reviews, aged, faults>>
  BY DEF ReviewInv, CheckDispute, ReviewsByDeal, ReadDeal
<1>2. loc[p] \in Local /\ reviews \in [Sides -> Row] /\ Grounded(pc[p], loc[p])
  BY <1>1 DEF TypeOK, ReviewInv
<1>3. ASSUME CheckDispute(p) PROVE Lands(p)
  <2>1. CASE \E n \in DisputeByDeal : disputes[n] = "open"
    BY <1>3, <2>1, ReturnLands DEF CheckDispute, Return
  <2>2. CASE ~\E n \in DisputeByDeal : disputes[n] = "open"
    <3>1. Goto(p, "readReviews", loc[p])
      BY <1>3, <2>2 DEF CheckDispute
    <3>2. \A d : d = loc[p] => Grounded("readReviews", d)'
      BY <1>1, <1>2 DEF Grounded
    <3>3. QED
      BY <1>2, <3>1, <3>2 DEF Lands, Labels
  <2>3. QED
    BY <2>1, <2>2
<1>4. ASSUME ReviewsByDeal(p) PROVE Lands(p)
  <2> DEFINE l == [loc[p] EXCEPT !.theirs = reviews[Other(loc[p].side)]]
  <2>1. loc[p].side \in Sides /\ Other(loc[p].side) \in Sides
    BY <1>2, OtherSide DEF Local
  <2>2. /\ l \in Local /\ l.due = loc[p].due /\ l.side = loc[p].side
        /\ l.theirs = reviews[Other(l.side)]
    BY <1>2, <2>1 DEF Local
  <2>3. \A d : d = l => Grounded("createReview", d)'
    BY <1>1, <1>2, <2>2 DEF Grounded
  <2>4. QED
    BY <1>4, <2>2, <2>3 DEF ReviewsByDeal, Lands, Labels
<1>5. ASSUME ReadDeal(p) PROVE Lands(p)
  <2>1. CASE deal = "disputed"
    <3> DEFINE l == [NoLocal EXCEPT !.deal = loc[p].deal]
    <3>1. l \in Local /\ l.due = [t \in Sides |-> NoRow]
      BY <1>2, NoLocalType DEF Local
    <3>2. QED
      BY <1>5, <2>1, <3>1, FreshLands DEF ReadDeal, Labels
  <2>2. CASE deal # "disputed"
    BY <1>5, <2>2, ReturnLands DEF ReadDeal, Return
  <2>3. QED
    BY <2>1, <2>2
<1>6. QED
  BY <1>1, <1>3, <1>4, <1>5, TablesRest, QuietStep DEF StepOf

(* LeaveReview goes on although DisputeByDeal failed.                      *)
LEMMA CheckFailsStep ==
    ASSUME ReviewInv, NEW p \in Procs, CheckFails(p) PROVE StepOf(p)
<1> DEFINE l == [loc[p] EXCEPT !.err = TRUE]
<1>1. TypeOK /\ UNCHANGED <<deal, disputes, asked, reviews, aged>>
  BY DEF ReviewInv, CheckFails
<1>2. loc[p] \in Local /\ Grounded(pc[p], loc[p])
  BY <1>1 DEF TypeOK, ReviewInv
<1>3. l \in Local /\ l.due = loc[p].due
  BY <1>2 DEF Local
<1>4. \A d : d = l => Grounded("readReviews", d)'
  BY <1>1, <1>2, <1>3 DEF Grounded
<1>5. Lands(p)
  BY <1>3, <1>4 DEF CheckFails, Lands, Labels
<1>6. faults' \in 0..MaxFaults
  BY <1>1, ReviewBounds DEF TypeOK, CheckFails
<1>7. QED
  BY <1>1, <1>5, <1>6, QuietStep DEF StepOf, TablesKeep, TypeOK

(* The author's review is inserted, or was there already.                  *)
LEMMA CreateReviewStep ==
    ASSUME ReviewInv, NEW p \in Procs, CreateReview(p) PROVE StepOf(p)
<1> DEFINE s == loc[p].side
           theirs == loc[p].theirs
<1>1. /\ TypeOK /\ loc[p] \in Local /\ reviews \in [Sides -> Row]
      /\ s \in Sides /\ theirs \in Row /\ Grounded(pc[p], loc[p])
  BY DEF ReviewInv, TypeOK, Local
<1>2. UNCHANGED <<deal, disputes, asked, aged, faults>> /\ pc[p] = "createReview"
  BY DEF CreateReview
<1>3. CASE reviews[s].stage # "absent"
  <2>1. UNCHANGED reviews /\ Lands(p)
    BY <1>3, ReturnLands DEF CreateReview, Return
  <2>2. QED
    BY <1>1, <1>2, <2>1, TablesRest, QuietStep DEF StepOf
<1>4. CASE reviews[s].stage = "absent"
  <2>1. PICK how \in {"hidden", "open"} : how = FirstStage(theirs)
    BY DEF FirstStage
  <2>2. reviews' = [reviews EXCEPT ![s].stage = how]
    BY <1>4, <2>1 DEF CreateReview
  <2>3. theirs.stage # "absent" => reviews[Other(s)].stage # "absent"
    BY <1>1, <1>2 DEF Grounded
  <2>4. how = "open" => theirs.stage # "absent"
    BY <2>1 DEF FirstStage
  <2>5. PublicStep /\ reviews' \in [Sides -> Row] /\ reviews'[s].stage = how
    BY <1>1, <1>2, <1>4, <2>2, <2>3, <2>4, OtherSide, InsertStep
  <2>6. TablesKeep
    BY <1>1, <1>2, <2>5 DEF TypeOK, TablesKeep
  <2>7. Lands(p)
    <3>1. CASE theirs.stage = "hidden"
      <4>1. Goto(p, "openTheirs", loc[p])
        BY <1>4, <3>1 DEF CreateReview
      <4>2. \A d : d = loc[p] => Grounded("openTheirs", d)'
        BY <1>1, <1>2, <2>1, <2>3, <2>5, <3>1, OtherSide DEF Grounded, PublicStep, StagesGrow
      <4>3. QED
        BY <1>1, <4>1, <4>2 DEF Lands, Labels
    <3>2. CASE theirs.stage # "hidden"
      BY <1>4, <3>2, ReturnLands DEF CreateReview, Return
    <3>3. QED
      BY <3>1, <3>2
  <2>8. QED
    BY <2>5, <2>6, <2>7 DEF StepOf
<1>5. QED
  BY <1>3, <1>4

(* A copy that a request has read and opened, or answered, is written.     *)
LEMMA WriteReviewStep ==
    ASSUME ReviewInv, NEW p \in Procs, OpenTheirs(p) \/ WriteReply(p) PROVE StepOf(p)
<1>1. /\ TypeOK /\ loc[p] \in Local /\ reviews \in [Sides -> Row]
      /\ loc[p].side \in Sides /\ loc[p].theirs \in Row /\ Grounded(pc[p], loc[p])
  BY DEF ReviewInv, TypeOK, Local
<1>2. UNCHANGED <<deal, disputes, asked, aged, faults>> /\ Lands(p)
  BY ReturnLands DEF OpenTheirs, WriteReply, Return
<1>3. PublicStep /\ reviews' \in [Sides -> Row]
  <2>1. CASE OpenTheirs(p)
    <3> DEFINE s == Other(loc[p].side)
               copy == Opened(loc[p].theirs)
    <3>1. s \in Sides /\ loc[p].side \in Sides \ {s}
      BY <1>1, OtherSide
    <3>2. copy \in Row /\ copy.stage = "open"
      BY <1>1 DEF Opened, Row
    <3>3. reviews[s].stage # "absent" /\ reviews[loc[p].side].stage # "absent"
      BY <1>1, <2>1 DEF Grounded, OpenTheirs
    <3>4. UpdateReview(s, copy)
      BY <2>1 DEF OpenTheirs
    <3>5. QED
      BY <1>2, <3>1, <3>2, <3>3, <3>4, OpenStep
  <2>2. CASE WriteReply(p)
    <3>1. reviews[loc[p].side].stage = "open" /\ loc[p].theirs.stage = "open"
      BY <1>1, <2>2 DEF Grounded, WriteReply
    <3>2. UpdateReview(loc[p].side, loc[p].theirs)
      BY <2>2 DEF WriteReply
    <3>3. QED
      BY <1>1, <1>2, <3>1, <3>2, OpenStep
  <2>3. QED
    BY <2>1, <2>2
<1>4. TablesKeep
  BY <1>1, <1>2, <1>3 DEF TypeOK, TablesKeep
<1>5. QED
  BY <1>2, <1>3, <1>4 DEF StepOf

(* The deal's and the dispute's requests write their rows.                 *)
LEMMA WriteDealStep ==
    ASSUME ReviewInv, NEW p \in Procs, WriteDeal(p) \/ CreateDispute(p) \/ UpdateDispute(p)
    PROVE  StepOf(p)
<1>1. /\ TypeOK /\ loc[p] \in Local /\ Grounded(pc[p], loc[p])
      /\ disputes \in [Stamps -> {"none", "open", "resolved"}]
  BY DEF ReviewInv, TypeOK
<1>2. UNCHANGED <<asked, reviews, aged, faults>>
  BY DEF WriteDeal, CreateDispute, UpdateDispute
<1>3. CASE WriteDeal(p)
  <2>1. deal' \in DealStatuses /\ UNCHANGED disputes /\ Lands(p)
    BY <1>1, <1>3, ReturnLands DEF WriteDeal, Return, Local
  <2>2. QED
    BY <1>1, <1>2, <2>1, QuietStep DEF StepOf, TablesKeep, TypeOK
<1>4. CASE CreateDispute(p)
  <2>1. CASE DisputeOpen
    <3>1. UNCHANGED <<deal, disputes>> /\ Lands(p)
      BY <1>4, <2>1, ReturnLands DEF CreateDispute, Return
    <3>2. QED
      BY <1>1, <1>2, <3>1, TablesRest, QuietStep DEF StepOf
  <2>2. CASE ~DisputeOpen
    <3>1. disputes' = [disputes EXCEPT ![loc[p].dispute] = "open"] /\ UNCHANGED deal
      BY <1>4, <2>2 DEF CreateDispute
    <3>2. disputes' \in [Stamps -> {"none", "open", "resolved"}]
      BY <1>1, <3>1
    <3>3. TablesKeep
      BY <1>1, <1>2, <3>1, <3>2 DEF TablesKeep, TypeOK
    <3>4. CASE loc[p].deal = "work_done"
      <4> DEFINE l == [NoLocal EXCEPT !.deal = "disputed"]
      <4>1. l \in Local /\ l.due = [t \in Sides |-> NoRow]
        BY NoLocalType DEF Local, DealStatuses
      <4>2. Goto(p, "writeDeal", l)
        BY <1>4, <2>2, <3>4 DEF CreateDispute
      <4>3. Lands(p)
        BY <4>1, <4>2, FreshLands DEF Labels
      <4>4. QED
        BY <1>2, <3>3, <4>3, QuietStep DEF StepOf
    <3>5. CASE loc[p].deal # "work_done"
      <4>1. Lands(p)
        BY <1>4, <2>2, <3>5, ReturnLands DEF CreateDispute, Return
      <4>2. QED
        BY <1>2, <3>3, <4>1, QuietStep DEF StepOf
    <3>6. QED
      BY <3>4, <3>5
  <2>3. QED
    BY <2>1, <2>2
<1>5. CASE UpdateDispute(p)
  <2>2. disputes' = [disputes EXCEPT ![loc[p].dispute] = "resolved"] /\ UNCHANGED deal
    BY <1>5 DEF UpdateDispute
  <2>3. disputes' \in [Stamps -> {"none", "open", "resolved"}]
    BY <1>1, <2>2
  <2>4. TablesKeep
    BY <1>1, <1>2, <2>2, <2>3 DEF TablesKeep, TypeOK
  <2>5. Goto(p, "readDeal", loc[p])
    BY <1>5 DEF UpdateDispute
  <2>6. \A d : d = loc[p] => Grounded("readDeal", d)'
    BY <1>1, <1>2 DEF Grounded
  <2>7. Lands(p)
    BY <1>1, <2>5, <2>6 DEF Lands, Labels
  <2>8. QED
    BY <1>2, <2>4, <2>7, QuietStep DEF StepOf
<1>6. QED
  BY <1>3, <1>4, <1>5

(* The scheduler notes what is due, and opens one row after the other.     *)
LEMMA SchedulerIsAStep ==
    ASSUME ReviewInv, SchedulerStep PROVE StepOf(Scheduler)
<1> DEFINE p == Scheduler
<1>1. /\ TypeOK /\ p \in Procs /\ loc[p] \in Local /\ reviews \in [Sides -> Row]
      /\ Grounded(pc[p], loc[p])
  BY DEF ReviewInv, TypeOK, Procs
<1>2. UNCHANGED <<deal, disputes, asked, aged, faults>>
  BY DEF SchedulerStep, PublishDueReviews, OpenDue
<1>3. NoLocal \in Local /\ NoRow \in Row
  BY NoLocalType
<1>4. CASE PublishDueReviews
  <2> DEFINE due == [s \in Sides |-> IF s \in DueReviews THEN reviews[s] ELSE NoRow]
             l == [NoLocal EXCEPT !.due = due]
  <2>1. l \in Local /\ l.due = due
    BY <1>1, <1>3 DEF Local
  <2>2. UNCHANGED reviews /\ Goto(p, "openDue", l)
    BY <1>4 DEF PublishDueReviews
  <2>3. \A s \in Sides : due[s] # NoRow => s \in aged /\ reviews[s].stage # "absent"
    BY DEF DueReviews
  <2>4. \A d : d = l => Grounded("openDue", d)'
    BY <1>2, <2>1, <2>2, <2>3 DEF Grounded
  <2>5. Lands(p)
    BY <2>1, <2>2, <2>4 DEF Lands, Labels
  <2>6. QED
    BY <1>1, <1>2, <2>2, <2>5, TablesRest, QuietStep DEF StepOf
<1>5. CASE OpenDue
  <2> DEFINE due == loc[p].due
  <2>1. due \in [Sides -> Row]
    BY <1>1 DEF Local
  <2>2. CASE Return(p) /\ UNCHANGED reviews
    <3>1. Lands(p)
      BY <2>2, ReturnLands DEF Return
    <3>2. QED
      BY <1>1, <1>2, <2>2, <3>1, TablesRest, QuietStep DEF StepOf
  <2>3. ASSUME NEW s \in Sides, due[s] # NoRow, UpdateReview(s, Opened(due[s])),
               Goto(p, "openDue", [NoLocal EXCEPT !.due = [due EXCEPT ![s] = NoRow]])
        PROVE  StepOf(p)
    <3> DEFINE rest == [due EXCEPT ![s] = NoRow]
               l == [NoLocal EXCEPT !.due = rest]
    <3>1. \A t \in Sides : due[t] # NoRow => t \in aged /\ reviews[t].stage # "absent"
      BY <1>1 DEF Grounded
    <3>2. Opened(due[s]) \in Row /\ Opened(due[s]).stage = "open"
      BY <2>1 DEF Opened, Row
    <3>3. PublicStep /\ reviews' \in [Sides -> Row]
      BY <1>2, <2>3, <3>1, <3>2, OpenStep
    <3>4. rest \in [Sides -> Row] /\ l \in Local /\ l.due = rest
      BY <1>3, <2>1 DEF Local
    <3>5. \A t \in Sides : rest[t] # NoRow => t \in aged /\ reviews[t].stage # "absent"
      BY <2>1, <3>1
    <3>6. \A d : d = l => Grounded("openDue", d)'
      BY <1>2, <3>3, <3>4, <3>5 DEF Grounded, PublicStep, StagesGrow
    <3>7. Lands(p)
      BY <2>3, <3>4, <3>6 DEF Lands, Labels
    <3>9. TablesKeep
      BY <1>1, <1>2, <3>3 DEF TypeOK, TablesKeep
    <3>10. QED
      BY <3>3, <3>7, <3>9 DEF StepOf
  <2>4. QED
    BY <1>5, <2>2, <2>3 DEF OpenDue
<1>6. QED
  BY <1>4, <1>5 DEF SchedulerStep

(* A process that fails has returned.                                      *)
LEMMA FailStep ==
    ASSUME ReviewInv, NEW p \in Procs, Fail(p) PROVE StepOf(p)
<1>1. TypeOK /\ Lands(p) /\ UNCHANGED <<deal, disputes, asked, reviews, aged>>
  BY ReturnLands DEF ReviewInv, Fail, Return
<1>2. faults' \in 0..MaxFaults
  BY <1>1, ReviewBounds DEF TypeOK, Fail
<1>3. TablesKeep
  BY <1>1, <1>2 DEF TypeOK, TablesKeep
<1>4. QED
  BY <1>1, <1>3, QuietStep DEF StepOf

(* Every step is one of a process, or a week that passes.                  *)
LEMMA StepShapes ==
    ASSUME ReviewInv, Next
    PROVE  (\E p \in Procs : StepOf(p)) \/ (\E s \in Sides : WeekPasses(s))
<1>1. ASSUME NEW p \in Requests, Begin(p) \/ Continue(p) PROVE \E q \in Procs : StepOf(q)
  BY <1>1, BeginStep, ReadStep, CheckFailsStep, CreateReviewStep, WriteReviewStep, WriteDealStep
     DEF Continue, Procs
<1>2. QED
  BY <1>1, SchedulerIsAStep, FailStep DEF Next, Procs

(* The requests barred by a dispute are requests.                          *)
LEMMA BarredType == ASSUME TypeOK, Next PROVE barred' \subseteq Requests
<1>1. ASSUME NEW p \in Requests, Begin(p) PROVE barred' \subseteq Requests
  BY <1>1 DEF TypeOK, Begin, LeaveReview, ReplyToReview, AcceptWork, OpenDispute,
              ResolveDispute
<1>2. ASSUME NEW p \in Requests, Continue(p) PROVE barred' \subseteq barred
  BY <1>2 DEF Continue, CheckDispute, CheckFails, ReviewsByDeal, CreateReview, OpenTheirs,
              WriteReply, WriteDeal, CreateDispute, UpdateDispute, ReadDeal, Return
<1>3. SchedulerStep => barred' \subseteq barred
  BY DEF SchedulerStep, PublishDueReviews, OpenDue, Return
<1>4. (\E s \in Sides : WeekPasses(s)) \/ (\E p \in Procs : Fail(p)) => barred' \subseteq barred
  BY DEF WeekPasses, Fail, Return
<1>5. QED
  BY <1>1, <1>2, <1>3, <1>4 DEF Next, TypeOK

-----------------------------------------------------------------------------
(* The invariant of the reviews.                                           *)

(* What others may rely on stays true when stages only grow.               *)
LEMMA GroundedStays ==
    ASSUME StagesGrow, NEW label, NEW l \in Local, Grounded(label, l)
    PROVE  Grounded(label, l)'
<1>1. l.side \in Sides /\ Other(l.side) \in Sides
  BY OtherSide DEF Local
<1>2. QED
  BY <1>1 DEF Grounded, StagesGrow

(* Every step keeps the invariant, and shows the public a step of          *)
(* BlindReviews.                                                           *)
LEMMA NextReviewInv ==
    ReviewInv /\ [Next]_vars => ReviewInv' /\ [Blind!Next]_(Blind!vars)
<1> SUFFICES ASSUME ReviewInv, [Next]_vars PROVE ReviewInv' /\ [Blind!Next]_(Blind!vars)
  OBVIOUS
<1>1. TypeOK /\ pc \in [Procs -> Labels] /\ loc \in [Procs -> Local]
  BY DEF ReviewInv, TypeOK
<1>2. ASSUME Next, NEW p \in Procs, StepOf(p) PROVE ReviewInv' /\ [Blind!Next]_(Blind!vars)
  <2>1. TablesKeep /\ PublicStep /\ StagesGrow /\ RepliesAreOpen'
    BY <1>2 DEF StepOf, PublicStep
  <2>2. PICK label \in Labels, l \in Local :
          /\ Goto(p, label, l)
          /\ label \in {"createDispute", "writeDispute"} => l.dispute \in Stamps
          /\ Grounded(label, l)'
    BY <1>2 DEF StepOf, Lands
  <2>3. /\ pc' \in [Procs -> Labels] /\ pc'[p] = label
        /\ loc' \in [Procs -> Local] /\ loc'[p] = l
        /\ \A q \in Procs \ {p} : pc'[q] = pc[q] /\ loc'[q] = loc[q]
    BY <1>1, <2>2 DEF Goto
  <2>5. \A q \in Procs : pc'[q] \in {"createDispute", "writeDispute"} => loc'[q].dispute \in Stamps
    BY <1>1, <2>2, <2>3 DEF TypeOK
  <2>6. TypeOK'
    BY <1>1, <1>2, <2>1, <2>3, <2>5, BarredType DEF TypeOK, TablesKeep
  <2>7. ASSUME NEW q \in Procs PROVE Grounded(pc[q], loc[q])'
    <3>1. CASE q = p
      BY <2>2, <2>3, <3>1 DEF Grounded
    <3>2. CASE q # p
      <4>1. Grounded(pc[q], loc[q]) /\ loc[q] \in Local
        BY <1>1 DEF ReviewInv
      <4>2. \A label1, l1 : label1 = pc[q] /\ l1 = loc[q] => Grounded(label1, l1)'
        BY <2>1, <4>1, GroundedStays
      <4>3. QED
        BY <2>3, <3>2, <4>2 DEF Grounded
    <3>3. QED
      BY <3>1, <3>2
  <2>8. QED
    BY <2>1, <2>6, <2>7 DEF ReviewInv, PublicStep
<1>3. ASSUME Next, NEW s \in Sides, WeekPasses(s)
      PROVE  ReviewInv' /\ [Blind!Next]_(Blind!vars)
  <2>1. UNCHANGED <<deal, disputes, asked, reviews, pc, loc, faults, barred>> /\ aged' = aged \cup {s}
    BY <1>3 DEF WeekPasses
  <2>2. TypeOK' /\ RepliesAreOpen'
    BY <1>1, <2>1 DEF TypeOK, ReviewInv, RepliesAreOpen
  <2>3. \A q \in Procs : Grounded(pc[q], loc[q])'
    BY <2>1 DEF ReviewInv, Grounded
  <2>4. Blind!WeekPasses(s)
    BY <1>3, <2>1 DEF WeekPasses, Blind!WeekPasses, Blind!Written
  <2>5. QED
    BY <2>2, <2>3, <2>4 DEF ReviewInv, Blind!Next
<1>4. CASE UNCHANGED vars
  BY <1>4 DEF vars, ReviewInv, TypeOK, RepliesAreOpen, Grounded, Blind!vars
<1>5. QED
  BY <1>2, <1>3, <1>4, StepShapes

(* The initial state satisfies the invariant, and is one of BlindReviews.  *)
LEMMA InitReviewInv == Init => ReviewInv /\ Blind!Init
<1> SUFFICES ASSUME Init PROVE ReviewInv /\ Blind!Init
  OBVIOUS
<1>1. disputes \in [Stamps -> {"none", "open", "resolved"}] /\ asked \in 0..MaxDisputes
  BY ReviewBounds DEF Init
<1>2. reviews \in [Sides -> Row] /\ loc \in [Procs -> Local] /\ pc \in [Procs -> Labels]
  BY NoLocalType DEF Init, Labels
<1>3. TypeOK
  BY <1>1, <1>2, ReviewBounds DEF Init, TypeOK, DealStatuses
<1>4. \A s \in Sides : reviews[s].stage = "absent" /\ reviews[s].replied = FALSE
  BY DEF Init, NoRow
<1>5. \A p \in Procs : Grounded(pc[p], loc[p])
  BY NoLocalType DEF Init, Grounded
<1>6. Blind!Init
  BY <1>4 DEF Init, Blind!Init
<1>7. QED
  BY <1>3, <1>4, <1>5, <1>6 DEF ReviewInv, RepliesAreOpen

(* Whatever stale copies are in flight, what a process relies on when it   *)
(* writes still holds.                                                     *)
THEOREM ReviewsInductive == Spec => []ReviewInv
BY InitReviewInv, NextReviewInv, PTL DEF Spec

(* Rows, copies, labels and disputes keep their shape.                     *)
THEOREM TypeCorrect == Spec => []TypeOK
<1>1. ReviewInv => TypeOK
  BY DEF ReviewInv
<1>2. QED
  BY <1>1, ReviewsInductive, PTL

(* No stale copy written by LeaveReview, ReplyToReview or the scheduler    *)
(* leaves a reply on a review the public cannot see.                       *)
THEOREM NoReplyInTheDark == Spec => []RepliesAreOpen
<1>1. ReviewInv => RepliesAreOpen
  BY DEF ReviewInv
<1>2. QED
  BY <1>1, ReviewsInductive, PTL

(* The statements of the handlers and of the scheduler, interleaved in any *)
(* way, implement BlindReviews: a review opens only when the other side    *)
(* has written or after a week, and never closes again.                    *)
THEOREM ImplementsBlindReviews == Spec => KeepsReviewsBlind
BY InitReviewInv, NextReviewInv, PTL DEF Spec, KeepsReviewsBlind, Blind!Spec

-----------------------------------------------------------------------------
(* The freeze.                                                             *)

(* Of the disputes on file one is the latest: counted from the end, the    *)
(* stamps are numbers, and the least of them exists.                       *)
LEMMA LatestExists ==
    ASSUME OnFile # {}
    PROVE  \E m \in OnFile : \A k \in OnFile : k <= m
<1> DEFINE T == {MaxDisputes - n : n \in OnFile}
<1>1. OnFile \subseteq Nat /\ T \subseteq Nat /\ T # {}
  BY ReviewBounds DEF OnFile, Stamps
<1>2. \E d \in T : \A e \in T : ~(<<e, d>> \in OpToRel(<, Nat))
  <2> DEFINE R == OpToRel(<, Nat)
  <2>1. IsWellFoundedOn(R, Nat)
    BY NatLessThanWellFounded, Zenon
  <2> HIDE DEF R, T
  <2>2. \E d \in T : \A e \in T : ~(<<e, d>> \in R)
    BY <1>1, <2>1, WFMin, Zenon
  <2>3. QED
    BY <2>2, Zenon DEF R
<1>3. PICK d \in T : \A e \in T : ~(e < d)
  BY <1>1, <1>2 DEF OpToRel
<1>4. PICK m \in OnFile : d = MaxDisputes - m
  BY <1>3
<1>5. ASSUME NEW k \in OnFile PROVE k <= m
  <2>1. MaxDisputes - k \in T
    OBVIOUS
  <2>2. ~(MaxDisputes - k < MaxDisputes - m) /\ k \in Nat /\ m \in Nat
    BY <1>1, <1>3, <1>4, <2>1
  <2>3. QED
    BY <2>2, ReviewBounds
<1>6. QED
  BY <1>5

(* When a dispute is open and the latest on file is not, the latest was    *)
(* settled before the open one was inserted.                               *)
LEMMA GapInTheOrder ==
    ASSUME TypeOK, DisputeOpen, \A n \in DisputeByDeal : disputes[n] # "open"
    PROVE  LateDispute
<1>1. /\ disputes \in [Stamps -> {"none", "open", "resolved"}]
      /\ OnFile \subseteq Stamps /\ Stamps \subseteq Nat
  BY DEF TypeOK, OnFile, Stamps
<1>2. PICK n \in Stamps : disputes[n] = "open"
  BY DEF DisputeOpen
<1>3. n \in OnFile
  BY <1>2 DEF OnFile
<1>4. PICK m \in OnFile : \A k \in OnFile : k <= m
  BY <1>1, <1>3, LatestExists
<1>5. m \in DisputeByDeal
  BY <1>4 DEF DisputeByDeal
<1>6. disputes[m] = "resolved"
  BY <1>1, <1>4, <1>5 DEF OnFile
<1>7. n < m
  BY <1>1, <1>2, <1>3, <1>4, <1>6
<1>8. QED
  BY <1>1, <1>2, <1>4, <1>6, <1>7 DEF LateDispute

(* A step of p that changes no dispute keeps the freeze when p is not, or  *)
(* no longer, barred.                                                      *)
LEMMA FreezeOthers ==
    ASSUME FreezeInv, TypeOK', NEW p \in Procs, NEW label, NEW l, Goto(p, label, l),
           UNCHANGED disputes, barred' \subseteq barred \ {p}
    PROVE  FreezeInv'
<1>1. \A q \in barred' : q \in barred /\ pc'[q] = pc[q] /\ loc'[q] = loc[q]
  BY DEF FreezeInv, TypeOK, Goto, Procs
<1>2. barred' # {} => DisputeOpen'
  BY DEF FreezeInv, DisputeOpen
<1>3. LateDispute' <=> LateDispute
  BY DEF LateDispute
<1>4. \A q \in barred' : pc'[q] = "checkDispute" \/ ThroughGap(q)'
  BY <1>1, <1>3 DEF FreezeInv, ThroughGap
<1>5. QED
  BY <1>2, <1>4 DEF FreezeInv

(* It also does when p goes on through a gap.                              *)
LEMMA FreezeGoesOn ==
    ASSUME FreezeInv, TypeOK', NEW p \in Procs,
           NEW label \in {"readReviews", "createReview", "openTheirs"}, NEW l,
           Goto(p, label, l), UNCHANGED <<disputes, barred>>,
           p \in barred => l.err \/ LateDispute
    PROVE  FreezeInv'
<1>1. /\ pc \in [Procs -> Labels] /\ loc \in [Procs -> Local] /\ barred \subseteq Procs
      /\ pc'[p] = label /\ loc'[p] = l
      /\ \A q \in Procs \ {p} : pc'[q] = pc[q] /\ loc'[q] = loc[q]
  BY DEF FreezeInv, TypeOK, Goto, Procs
<1>2. barred' # {} => DisputeOpen'
  BY DEF FreezeInv, DisputeOpen
<1>3. LateDispute' <=> LateDispute
  BY DEF LateDispute
<1>4. ASSUME NEW q \in barred' PROVE pc'[q] = "checkDispute" \/ ThroughGap(q)'
  <2>1. CASE q = p
    BY <1>1, <1>3, <2>1 DEF ThroughGap
  <2>2. CASE q # p
    BY <1>1, <1>3, <2>2 DEF FreezeInv, ThroughGap
  <2>3. QED
    BY <2>1, <2>2
<1>5. QED
  BY <1>2, <1>4 DEF FreezeInv

(* Every step keeps the freeze.                                            *)
LEMMA NextFreezeInv == FreezeInv /\ TypeOK' /\ [Next]_vars => FreezeInv'
<1> SUFFICES ASSUME FreezeInv, TypeOK', [Next]_vars PROVE FreezeInv'
  OBVIOUS
<1>1. /\ TypeOK /\ pc \in [Procs -> Labels] /\ loc \in [Procs -> Local]
      /\ Requests \subseteq Procs /\ Scheduler \in Procs
      /\ disputes \in [Stamps -> {"none", "open", "resolved"}] /\ barred \subseteq Requests
  BY DEF FreezeInv, TypeOK, Procs
<1>2. \A p \in barred :
        pc[p] = "checkDispute"
        \/ (pc[p] \in {"readReviews", "createReview", "openTheirs"} /\ (loc[p].err \/ LateDispute))
  BY DEF FreezeInv, ThroughGap
<1>3. ASSUME NEW p \in Procs, Return(p), UNCHANGED disputes PROVE FreezeInv'
  BY <1>3, FreezeOthers DEF Return
<1>4. ASSUME NEW p \in Procs, p \notin barred, UNCHANGED <<disputes, barred>>,
             \E label, l : Goto(p, label, l)
      PROVE  FreezeInv'
  BY <1>4, FreezeOthers
<1>5. ASSUME NEW p \in Requests, NEW s \in Sides, LeaveReview(p, s) PROVE FreezeInv'
  <2>1. UNCHANGED disputes /\ p \notin barred /\ p \in Procs
    BY <1>1, <1>2, <1>5 DEF LeaveReview
  <2>2. /\ pc'[p] = "checkDispute"
        /\ \A q \in Procs \ {p} : pc'[q] = pc[q] /\ loc'[q] = loc[q]
    BY <1>1, <1>5, <2>1 DEF LeaveReview, Goto
  <2>3. barred' = (IF DisputeOpen THEN barred \cup {p} ELSE barred)
    BY <1>5 DEF LeaveReview
  <2>4. barred' # {} => DisputeOpen'
    BY <2>1, <2>3 DEF FreezeInv, DisputeOpen
  <2>5. LateDispute' <=> LateDispute
    BY <2>1 DEF LateDispute
  <2>6. ASSUME NEW q \in barred' PROVE pc'[q] = "checkDispute" \/ ThroughGap(q)'
    BY <1>1, <1>2, <2>2, <2>3, <2>5 DEF ThroughGap
  <2>7. QED
    BY <2>1, <2>4, <2>6 DEF FreezeInv
<1>6. ASSUME NEW p \in Requests,
             \/ \E s \in Sides : ReplyToReview(p, s)
             \/ AcceptWork(p) \/ OpenDispute(p)
             \/ \E n \in Stamps, verdict \in Verdicts : ResolveDispute(p, n, verdict)
      PROVE  FreezeInv'
  <2>1. UNCHANGED <<disputes, barred>> /\ pc[p] = "idle"
    BY <1>6 DEF ReplyToReview, AcceptWork, OpenDispute, ResolveDispute
  <2>2. \E label, l : Goto(p, label, l)
    BY <1>6 DEF ReplyToReview, AcceptWork, OpenDispute, ResolveDispute
  <2>3. QED
    BY <1>1, <1>2, <1>4, <2>1, <2>2
<1>7. ASSUME NEW p \in Requests, CheckDispute(p) PROVE FreezeInv'
  <2>1. UNCHANGED disputes
    BY <1>7 DEF CheckDispute
  <2>2. CASE Return(p)
    BY <1>1, <1>3, <2>1, <2>2
  <2>3. CASE ~\E n \in DisputeByDeal : disputes[n] = "open"
    <3>1. Goto(p, "readReviews", loc[p]) /\ UNCHANGED barred
      BY <1>7, <2>3 DEF CheckDispute
    <3>2. p \in barred => LateDispute
      BY <1>1, <2>3, GapInTheOrder DEF FreezeInv
    <3>3. QED
      BY <1>1, <2>1, <3>1, <3>2, FreezeGoesOn
  <2>4. QED
    BY <1>7, <2>2, <2>3 DEF CheckDispute
<1>8. ASSUME NEW p \in Requests, CheckFails(p) PROVE FreezeInv'
  <2> DEFINE l == [loc[p] EXCEPT !.err = TRUE]
  <2>1. UNCHANGED <<disputes, barred>> /\ Goto(p, "readReviews", l)
    BY <1>8 DEF CheckFails
  <2>2. l.err
    BY <1>1 DEF Local
  <2> HIDE DEF l
  <2>3. QED
    BY <1>1, <2>1, <2>2, FreezeGoesOn
<1>9. ASSUME NEW p \in Requests, ReviewsByDeal(p) PROVE FreezeInv'
  <2> DEFINE l == [loc[p] EXCEPT !.theirs = reviews[Other(loc[p].side)]]
  <2>1. UNCHANGED <<disputes, barred>> /\ Goto(p, "createReview", l) /\ pc[p] = "readReviews"
    BY <1>9 DEF ReviewsByDeal
  <2>2. l.err = loc[p].err
    BY <1>1 DEF Local
  <2> HIDE DEF l
  <2>3. p \in barred => l.err \/ LateDispute
    BY <1>2, <2>1, <2>2
  <2>4. QED
    BY <1>1, <2>1, <2>3, FreezeGoesOn
<1>10. ASSUME NEW p \in Requests, CreateReview(p) PROVE FreezeInv'
  <2>1. UNCHANGED disputes /\ pc[p] = "createReview"
    BY <1>10 DEF CreateReview
  <2>2. CASE Return(p)
    BY <1>1, <1>3, <2>1, <2>2
  <2>3. CASE Goto(p, "openTheirs", loc[p]) /\ UNCHANGED barred
    BY <1>1, <1>2, <2>1, <2>3, FreezeGoesOn
  <2>4. QED
    BY <1>10, <2>2, <2>3 DEF CreateReview
<1>11. ASSUME NEW p \in Requests,
              OpenTheirs(p) \/ WriteReply(p) \/ WriteDeal(p) \/ ReadDeal(p)
       PROVE  FreezeInv'
  <2>1. UNCHANGED disputes
    BY <1>11 DEF OpenTheirs, WriteReply, WriteDeal, ReadDeal
  <2>2. CASE Return(p)
    BY <1>1, <1>3, <2>1, <2>2
  <2>3. CASE pc[p] = "readDeal" /\ UNCHANGED barred /\ \E label, l : Goto(p, label, l)
    BY <1>1, <1>2, <1>4, <2>1, <2>3
  <2>4. QED
    BY <1>11, <2>2, <2>3 DEF OpenTheirs, WriteReply, WriteDeal, ReadDeal
<1>12. ASSUME NEW p \in Requests, CreateDispute(p) PROVE FreezeInv'
  <2>1. CASE DisputeOpen
    BY <1>1, <1>3, <1>12, <2>1 DEF CreateDispute
  <2>2. CASE ~DisputeOpen
    <3>1. disputes' = [disputes EXCEPT ![loc[p].dispute] = "open"]
      BY <1>12, <2>2 DEF CreateDispute
    <3>2. \A n, m \in Stamps : disputes'[n] = "open" /\ disputes'[m] = "open" => n = m
      BY <1>1, <2>2, <3>1 DEF DisputeOpen
    <3>3. barred = {}
      BY <2>2 DEF FreezeInv
    <3>4. barred' = {}
      BY <1>12, <3>3 DEF CreateDispute, Return
    <3>5. QED
      BY <3>2, <3>4 DEF FreezeInv
  <2>3. QED
    BY <2>1, <2>2
<1>13. ASSUME NEW p \in Requests, UpdateDispute(p) PROVE FreezeInv'
  <2> DEFINE k == loc[p].dispute
  <2>1. disputes' = [disputes EXCEPT ![k] = "resolved"] /\ pc[p] = "writeDispute"
    BY <1>13 DEF UpdateDispute
  <2>2. \A n \in Stamps : disputes'[n] = IF n = k THEN "resolved" ELSE disputes[n]
    BY <1>1, <2>1
  <2>3. \A n, m \in Stamps : disputes'[n] = "open" /\ disputes'[m] = "open" => n = m
    BY <2>2 DEF FreezeInv
  <2>4. barred' \subseteq barred /\ (barred' # {} => DisputeOpen')
    BY <1>13 DEF UpdateDispute, DisputeOpen
  <2>5. ASSUME NEW q \in barred' PROVE pc'[q] = "checkDispute" \/ ThroughGap(q)'
    <3>1. q \in barred /\ q # p /\ q \in Procs
      BY <1>1, <1>2, <2>1, <2>4
    <3>2. pc'[q] = pc[q] /\ loc'[q] = loc[q]
      BY <1>1, <1>13, <3>1 DEF UpdateDispute, Goto
    <3>3. PICK o \in Stamps : disputes'[o] = "open"
      BY <2>4 DEF DisputeOpen
    <3>4. o # k /\ disputes[o] = "open"
      BY <2>2, <3>3
    <3>5. LateDispute => LateDispute'
      BY <2>2, <3>4 DEF LateDispute, FreezeInv
    <3>6. QED
      BY <1>2, <3>1, <3>2, <3>5 DEF ThroughGap
  <2>6. QED
    BY <2>3, <2>4, <2>5 DEF FreezeInv
<1>14. CASE SchedulerStep
  <2>1. UNCHANGED disputes /\ Scheduler \notin barred
    BY <1>1, <1>14, ReviewProcs DEF SchedulerStep, PublishDueReviews, OpenDue
  <2>2. Return(Scheduler) \/ (UNCHANGED barred /\ \E label, l : Goto(Scheduler, label, l))
    BY <1>14 DEF SchedulerStep, PublishDueReviews, OpenDue
  <2>3. QED
    BY <1>1, <1>3, <1>4, <2>1, <2>2
<1>15. ASSUME NEW p \in Procs, Fail(p) PROVE FreezeInv'
  BY <1>3, <1>15 DEF Fail
<1>16. CASE (\E s \in Sides : WeekPasses(s)) \/ UNCHANGED vars
  <2>1. UNCHANGED <<disputes, barred, pc, loc>>
    BY <1>16 DEF WeekPasses, vars
  <2>2. QED
    BY <2>1 DEF FreezeInv, DisputeOpen, LateDispute, ThroughGap
<1>17. QED
  BY <1>5, <1>6, <1>7, <1>8, <1>9, <1>10, <1>11, <1>12, <1>13, <1>14, <1>15, <1>16
     DEF Next, Begin, Continue

(* A LeaveReview that comes during a dispute is not written before the     *)
(* dispute is settled, but for the two gaps: DisputeByDeal failed, or the  *)
(* open dispute has an earlier created_at than one already settled.        *)
THEOREM FreezeBarsReviews == Spec => []FreezeHasTwoGaps
<1>1. Init => FreezeInv
  <2>1. Init => \A n \in Stamps : disputes[n] = "none"
    BY DEF Init
  <2>2. QED
    BY <2>1, InitReviewInv DEF Init, FreezeInv, ReviewInv
<1>2. FreezeInv => FreezeHasTwoGaps
  BY DEF FreezeInv, FreezeHasTwoGaps, ThroughGap, PastFreeze
<1>3. QED
  BY <1>1, <1>2, NextFreezeInv, TypeCorrect, PTL DEF Spec

-----------------------------------------------------------------------------
(* Liveness.  What the prover knows nothing about is taken as a hypothesis:*)
(* that a round is possible while a review waits, and that a week can pass *)
(* for a hidden one (ENABLED); and that rounds do not fail for ever, which *)
(* the bound on faults gives by counting.                                  *)

Waits(s) == reviews[s].stage = "hidden" /\ s \in aged
Young(s) == reviews[s].stage = "hidden" /\ s \notin aged

RoundIsPossible(s) == Waits(s) => ENABLED <<SchedulerStep>>_vars
WeekIsPossible(s) == Young(s) => ENABLED <<WeekPasses(s)>>_vars
RoundsRecover == <>[][~Fail(Scheduler)]_vars

(* What the review of one side needs of all that.                          *)
FairFor(s) ==
    /\ Spec /\ RoundsGoOn /\ WeeksPass(s) /\ RoundsRecover
    /\ []RoundIsPossible(s) /\ []WeekIsPossible(s)

(* Where the scheduler is while the review of s waits: between two rounds, *)
(* or in a round that has, or has no more, the row of s and the other row  *)
(* on its list.                                                            *)
AtRest(s) == Waits(s) /\ pc[Scheduler] = "idle"
InRound(s, mine, other) ==
    /\ Waits(s) /\ pc[Scheduler] = "openDue"
    /\ loc[Scheduler].due[s] # NoRow <=> mine
    /\ loc[Scheduler].due[Other(s)] # NoRow <=> other

(* Only its own steps and failures move the scheduler.                     *)
LEMMA RequestsLeaveScheduler ==
    ASSUME TypeOK, [Next]_vars, ~SchedulerStep, ~Fail(Scheduler)
    PROVE  pc'[Scheduler] = pc[Scheduler] /\ loc'[Scheduler] = loc[Scheduler]
<1>1. pc \in [Procs -> Labels] /\ loc \in [Procs -> Local] /\ Scheduler \in Procs
  BY DEF TypeOK, Procs
<1>2. ASSUME NEW p \in Requests, NEW label, NEW l, Goto(p, label, l)
      PROVE  pc'[Scheduler] = pc[Scheduler] /\ loc'[Scheduler] = loc[Scheduler]
  BY <1>1, <1>2, ReviewProcs DEF Goto
<1>3. ASSUME NEW p \in Requests, Begin(p) PROVE \E label, l : Goto(p, label, l)
  <2>1. ASSUME NEW s, LeaveReview(p, s) PROVE \E label, l : Goto(p, label, l)
    BY <2>1, Zenon DEF LeaveReview
  <2>2. ASSUME NEW s, ReplyToReview(p, s) PROVE \E label, l : Goto(p, label, l)
    BY <2>2, Zenon DEF ReplyToReview
  <2>3. ASSUME AcceptWork(p) \/ OpenDispute(p) PROVE \E label, l : Goto(p, label, l)
    BY <2>3, Zenon DEF AcceptWork, OpenDispute
  <2>4. ASSUME NEW n, NEW verdict, ResolveDispute(p, n, verdict)
        PROVE  \E label, l : Goto(p, label, l)
    BY <2>4, Zenon DEF ResolveDispute
  <2>5. QED
    BY <1>3, <2>1, <2>2, <2>3, <2>4 DEF Begin
<1>4. ASSUME NEW p \in Requests, Continue(p) PROVE \E label, l : Goto(p, label, l)
  BY <1>4 DEF Continue, CheckDispute, CheckFails, ReviewsByDeal, CreateReview, OpenTheirs,
              WriteReply, WriteDeal, CreateDispute, UpdateDispute, ReadDeal, Return
<1>5. ASSUME NEW p \in Requests, Fail(p) PROVE \E label, l : Goto(p, label, l)
  BY <1>5 DEF Fail, Return
<1>6. (\E s \in Sides : WeekPasses(s)) \/ UNCHANGED vars => UNCHANGED <<pc, loc>>
  BY DEF WeekPasses, vars
<1>7. QED
  BY <1>2, <1>3, <1>4, <1>5, <1>6 DEF Next, Procs

(* The scheduler knows two labels.                                         *)
SchedulerAt == pc[Scheduler] \in {"idle", "openDue"}

(* It never gets to another one.                                           *)
LEMMA SchedulerPlace == Spec => []SchedulerAt
<1>1. Init => SchedulerAt
  BY DEF Init, SchedulerAt, Procs
<1>2. ASSUME TypeOK, [Next]_vars, SchedulerAt PROVE SchedulerAt'
  <2>1. pc \in [Procs -> Labels] /\ Scheduler \in Procs
    BY <1>2 DEF TypeOK, Procs
  <2>2. CASE SchedulerStep \/ Fail(Scheduler)
    BY <2>1, <2>2 DEF SchedulerStep, PublishDueReviews, OpenDue, Fail, Return, Goto, SchedulerAt
  <2>3. CASE ~SchedulerStep /\ ~Fail(Scheduler)
    BY <1>2, <2>3, RequestsLeaveScheduler DEF SchedulerAt
  <2>4. QED
    BY <2>2, <2>3
<1>3. QED
  BY <1>1, <1>2, TypeCorrect, PTL DEF Spec

(* A review that is written stays written, ages and opens for good.        *)
LEMMA StagesNeverShrink ==
    ASSUME ReviewInv, [Next]_vars PROVE StagesGrow
<1>1. ASSUME NEW p \in Procs, StepOf(p) PROVE StagesGrow
  BY <1>1 DEF StepOf, PublicStep
<1>2. ASSUME NEW s \in Sides, WeekPasses(s) PROVE StagesGrow
  BY <1>2 DEF WeekPasses, StagesGrow
<1>3. UNCHANGED vars => StagesGrow
  BY DEF vars, StagesGrow
<1>4. QED
  BY <1>1, <1>2, <1>3, StepShapes

(* While the scheduler does nothing, a review that waits keeps its place   *)
(* or is opened by somebody else.                                          *)
LEMMA PlaceStays ==
    ASSUME ReviewInv, [Next]_vars, ~SchedulerStep, ~Fail(Scheduler), NEW s \in Sides
    PROVE  /\ AtRest(s) => AtRest(s)' \/ reviews'[s].stage = "open"
           /\ \A m, o \in BOOLEAN :
                InRound(s, m, o) => InRound(s, m, o)' \/ reviews'[s].stage = "open"
<1>1. TypeOK /\ ReviewInv'
  BY NextReviewInv DEF ReviewInv
<1>2. pc'[Scheduler] = pc[Scheduler] /\ loc'[Scheduler] = loc[Scheduler]
  BY <1>1, RequestsLeaveScheduler
<1>3. Waits(s) => Waits(s)' \/ reviews'[s].stage = "open"
  <2>1. StagesGrow /\ reviews'[s] \in Row
    BY <1>1, StagesNeverShrink DEF ReviewInv, TypeOK
  <2>2. QED
    BY <2>1 DEF StagesGrow, Waits, Row
<1>4. QED
  BY <1>2, <1>3 DEF AtRest, InRound

(* A round that begins has every review that waits on its list; a step of  *)
(* a round takes one row off the list and opens it; a round whose list is  *)
(* empty ends.                                                             *)
LEMMA PlaceMoves ==
    ASSUME ReviewInv, SchedulerStep, NEW s \in Sides
    PROVE  /\ AtRest(s) => InRound(s, TRUE, TRUE)' \/ InRound(s, TRUE, FALSE)'
           /\ InRound(s, TRUE, TRUE) => InRound(s, TRUE, FALSE)' \/ reviews'[s].stage = "open"
           /\ InRound(s, TRUE, FALSE) => reviews'[s].stage = "open"
           /\ InRound(s, FALSE, TRUE) => InRound(s, FALSE, FALSE)'
           /\ InRound(s, FALSE, FALSE) => AtRest(s)'
<1> DEFINE p == Scheduler
           o == Other(s)
<1>1. /\ pc \in [Procs -> Labels] /\ loc \in [Procs -> Local] /\ p \in Procs
      /\ reviews \in [Sides -> Row] /\ NoLocal.due = [t \in Sides |-> NoRow]
      /\ loc[p].due \in [Sides -> Row]
  BY NoLocalType DEF ReviewInv, TypeOK, Procs, Local
<1>2. o \in Sides /\ o # s /\ Sides = {s, o}
  BY OtherSide, TwoSides
<1>3. CASE PublishDueReviews
  <2> DEFINE due == [t \in Sides |-> IF t \in DueReviews THEN reviews[t] ELSE NoRow]
             l == [NoLocal EXCEPT !.due = due]
  <2>1. l.due = due
    BY NoLocalType DEF Local
  <2>2. pc[p] = "idle" /\ pc'[p] = "openDue" /\ loc'[p] = l /\ UNCHANGED <<reviews, aged>>
    BY <1>1, <1>3 DEF PublishDueReviews, Goto
  <2>3. Waits(s) => due[s] # NoRow
    BY DEF Waits, DueReviews, NoRow
  <2>4. loc'[p].due[s] = due[s] /\ loc'[p].due[o] = due[o]
    BY <2>1, <2>2
  <2>5. AtRest(s) => InRound(s, TRUE, TRUE)' \/ InRound(s, TRUE, FALSE)'
    BY <2>2, <2>3, <2>4 DEF AtRest, InRound, Waits
  <2>6. QED
    BY <2>2, <2>5 DEF InRound
<1>4. CASE OpenDue
  <2> DEFINE due == loc[p].due
  <2>1. pc[p] = "openDue" /\ UNCHANGED aged
    BY <1>4 DEF OpenDue
  <2>2. CASE due = NoLocal.due /\ Return(p) /\ UNCHANGED reviews
    <3>1. due[s] = NoRow /\ due[o] = NoRow /\ pc'[p] = "idle"
      BY <1>1, <1>2, <2>2 DEF Return, Goto
    <3>2. QED
      BY <2>1, <2>2, <3>1 DEF AtRest, InRound, Waits
  <2>3. ASSUME NEW t \in Sides, due[t] # NoRow, UpdateReview(t, Opened(due[t])),
               Goto(p, "openDue", [NoLocal EXCEPT !.due = [due EXCEPT ![t] = NoRow]])
        PROVE  /\ AtRest(s) => InRound(s, TRUE, TRUE)' \/ InRound(s, TRUE, FALSE)'
               /\ InRound(s, TRUE, TRUE)
                    => InRound(s, TRUE, FALSE)' \/ reviews'[s].stage = "open"
               /\ InRound(s, TRUE, FALSE) => reviews'[s].stage = "open"
               /\ InRound(s, FALSE, TRUE) => InRound(s, FALSE, FALSE)'
               /\ InRound(s, FALSE, FALSE) => AtRest(s)'
    <3> DEFINE rest == [due EXCEPT ![t] = NoRow]
               l == [NoLocal EXCEPT !.due = rest]
    <3>1. l.due = rest
      BY NoLocalType DEF Local
    <3>2. pc'[p] = "openDue" /\ loc'[p] = l
      BY <1>1, <2>3 DEF Goto
    <3>3. CASE t = s
      <4>1. reviews'[s].stage = "open"
        BY <1>1, <2>3, <3>3 DEF UpdateReview, Opened, Row
      <4>2. QED
        BY <2>1, <2>3, <3>3, <4>1 DEF AtRest, InRound
    <3>4. CASE t = o
      <4>1. reviews'[s] = reviews[s]
        BY <1>1, <1>2, <2>3, <3>4 DEF UpdateReview
      <4>2. loc'[p].due[s] = due[s] /\ loc'[p].due[o] = NoRow
        BY <1>1, <1>2, <3>1, <3>2, <3>4
      <4>3. QED
        BY <2>1, <2>3, <3>2, <3>4, <4>1, <4>2 DEF AtRest, InRound, Waits
    <3>5. QED
      BY <1>2, <3>3, <3>4
  <2>4. QED
    BY <1>4, <2>2, <2>3 DEF OpenDue
<1>5. QED
  BY <1>3, <1>4 DEF SchedulerStep

(***************************************************************************)
(* The review of one side opens in the end: whatever round is on its way   *)
(* without it ends, the next one lists it, and nobody can take it off that *)
(* list but by opening it.                                                 *)
(***************************************************************************)
THEOREM HiddenReviewOpens ==
    ASSUME NEW s \in Sides PROVE FairFor(s) => OpensInTheEnd(s)
<1> DEFINE Absent == reviews[s].stage = "absent"
           Open == reviews[s].stage = "open"
           R0 == AtRest(s)
           R1 == InRound(s, TRUE, TRUE)
           R2 == InRound(s, TRUE, FALSE)
           R3 == InRound(s, FALSE, TRUE)
           R4 == InRound(s, FALSE, FALSE)
           Y == Young(s)
           W == Waits(s)
<1>1. ASSUME ReviewInv, SchedulerAt
      PROVE  /\ Absent \/ Open \/ Y \/ W
             /\ W <=> R0 \/ R1 \/ R2 \/ R3 \/ R4
             /\ ~(Y /\ W) /\ ~(Absent /\ Open)
  <2>1. reviews[s] \in Row
    BY <1>1 DEF ReviewInv, TypeOK
  <2>2. QED
    BY <1>1, <2>1 DEF Row, Young, Waits, AtRest, InRound, SchedulerAt
<1>2. ASSUME ReviewInv, [Next]_vars
      PROVE  (Open => Open') /\ (Y => Y' \/ W' \/ Open') /\ (W => W' \/ Open')
  <2>1. StagesGrow /\ reviews'[s] \in Row
    BY <1>2, StagesNeverShrink, NextReviewInv DEF ReviewInv, TypeOK
  <2>2. QED
    BY <2>1 DEF StagesGrow, Row, Young, Waits
<1>3. ASSUME Y, <<WeekPasses(s)>>_vars PROVE W'
  BY <1>3 DEF Young, Waits, WeekPasses
<1>4. ASSUME ReviewInv, [Next]_vars, [~Fail(Scheduler)]_vars
      PROVE  /\ R0 => R0' \/ R1' \/ R2' \/ Open'
             /\ R1 => R1' \/ R2' \/ Open'
             /\ R2 => R2' \/ Open'
             /\ R3 => R3' \/ R4' \/ Open'
             /\ R4 => R4' \/ R0' \/ Open'
  <2>1. CASE SchedulerStep
    BY <1>4, <2>1, PlaceMoves
  <2>2. CASE ~SchedulerStep /\ ~Fail(Scheduler)
    BY <1>4, <2>2, PlaceStays
  <2>3. CASE UNCHANGED vars
    BY <2>3 DEF vars, AtRest, InRound, Waits
  <2>4. QED
    BY <1>4, <2>1, <2>2, <2>3
<1>5. ASSUME ReviewInv, <<SchedulerStep>>_vars
      PROVE  /\ R0 => R1' \/ R2'
             /\ R1 => R2' \/ Open'
             /\ R2 => Open'
             /\ R3 => R4'
             /\ R4 => R0'
  BY <1>5, PlaceMoves
<1>6. RoundIsPossible(s) => (W => ENABLED <<SchedulerStep>>_vars)
  BY DEF RoundIsPossible
<1>7. WeekIsPossible(s) => (Y => ENABLED <<WeekPasses(s)>>_vars)
  BY DEF WeekIsPossible
<1> HIDE DEF R0, R1, R2, R3, R4, Y, W
<1>8. Open <=> reviews[s].stage = "open"
  OBVIOUS
<1>9. reviews[s].stage # "absent" <=> ~Absent
  OBVIOUS
<1> HIDE DEF Open, Absent
<1>10. Spec /\ WeeksPass(s) /\ []WeekIsPossible(s) => (Y ~> W \/ Open)
  BY <1>1, <1>2, <1>3, <1>7, ReviewsInductive, SchedulerPlace, PTL DEF Spec, WeeksPass
<1>11. Spec /\ RoundsGoOn /\ RoundsRecover /\ []RoundIsPossible(s) => (W ~> Open)
  BY <1>1, <1>2, <1>4, <1>5, <1>6, ReviewsInductive, SchedulerPlace, PTL
     DEF Spec, RoundsGoOn, RoundsRecover
<1>12. QED
  BY <1>1, <1>8, <1>9, <1>10, <1>11, ReviewsInductive, SchedulerPlace, PTL
     DEF FairFor, OpensInTheEnd

(***************************************************************************)
(* Every review opens in the end, whoever wrote first and whatever fails   *)
(* before it: publishDueReviews makes up for a LeaveReview that did not    *)
(* see the other review, or stopped before it opened it.                   *)
(***************************************************************************)
THEOREM NoReviewStaysHidden ==
    /\ FairSpec /\ RoundsRecover
    /\ [](\A s \in Sides : RoundIsPossible(s) /\ WeekIsPossible(s))
    => EveryReviewOpens
<1> DEFINE Possible == \A s \in Sides : RoundIsPossible(s) /\ WeekIsPossible(s)
           H == FairSpec /\ RoundsRecover /\ []Possible
<1>1. ASSUME NEW s \in Sides PROVE H => OpensInTheEnd(s)
  <2>1. Possible => RoundIsPossible(s) /\ WeekIsPossible(s)
    OBVIOUS
  <2>2. FairSpec => Spec /\ RoundsGoOn /\ WeeksPass(s)
    BY DEF FairSpec
  <2>3. FairFor(s) => OpensInTheEnd(s)
    BY HiddenReviewOpens
  <2> HIDE DEF Possible
  <2>4. H => FairFor(s)
    BY <2>1, <2>2, PTL DEF FairFor
  <2>5. QED
    BY <2>3, <2>4
<1> HIDE DEF H
<1>2. H => EveryReviewOpens
  BY <1>1 DEF EveryReviewOpens
<1>3. QED
  BY <1>2 DEF H

=============================================================================
