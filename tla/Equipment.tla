------------------------------ MODULE Equipment ------------------------------
(***************************************************************************)
(* A machine's card in the catalog service: the wizard, the publication,   *)
(* the moderators' queue, and the cached copy with which the orders        *)
(* service checks a unit before an offer or a bid.                         *)
(*                                                                         *)
(* Every handler of the card reads the row, changes the copy and writes    *)
(* the whole row back, so two handlers may each undo what the other wrote. *)
(* The fields are reduced to what the rules look at: whether brand, model, *)
(* year and photos are good enough, whether there are documents, and the   *)
(* category.  A statement that fails leaves the row as it was, which is    *)
(* the request not being made.                                             *)
(***************************************************************************)
EXTENDS Naturals, FiniteSets, TLC

CONSTANTS
    Requests,     \* requests to the catalog that may be in flight together
    Categories,   \* categories of machines, visible or hidden
    NoCategory,   \* the empty category of a new draft
    TTL,          \* units.HTTP keeps a copy this long
    FetchLimit    \* the longest a request to the catalog takes

ASSUME EquipmentTimes == TTL \in Nat \ {0} /\ FetchLimit \in Nat
ASSUME EquipmentSets == NoCategory \notin Categories

Status == {"draft", "pending", "verified", "unverified", "rejected", "archived"}
Card == [there : BOOLEAN, status : Status, filled : BOOLEAN, docs : BOOLEAN,
         reason : BOOLEAN, category : Categories \cup {NoCategory}]
NoCard == [there |-> FALSE, status |-> "draft", filled |-> FALSE, docs |-> FALSE,
           reason |-> FALSE, category |-> NoCategory]

Limit == TTL + FetchLimit
Labels == {"idle", "findCategory", "findFirst", "insert", "write"}

VARIABLES
    card,       \* the row
    pc, copy,   \* next statement and copy of the card, per request
    cache,      \* the copy in the orders service: there, active, age
    fetch,      \* a request for the card under way: started, answer, age
    idle,       \* history: for how long the card has not been active
    passed,     \* history: the card has passed ValidateForPublish
    approved,   \* history: a moderator has approved the card
    overdue     \* history: an offer was let in too long after the card was active

vars == <<card, pc, copy, cache, fetch, idle, passed, approved, overdue>>

(* Active *)
Active(c) == c.there /\ c.status \in {"verified", "unverified"}

NoCopy == [there |-> FALSE, active |-> FALSE, age |-> 0]

(* The row, the copies and the ages have their shape.                      *)
TypeOK ==
    /\ card \in Card /\ copy \in [Requests -> Card]
    /\ pc \in [Requests -> Labels]
    /\ cache \in [there : BOOLEAN, active : BOOLEAN, age : 0..TTL]
    /\ fetch \in [there : BOOLEAN, active : BOOLEAN, age : 0..FetchLimit]
    /\ idle \in 0..(Limit + 1) /\ overdue \in BOOLEAN
    /\ passed \in BOOLEAN /\ approved \in BOOLEAN

Init ==
    /\ card = NoCard
    /\ pc = [p \in Requests |-> "idle"] /\ copy = [p \in Requests |-> NoCard]
    /\ cache = NoCopy /\ fetch = NoCopy
    /\ idle = Limit + 1 /\ overdue = FALSE
    /\ passed = FALSE /\ approved = FALSE

-----------------------------------------------------------------------------
(* The rules of a card.                                                    *)

ValidateForPublish(c) == c.filled /\ c.category # NoCategory

StatusAfterSubmit(hasDocs) == IF hasDocs THEN "pending" ELSE "unverified"

(* Mutant: a card may be changed while a moderator looks at it.            *)
CanEdit_Any(c) == TRUE

CanEdit(c) == c.status # "pending"

(* apply and Normalize: the fields a request names, the others stay.  The  *)
(* request may also empty a field.                                         *)
apply(c, filled, docs, category) ==
    [c EXCEPT !.filled = filled, !.docs = docs, !.category = category]

-----------------------------------------------------------------------------
(* Statements.                                                             *)

Goto(p, label, c) == pc' = [pc EXCEPT ![p] = label] /\ copy' = [copy EXCEPT ![p] = c]
Return(p) == Goto(p, "idle", NoCard)

outside == <<cache, fetch, overdue>>

(* mine: the row as its owner reads it.                                    *)
mine(p) == pc[p] = "idle" /\ card.there

AfterFields(c) == IF c.category = NoCategory THEN "write" ELSE "findCategory"

createEquipment(p, filled, docs, category) ==
    /\ pc[p] = "idle" /\ ~card.there
    /\ LET c == [apply(NoCard, filled, docs, category) EXCEPT !.there = TRUE]
       IN Goto(p, IF category = NoCategory THEN "insert" ELSE "findFirst", c)
    /\ UNCHANGED <<card, idle, passed, approved, outside>>

patchEquipment(p, filled, docs, category) ==
    /\ mine(p) /\ CanEdit(card)
    /\ LET c == apply(card, filled, docs, category) IN Goto(p, AfterFields(c), c)
    /\ UNCHANGED <<card, idle, passed, approved, outside>>

(* ByID finds visible categories only; whether this one is visible now is  *)
(* the subject of Categories.                                              *)
FindCategory(p, found) ==
    /\ pc[p] \in {"findCategory", "findFirst"}
    /\ IF found
       THEN Goto(p, IF pc[p] = "findFirst" THEN "insert" ELSE "write", copy[p])
       ELSE Return(p)
    /\ UNCHANGED <<card, idle, passed, approved, outside>>

submitEquipment(p) ==
    /\ mine(p) /\ card.status # "pending"
    /\ ValidateForPublish(card)
    /\ Goto(p, "write", [card EXCEPT !.status = StatusAfterSubmit(card.docs),
                                     !.reason = FALSE])
    /\ passed' = TRUE
    /\ UNCHANGED <<card, idle, approved, outside>>

archiveEquipment(p) ==
    /\ mine(p)
    /\ Goto(p, "write", [card EXCEPT !.status = "archived"])
    /\ UNCHANGED <<card, idle, passed, approved, outside>>

(* Mutant: a moderator may decide about any card.                          *)
Pending_Any(c) == c.there

(* pending *)
Pending(c) == c.there /\ c.status = "pending"

approveEquipment(p) ==
    /\ pc[p] = "idle" /\ Pending(card)
    /\ Goto(p, "write", [card EXCEPT !.status = "verified", !.reason = FALSE])
    /\ approved' = TRUE
    /\ UNCHANGED <<card, idle, passed, outside>>

(* Mutant: a reason is not asked for.                                      *)
ReasonGiven_Any(reason) == TRUE

ReasonGiven(reason) == reason

rejectEquipment(p, reason) ==
    /\ pc[p] = "idle" /\ Pending(card)
    /\ ReasonGiven(reason)
    /\ Goto(p, "write", [card EXCEPT !.status = "rejected", !.reason = reason])
    /\ UNCHANGED <<card, idle, passed, approved, outside>>

Idle(c) == IF Active(c) THEN 0 ELSE IF Active(card) THEN 0 ELSE idle

(* INSERT; another request may have made a card of its own, which is then  *)
(* another machine.                                                        *)
CreateEquipment(p) ==
    /\ pc[p] = "insert"
    /\ card' = IF card.there THEN card ELSE copy[p]
    /\ Return(p)
    /\ UNCHANGED <<idle, passed, approved, outside>>

(* UPDATE of every column, by id.                                          *)
UpdateEquipment(p) ==
    /\ pc[p] = "write"
    /\ card' = copy[p] /\ idle' = Idle(copy[p])
    /\ Return(p)
    /\ UNCHANGED <<passed, approved, outside>>

-----------------------------------------------------------------------------
(* The orders service.                                                     *)

(* Mutant: the age of the copy is not looked at.                           *)
Fresh_Always == cache.there

Fresh == cache.there /\ cache.age < TTL

(* internalEquipment answers what the row says now.                        *)
AskUnit ==
    /\ ~Fresh /\ ~fetch.there /\ card.there
    /\ fetch' = [there |-> TRUE, active |-> Active(card), age |-> 0]
    /\ UNCHANGED <<card, pc, copy, cache, idle, passed, approved, overdue>>

(* The answer is remembered with the time it came.                         *)
KeepUnit ==
    /\ fetch.there
    /\ cache' = [there |-> TRUE, active |-> fetch.active, age |-> 0]
    /\ fetch' = NoCopy
    /\ overdue' = (overdue \/ (fetch.active /\ idle > Limit))
    /\ UNCHANGED <<card, pc, copy, idle, passed, approved>>

(* checkUnit with the copy: an offer or a bid of the owner is let in.      *)
checkUnit ==
    /\ Fresh /\ cache.active
    /\ overdue' = (overdue \/ idle > Limit)
    /\ UNCHANGED <<card, pc, copy, cache, fetch, idle, passed, approved>>

(* The catalog does not answer: the offer is let in without a check.       *)
LoseUnit ==
    /\ fetch.there
    /\ fetch' = NoCopy
    /\ UNCHANGED <<card, pc, copy, cache, idle, passed, approved, overdue>>

Tick ==
    /\ fetch.there => fetch.age < FetchLimit
    /\ fetch' = IF fetch.there THEN [fetch EXCEPT !.age = @ + 1] ELSE fetch
    /\ cache' = IF ~cache.there THEN cache
                ELSE IF cache.age < TTL THEN [cache EXCEPT !.age = @ + 1] ELSE cache
    /\ idle' = IF Active(card) \/ idle > Limit THEN idle ELSE idle + 1
    /\ UNCHANGED <<card, pc, copy, passed, approved, overdue>>

-----------------------------------------------------------------------------
Fields(p) ==
    \E filled, docs \in BOOLEAN, category \in Categories \cup {NoCategory} :
        \/ createEquipment(p, filled, docs, category)
        \/ patchEquipment(p, filled, docs, category)

Next ==
    \/ \E p \in Requests :
         \/ Fields(p) \/ \E found \in BOOLEAN : FindCategory(p, found)
         \/ submitEquipment(p) \/ archiveEquipment(p) \/ approveEquipment(p)
         \/ \E reason \in BOOLEAN : rejectEquipment(p, reason)
         \/ CreateEquipment(p) \/ UpdateEquipment(p)
    \/ AskUnit \/ KeepUnit \/ checkUnit \/ LoseUnit
    \/ Tick

Spec == Init /\ [][Next]_vars

-----------------------------------------------------------------------------
(***************************************************************************)
(* What lies in the moderators' queue can be judged: whatever handlers     *)
(* overlapped, a pending card is complete and has documents.  It holds     *)
(* because a row is written whole and no pending copy is ever edited.      *)
(***************************************************************************)
QueueIsComplete == Pending(card) => ValidateForPublish(card) /\ card.docs

(***************************************************************************)
(* A rejected card says why, until it is submitted again: no handler       *)
(* writes the reason of one copy and the status of another.                *)
(***************************************************************************)
RejectionHasReason == card.there /\ card.status = "rejected" => card.reason

(***************************************************************************)
(* The handlers of owner and moderator undo each other's versions of the   *)
(* card and never mix two: the queue can be judged, a rejection says why.  *)
(***************************************************************************)
VersionsDoNotMix == QueueIsComplete /\ RejectionHasReason

(***************************************************************************)
(* The badge was given by a moderator and what the public sees was once    *)
(* complete; a late write may bring an old status back but never invents   *)
(* one.                                                                    *)
(***************************************************************************)
BadgeWasReviewed ==
    /\ card.status = "verified" => approved
    /\ Active(card) => passed

(***************************************************************************)
(* An offer that was checked used a machine that is active or was so at    *)
(* most the life of the copy and the time of one request ago.              *)
(***************************************************************************)
StaleUnitIsBounded == ~overdue

-----------------------------------------------------------------------------
(* The inductive invariants of the proofs.                                 *)

(* What every version of the card has in common, in the row or on its way: *)
(* it is one version, and its status was come by.                          *)
SoundVersion(c) ==
    /\ c.status = "pending" => ValidateForPublish(c) /\ c.docs
    /\ c.status = "rejected" => c.reason
    /\ c.status = "verified" => approved
    /\ c.status \in {"pending", "verified", "unverified"} => passed

VersionInv ==
    /\ TypeOK
    /\ SoundVersion(card)
    /\ \A p \in Requests : SoundVersion(copy[p])

(* How far a copy in the orders service is behind the row: an answer on    *)
(* its way by its own age, a kept one by its age and the longest request.  *)
AgeInv ==
    /\ TypeOK
    /\ \A p \in Requests : pc[p] \in {"findFirst", "insert"} => copy[p].status = "draft"
    /\ Active(card) => idle = 0
    /\ fetch.there /\ fetch.active => idle <= fetch.age
    /\ Fresh /\ cache.active => idle <= cache.age + FetchLimit
    /\ ~overdue

=============================================================================
