-------------------------- MODULE Equipment_proofs --------------------------
(***************************************************************************)
(* Proofs about Equipment for every number of requests in flight, every    *)
(* set of categories and every life of the copy.                           *)
(***************************************************************************)
EXTENDS Equipment, TLAPS

-----------------------------------------------------------------------------
(* Facts about the operators.                                              *)

(* The empty card is a card, and a sound one.                              *)
LEMMA NoCardType == NoCard \in Card /\ SoundVersion(NoCard)
BY DEF NoCard, Card, Status, SoundVersion

(* The fields of a request make a card of a card, in the same status and   *)
(* with the same reason.                                                   *)
LEMMA ApplyType ==
    ASSUME NEW c \in Card, NEW filled \in BOOLEAN, NEW docs \in BOOLEAN,
           NEW category \in Categories \cup {NoCategory}
    PROVE  /\ apply(c, filled, docs, category) \in Card
           /\ apply(c, filled, docs, category).status = c.status
           /\ apply(c, filled, docs, category).reason = c.reason
BY DEF apply, Card

(* A request that goes on at a label with a card keeps the types.          *)
LEMMA GotoType ==
    ASSUME TypeOK, NEW p \in Requests, NEW label \in Labels, NEW c \in Card,
           Goto(p, label, c)
    PROVE  /\ pc' \in [Requests -> Labels] /\ copy' \in [Requests -> Card]
           /\ pc'[p] = label /\ copy'[p] = c
           /\ \A q \in Requests \ {p} : pc'[q] = pc[q] /\ copy'[q] = copy[q]
BY DEF Goto, TypeOK

(* So does one that ends.                                                  *)
LEMMA ReturnType ==
    ASSUME TypeOK, NEW p \in Requests, Return(p)
    PROVE  /\ pc' \in [Requests -> Labels] /\ copy' \in [Requests -> Card]
           /\ pc'[p] = "idle" /\ copy'[p] = NoCard
           /\ \A q \in Requests \ {p} : pc'[q] = pc[q] /\ copy'[q] = copy[q]
BY NoCardType, GotoType DEF Return, Labels

-----------------------------------------------------------------------------
(* The steps of the catalog: which copy a request holds after each.        *)

(* A new card is a draft and nothing else.                                 *)
LEMMA CreateStep ==
    ASSUME TypeOK, NEW p \in Requests, NEW filled \in BOOLEAN, NEW docs \in BOOLEAN,
           NEW category \in Categories \cup {NoCategory},
           createEquipment(p, filled, docs, category)
    PROVE  \E c \in Card, label \in {"insert", "findFirst"} :
             c.status = "draft" /\ Goto(p, label, c)
<1> DEFINE c == [apply(NoCard, filled, docs, category) EXCEPT !.there = TRUE]
           label == IF category = NoCategory THEN "insert" ELSE "findFirst"
<1>1. c \in Card /\ c.status = "draft"
  <2>1. /\ apply(NoCard, filled, docs, category) \in Card
        /\ apply(NoCard, filled, docs, category).status = "draft"
    BY NoCardType, ApplyType DEF NoCard
  <2>2. QED
    BY <2>1 DEF Card
<1>2. Goto(p, label, c)
  BY DEF createEquipment
<1>3. QED
  BY <1>1, <1>2

(* An edit takes the row's status and reason, and never a pending row.     *)
LEMMA PatchStep ==
    ASSUME TypeOK, NEW p \in Requests, NEW filled \in BOOLEAN, NEW docs \in BOOLEAN,
           NEW category \in Categories \cup {NoCategory},
           patchEquipment(p, filled, docs, category)
    PROVE  \E c \in Card, label \in {"write", "findCategory"} :
             /\ c.status = card.status /\ c.status # "pending" /\ c.reason = card.reason
             /\ Goto(p, label, c)
<1> DEFINE c == apply(card, filled, docs, category)
<1>1. c \in Card /\ c.status = card.status /\ c.reason = card.reason
  BY ApplyType DEF TypeOK
<1>2. Goto(p, AfterFields(c), c) /\ card.status # "pending"
  BY DEF patchEquipment, CanEdit
<1>3. AfterFields(c) \in {"write", "findCategory"}
  BY DEF AfterFields
<1>4. QED
  BY <1>1, <1>2, <1>3

(* What a step of a handler before its write may do: it leaves the row and the orders service       *)
(* alone, the histories only grow, and the copy it holds is sound; a copy  *)
(* that will be inserted is a draft.                                       *)
Prepares(p) ==
    /\ UNCHANGED <<card, idle, cache, fetch, overdue>>
    /\ passed' \in BOOLEAN /\ approved' \in BOOLEAN
    /\ passed => passed'
    /\ approved => approved'
    /\ \E c \in Card, label \in Labels :
         /\ Goto(p, label, c)
         /\ VersionInv => SoundVersion(c)'
         /\ label \in {"findFirst", "insert"} =>
              \/ c.status = "draft"
              \/ c = copy[p] /\ pc[p] = "findFirst"

(* The fields of the wizard and of an edit.                                *)
LEMMA FieldsStep ==
    ASSUME TypeOK, NEW p \in Requests, Fields(p)
    PROVE  Prepares(p)
<1>1. PICK filled \in BOOLEAN, docs \in BOOLEAN, category \in Categories \cup {NoCategory} :
        \/ createEquipment(p, filled, docs, category)
        \/ patchEquipment(p, filled, docs, category)
  BY DEF Fields
<1>2. UNCHANGED <<card, idle, cache, fetch, overdue, passed, approved>>
  BY <1>1 DEF createEquipment, patchEquipment, outside
<1>3. CASE createEquipment(p, filled, docs, category)
  <2>1. PICK c \in Card, label \in {"insert", "findFirst"} :
          c.status = "draft" /\ Goto(p, label, c)
    BY <1>3, CreateStep
  <2>2. SoundVersion(c)' /\ label \in Labels
    BY <2>1 DEF SoundVersion, Labels
  <2>3. QED
    BY <1>2, <2>1, <2>2 DEF TypeOK, Prepares
<1>4. CASE patchEquipment(p, filled, docs, category)
  <2>1. PICK c \in Card, label \in {"write", "findCategory"} :
           /\ c.status = card.status /\ c.status # "pending" /\ c.reason = card.reason
           /\ Goto(p, label, c)
    BY <1>4, PatchStep
  <2>2. VersionInv => SoundVersion(c)'
    BY <1>2, <2>1 DEF SoundVersion, VersionInv
  <2>3. label \in Labels /\ label \notin {"findFirst", "insert"}
    BY <2>1 DEF Labels
  <2>4. QED
    BY <1>2, <2>1, <2>2, <2>3 DEF TypeOK, Prepares
<1>5. QED
  BY <1>1, <1>3, <1>4

(* The category is found, or the request ends.                             *)
LEMMA FindCategoryStep ==
    ASSUME TypeOK, NEW p \in Requests, NEW found \in BOOLEAN, FindCategory(p, found)
    PROVE  Prepares(p)
<1>1. UNCHANGED <<card, idle, cache, fetch, overdue, passed, approved>>
  BY DEF FindCategory, outside
<1>2. CASE found
  <2> DEFINE label == IF pc[p] = "findFirst" THEN "insert" ELSE "write"
  <2>1. Goto(p, label, copy[p]) /\ copy[p] \in Card /\ label \in Labels
    BY <1>2 DEF FindCategory, TypeOK, Labels
  <2>2. VersionInv => \A c : c = copy[p] => SoundVersion(c)'
    BY <1>1 DEF SoundVersion, VersionInv
  <2>3. label = "insert" => pc[p] = "findFirst"
    OBVIOUS
  <2>4. QED
    BY <1>1, <2>1, <2>2, <2>3 DEF TypeOK, Prepares
<1>3. CASE ~found
  <2>1. Goto(p, "idle", NoCard) /\ "idle" \in Labels
    BY <1>3 DEF FindCategory, Return, Labels
  <2>2. \A c : c = NoCard => SoundVersion(c)'
    BY DEF SoundVersion, NoCard
  <2>3. QED
    BY <1>1, <2>1, <2>2, NoCardType DEF TypeOK, Prepares
<1>4. QED
  BY <1>2, <1>3

(* The owner's and the moderators' handlers.                               *)
LEMMA DecisionStep ==
    ASSUME TypeOK, NEW p \in Requests,
           \/ submitEquipment(p) \/ archiveEquipment(p) \/ approveEquipment(p)
           \/ \E reason \in BOOLEAN : rejectEquipment(p, reason)
    PROVE  Prepares(p)
<1>1. card \in Card /\ "write" \in Labels /\ passed \in BOOLEAN /\ approved \in BOOLEAN
  BY DEF TypeOK, Labels
<1>2. CASE submitEquipment(p)
  <2> DEFINE c == [card EXCEPT !.status = StatusAfterSubmit(card.docs), !.reason = FALSE]
  <2>1. c \in Card /\ Goto(p, "write", c)
    BY <1>1, <1>2 DEF Card, StatusAfterSubmit, Status, submitEquipment
  <2>2. \A d : d = c => SoundVersion(d)'
    BY <1>1, <1>2 DEF Card, StatusAfterSubmit, submitEquipment, SoundVersion, ValidateForPublish
  <2>3. QED
    BY <1>1, <1>2, <2>1, <2>2 DEF submitEquipment, outside, Prepares
<1>3. CASE archiveEquipment(p)
  <2> DEFINE c == [card EXCEPT !.status = "archived"]
  <2>1. c \in Card /\ Goto(p, "write", c)
    BY <1>1, <1>3 DEF Card, Status, archiveEquipment
  <2>2. \A d : d = c => SoundVersion(d)'
    BY <1>1 DEF Card, SoundVersion
  <2>3. QED
    BY <1>1, <1>3, <2>1, <2>2 DEF archiveEquipment, outside, Prepares
<1>4. CASE approveEquipment(p)
  <2> DEFINE c == [card EXCEPT !.status = "verified", !.reason = FALSE]
  <2>1. c \in Card /\ Goto(p, "write", c)
    BY <1>1, <1>4 DEF Card, Status, approveEquipment
  <2>2. VersionInv => \A d : d = c => SoundVersion(d)'
    BY <1>1, <1>4 DEF Card, VersionInv, SoundVersion, approveEquipment, Pending
  <2>3. QED
    BY <1>1, <1>4, <2>1, <2>2 DEF approveEquipment, outside, Prepares
<1>5. CASE \E reason \in BOOLEAN : rejectEquipment(p, reason)
  <2>1. PICK reason \in BOOLEAN : rejectEquipment(p, reason)
    BY <1>5
  <2> DEFINE c == [card EXCEPT !.status = "rejected", !.reason = reason]
  <2>2. c \in Card /\ Goto(p, "write", c)
    BY <1>1, <2>1 DEF Card, Status, rejectEquipment
  <2>3. \A d : d = c => SoundVersion(d)'
    BY <1>1, <2>1 DEF Card, SoundVersion, rejectEquipment, ReasonGiven
  <2>4. QED
    BY <1>1, <2>1, <2>2, <2>3 DEF rejectEquipment, outside, Prepares
<1>6. QED
  BY <1>2, <1>3, <1>4, <1>5

(* Every step of the system is one of these.                               *)
LEMMA StepShapes ==
    ASSUME TypeOK, Next
    PROVE  \/ \E p \in Requests : Prepares(p) \/ CreateEquipment(p) \/ UpdateEquipment(p)
           \/ AskUnit \/ KeepUnit \/ checkUnit \/ LoseUnit \/ Tick
BY FieldsStep, FindCategoryStep, DecisionStep DEF Next

-----------------------------------------------------------------------------
(* Type correctness.                                                       *)

(* The initial state is well typed.                                        *)
LEMMA InitTypeOK == Init => TypeOK
<1> SUFFICES ASSUME Init PROVE TypeOK
  OBVIOUS
<1>1. card \in Card /\ copy \in [Requests -> Card] /\ pc \in [Requests -> Labels]
  BY NoCardType DEF Init, Labels
<1>2. /\ cache \in [there : BOOLEAN, active : BOOLEAN, age : 0..TTL]
      /\ fetch \in [there : BOOLEAN, active : BOOLEAN, age : 0..FetchLimit]
  BY EquipmentTimes DEF Init, NoCopy
<1>3. idle \in 0..(Limit + 1)
  BY EquipmentTimes DEF Init, Limit
<1>4. QED
  BY <1>1, <1>2, <1>3 DEF Init, TypeOK

(* Every step keeps the types.                                             *)
LEMMA NextTypeOK == TypeOK /\ [Next]_vars => TypeOK'
<1> SUFFICES ASSUME TypeOK, [Next]_vars PROVE TypeOK'
  OBVIOUS
<1> USE EquipmentTimes
<1>1. ASSUME NEW p \in Requests, Prepares(p) PROVE TypeOK'
  <2>1. /\ pc' \in [Requests -> Labels] /\ copy' \in [Requests -> Card]
    BY <1>1, GotoType DEF Prepares
  <2>2. QED
    BY <1>1, <2>1 DEF Prepares, TypeOK
<1>2. ASSUME NEW p \in Requests, CreateEquipment(p) PROVE TypeOK'
  <2>1. card' \in Card
    BY <1>2 DEF CreateEquipment, TypeOK
  <2>2. pc' \in [Requests -> Labels] /\ copy' \in [Requests -> Card]
    BY <1>2, ReturnType DEF CreateEquipment
  <2>3. QED
    BY <1>2, <2>1, <2>2 DEF CreateEquipment, TypeOK, outside
<1>3. ASSUME NEW p \in Requests, UpdateEquipment(p) PROVE TypeOK'
  <2>1. card' \in Card /\ idle' \in 0..(Limit + 1)
    BY <1>3 DEF UpdateEquipment, TypeOK, Idle, Limit
  <2>2. pc' \in [Requests -> Labels] /\ copy' \in [Requests -> Card]
    BY <1>3, ReturnType DEF UpdateEquipment
  <2>3. QED
    BY <1>3, <2>1, <2>2 DEF UpdateEquipment, TypeOK, outside
<1>4. CASE AskUnit
  <2>1. fetch' \in [there : BOOLEAN, active : BOOLEAN, age : 0..FetchLimit]
    BY <1>4 DEF AskUnit, Active
  <2>2. QED
    BY <1>4, <2>1 DEF AskUnit, TypeOK
<1>5. CASE KeepUnit
  <2>1. cache' \in [there : BOOLEAN, active : BOOLEAN, age : 0..TTL]
    BY <1>5 DEF KeepUnit, TypeOK
  <2>2. fetch' \in [there : BOOLEAN, active : BOOLEAN, age : 0..FetchLimit]
    BY <1>5 DEF KeepUnit, NoCopy
  <2>3. overdue' \in BOOLEAN
    BY <1>5 DEF KeepUnit
  <2>4. QED
    BY <1>5, <2>1, <2>2, <2>3 DEF KeepUnit, TypeOK
<1>6. CASE checkUnit
  BY <1>6 DEF checkUnit, TypeOK
<1>7. CASE LoseUnit
  <2>1. fetch' \in [there : BOOLEAN, active : BOOLEAN, age : 0..FetchLimit]
    BY <1>7 DEF LoseUnit, NoCopy
  <2>2. QED
    BY <1>7, <2>1 DEF LoseUnit, TypeOK
<1>8. CASE Tick
  <2>1. fetch' \in [there : BOOLEAN, active : BOOLEAN, age : 0..FetchLimit]
    BY <1>8 DEF Tick, TypeOK
  <2>2. cache' \in [there : BOOLEAN, active : BOOLEAN, age : 0..TTL]
    BY <1>8 DEF Tick, TypeOK
  <2>3. idle' \in 0..(Limit + 1)
    BY <1>8 DEF Tick, TypeOK, Limit
  <2>4. QED
    BY <1>8, <2>1, <2>2, <2>3 DEF Tick, TypeOK
<1>9. CASE UNCHANGED vars
  BY <1>9 DEF vars, TypeOK
<1>10. QED
  BY <1>1, <1>2, <1>3, <1>4, <1>5, <1>6, <1>7, <1>8, <1>9, StepShapes

(* The row, the copies in flight and the ages keep their shape.            *)
THEOREM TypeCorrect == Spec => []TypeOK
BY InitTypeOK, NextTypeOK, PTL DEF Spec

-----------------------------------------------------------------------------
(* One version of the card.                                                *)

(* Every step keeps every version sound.                                   *)
LEMMA NextVersionInv == VersionInv /\ [Next]_vars => VersionInv'
<1> SUFFICES ASSUME VersionInv, [Next]_vars PROVE VersionInv'
  OBVIOUS
<1>1. TypeOK /\ TypeOK'
  BY NextTypeOK DEF VersionInv
<1>2. ASSUME NEW p \in Requests, Prepares(p) PROVE VersionInv'
  <2>1. PICK c \in Card, label \in Labels : Goto(p, label, c) /\ SoundVersion(c)'
    BY <1>2 DEF Prepares
  <2>2. copy'[p] = c /\ \A q \in Requests \ {p} : copy'[q] = copy[q]
    BY <1>1, <2>1, GotoType
  <2>3. card' = card /\ (passed => passed') /\ (approved => approved')
    BY <1>2 DEF Prepares
  <2>4. SoundVersion(card)'
    BY <2>3 DEF VersionInv, SoundVersion
  <2>5. ASSUME NEW q \in Requests PROVE SoundVersion(copy[q])'
    BY <2>1, <2>2, <2>3 DEF VersionInv, SoundVersion
  <2>6. QED
    BY <1>1, <2>4, <2>5 DEF VersionInv
<1>3. ASSUME NEW p \in Requests, CreateEquipment(p) \/ UpdateEquipment(p) PROVE VersionInv'
  <2>1. UNCHANGED <<passed, approved>> /\ Return(p) /\ card' \in {card, copy[p]}
    BY <1>3 DEF CreateEquipment, UpdateEquipment
  <2>2. copy'[p] = NoCard /\ \A q \in Requests \ {p} : copy'[q] = copy[q]
    BY <1>1, <2>1, ReturnType
  <2>3. SoundVersion(card)'
    BY <2>1 DEF VersionInv, SoundVersion
  <2>4. ASSUME NEW q \in Requests PROVE SoundVersion(copy[q])'
    <3>1. CASE q = p
      BY <2>2, <3>1 DEF SoundVersion, NoCard
    <3>2. CASE q # p
      BY <2>1, <2>2, <3>2 DEF VersionInv, SoundVersion
    <3>3. QED
      BY <3>1, <3>2
  <2>5. QED
    BY <1>1, <2>3, <2>4 DEF VersionInv
<1>4. CASE UNCHANGED <<card, copy, passed, approved>>
  BY <1>1, <1>4 DEF VersionInv, SoundVersion
<1>5. QED
  BY <1>1, <1>2, <1>3, <1>4, StepShapes
     DEF AskUnit, KeepUnit, checkUnit, LoseUnit, Tick, vars

(* Every version of the card, in the row or about to be written, is one    *)
(* version and has its status by right.                                    *)
THEOREM EveryVersionIsSound == Spec => []VersionInv
<1>1. Init => VersionInv
  BY InitTypeOK DEF Init, VersionInv, SoundVersion, NoCard
<1>2. QED
  BY <1>1, NextVersionInv, PTL DEF Spec

(* Whatever handlers of the owner and of moderators overlap, a pending     *)
(* card can be judged and a rejected one says why.                         *)
THEOREM NoMixedVersion == Spec => []VersionsDoNotMix
<1>1. VersionInv => VersionsDoNotMix
  BY DEF VersionInv, SoundVersion, VersionsDoNotMix, QueueIsComplete, RejectionHasReason, Pending
<1>2. QED
  BY <1>1, EveryVersionIsSound, PTL

(* No late write makes up a badge or publishes a card that never passed.   *)
THEOREM NoInventedBadge == Spec => []BadgeWasReviewed
<1>1. VersionInv => BadgeWasReviewed
  BY DEF VersionInv, SoundVersion, BadgeWasReviewed, Active
<1>2. QED
  BY <1>1, EveryVersionIsSound, PTL

-----------------------------------------------------------------------------
(* How stale the orders service may be.                                    *)

(* A step of the catalog keeps the ages in order: the row is written by    *)
(* UpdateEquipment, which restarts the history, or inserted as a draft.    *)
LEMMA CatalogAgeInv ==
    ASSUME AgeInv, TypeOK', NEW p \in Requests,
           Prepares(p) \/ CreateEquipment(p) \/ UpdateEquipment(p)
    PROVE  AgeInv'
<1> USE EquipmentTimes
<1>1. TypeOK /\ UNCHANGED <<cache, fetch, overdue>>
  BY DEF AgeInv, Prepares, CreateEquipment, UpdateEquipment, outside
<1>2. CASE Prepares(p)
  <2>1. PICK c \in Card, label \in Labels :
          /\ Goto(p, label, c)
          /\ label \in {"findFirst", "insert"} =>
               c.status = "draft" \/ (c = copy[p] /\ pc[p] = "findFirst")
    BY <1>2 DEF Prepares
  <2>2. /\ pc'[p] = label /\ copy'[p] = c
        /\ \A q \in Requests \ {p} : pc'[q] = pc[q] /\ copy'[q] = copy[q]
    BY <1>1, <2>1, GotoType
  <2>3. \A q \in Requests : pc'[q] \in {"findFirst", "insert"} => copy'[q].status = "draft"
    BY <2>1, <2>2 DEF AgeInv
  <2>4. UNCHANGED <<card, idle>>
    BY <1>2 DEF Prepares
  <2>5. QED
    BY <1>1, <2>3, <2>4 DEF AgeInv, Active, Fresh
<1>3. CASE CreateEquipment(p) \/ UpdateEquipment(p)
  <2>1. /\ pc'[p] = "idle"
        /\ \A q \in Requests \ {p} : pc'[q] = pc[q] /\ copy'[q] = copy[q]
    BY <1>1, <1>3, ReturnType DEF CreateEquipment, UpdateEquipment
  <2>2. \A q \in Requests : pc'[q] \in {"findFirst", "insert"} => copy'[q].status = "draft"
    BY <2>1 DEF AgeInv
  <2>3. CASE CreateEquipment(p)
    <3>1. Active(card)' => idle' = 0
      BY <2>3 DEF CreateEquipment, AgeInv, Active
    <3>2. idle' = idle
      BY <2>3 DEF CreateEquipment
    <3>3. QED
      BY <1>1, <2>2, <3>1, <3>2 DEF AgeInv, Fresh
  <2>4. CASE UpdateEquipment(p)
    <3>1. (Active(card)' => idle' = 0) /\ idle' \in {0, idle}
      BY <2>4 DEF UpdateEquipment, AgeInv, Active, Idle
    <3>2. fetch.age \in Nat /\ cache.age \in Nat /\ idle \in Nat
      BY <1>1 DEF TypeOK
    <3>3. /\ fetch'.there /\ fetch'.active => idle' <= fetch'.age
          /\ Fresh' /\ cache'.active => idle' <= cache'.age + FetchLimit
      BY <1>1, <3>1, <3>2 DEF AgeInv, Fresh
    <3>4. QED
      BY <1>1, <2>2, <3>1, <3>3 DEF AgeInv
  <2>5. QED
    BY <1>3, <2>3, <2>4
<1>4. QED
  BY <1>2, <1>3

(* So does a step of the orders service, and time.                         *)
LEMMA NextAgeInv == AgeInv /\ [Next]_vars => AgeInv'
<1> SUFFICES ASSUME AgeInv, [Next]_vars PROVE AgeInv'
  OBVIOUS
<1> USE EquipmentTimes
<1>1. TypeOK /\ TypeOK'
  BY NextTypeOK DEF AgeInv
<1>2. /\ fetch.age \in 0..FetchLimit /\ cache.age \in 0..TTL
      /\ idle \in 0..(Limit + 1) /\ Limit = TTL + FetchLimit
  BY <1>1 DEF TypeOK, Limit
<1>3. CASE AskUnit
  <2>1. fetch'.active => Active(card)
    BY <1>3 DEF AskUnit, Active
  <2>2. fetch'.active => idle' <= fetch'.age
    BY <1>2, <1>3, <2>1 DEF AskUnit, AgeInv
  <2>3. QED
    BY <1>1, <1>3, <2>2 DEF AskUnit, AgeInv, Active, Fresh
<1>4. CASE KeepUnit
  <2>1. fetch.active => idle <= FetchLimit
    BY <1>2, <1>4 DEF KeepUnit, AgeInv
  <2>2. ~overdue'
    <3>1. ~(fetch.active /\ idle > Limit)
      BY <1>2, <2>1
    <3>2. QED
      BY <1>4, <3>1 DEF KeepUnit, AgeInv
  <2>3. Fresh' /\ cache'.active => idle' <= cache'.age + FetchLimit
    BY <1>2, <1>4, <2>1 DEF KeepUnit
  <2>4. ~fetch'.there
    BY <1>4 DEF KeepUnit, NoCopy
  <2>5. QED
    BY <1>1, <1>4, <2>2, <2>3, <2>4 DEF KeepUnit, AgeInv, Active
<1>5. CASE checkUnit
  <2>1. idle <= Limit
    BY <1>2, <1>5 DEF checkUnit, AgeInv, Fresh
  <2>2. ~overdue'
    <3>1. ~(idle > Limit)
      BY <1>2, <2>1
    <3>2. QED
      BY <1>5, <3>1 DEF checkUnit, AgeInv
  <2>3. QED
    BY <1>1, <1>5, <2>2 DEF checkUnit, AgeInv, Active, Fresh
<1>6. CASE LoseUnit
  BY <1>1, <1>6 DEF LoseUnit, NoCopy, AgeInv, Active, Fresh
<1>7. CASE Tick
  <2>1. idle' <= idle + 1 /\ (Active(card)' => idle' = 0)
    BY <1>2, <1>7 DEF Tick, AgeInv, Active
  <2>2. fetch'.there /\ fetch'.active => idle' <= fetch'.age
    <3>1. fetch.there => fetch' = [fetch EXCEPT !.age = @ + 1]
      BY <1>7 DEF Tick
    <3>2. fetch \in [there : BOOLEAN, active : BOOLEAN, age : 0..FetchLimit]
      BY <1>1 DEF TypeOK
    <3>3. fetch.there => /\ fetch'.age = fetch.age + 1
                         /\ fetch'.active => fetch.active
      BY <3>1, <3>2
    <3>4. fetch.there /\ fetch.active => idle <= fetch.age
      BY DEF AgeInv
    <3>5. idle' \in Nat
      BY <1>1 DEF TypeOK
    <3>6. CASE fetch.there
      BY <1>2, <2>1, <3>3, <3>4, <3>5, <3>6
    <3>7. CASE ~fetch.there
      BY <1>7, <3>7 DEF Tick
    <3>8. QED
      BY <3>6, <3>7
  <2>3. Fresh' /\ cache'.active => idle' <= cache'.age + FetchLimit
    <3>1. cache \in [there : BOOLEAN, active : BOOLEAN, age : 0..TTL]
      BY <1>1 DEF TypeOK
    <3>2. Fresh => cache' = [cache EXCEPT !.age = @ + 1]
      BY <1>7 DEF Tick, Fresh
    <3>3. Fresh => cache'.age = cache.age + 1 /\ (cache'.active => cache.active)
      BY <3>1, <3>2
    <3>4. ~Fresh => ~Fresh'
      BY <1>7 DEF Tick, Fresh
    <3>5. idle' \in Nat
      BY <1>1 DEF TypeOK
    <3>6. Fresh /\ cache.active => idle <= cache.age + FetchLimit
      BY DEF AgeInv
    <3>7. CASE Fresh
      BY <1>2, <2>1, <3>3, <3>5, <3>6, <3>7
    <3>8. QED
      BY <3>4, <3>7
  <2>4. QED
    BY <1>1, <1>7, <2>1, <2>2, <2>3 DEF Tick, AgeInv
<1>8. CASE UNCHANGED vars
  BY <1>1, <1>8 DEF vars, AgeInv, Active, Fresh
<1>9. QED
  BY <1>1, <1>3, <1>4, <1>5, <1>6, <1>7, <1>8, StepShapes, CatalogAgeInv

(* An offer that was checked used a machine that was active at most the    *)
(* life of the copy and one request ago, for every life and every limit.   *)
THEOREM StalenessIsBounded == Spec => []StaleUnitIsBounded
<1>1. Init => AgeInv
  BY InitTypeOK, EquipmentTimes DEF Init, AgeInv, NoCard, NoCopy, Active, Fresh
<1>2. AgeInv => StaleUnitIsBounded
  BY DEF AgeInv, StaleUnitIsBounded
<1>3. QED
  BY <1>1, <1>2, NextAgeInv, PTL DEF Spec

=============================================================================
