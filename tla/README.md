# Traktor: a TLA+ model of the marketplace's services

Traktor is a marketplace on which customers hire heavy equipment with its operator. A
customer publishes a job at a fixed price or as a reverse auction, executors make offers or
bid, the customer chooses one, the two make a deal and carry it out, a moderator settles
disputes, and in the end both sides review each other. This directory specifies what the Go
services under `src/services` do, and checks and proves what makes it correct.

Paths without a service are relative to `src/services/orders/internal/`; a path that begins
with another service is relative to `src/services/`. TZ is `src/docs/TZ-Traktor-v1.md`.

## 1. The system

| Part | State | Operations | Interacts with | What is hard |
|---|---|---|---|---|
| orders: jobs (`service/orders.go`, `job/job.go`) | row of `orders.jobs`: status, mode, price, auction terms, deadlines, recommended bid | CreateDraft, UpdateDraft, Publish, Cancel, View | every other part of orders writes the job's status | Cancel knows nothing of the deal; `Update` writes every column of a copy |
| orders: offers (`service/offers.go`) | one live offer per executor (unique index), counter price | MakeOffer, WithdrawOffer, DeclineOffer, CounterOffer, AcceptOffer | AcceptOffer moves the job, ConfirmDeal reads the accepted offer | one counter round, exactly one winner |
| orders: auction (`service/bids.go`, `bids_accept.go`, `job/bid.go`) | one active bid per executor (unique index), end, decision deadline | PlaceBid, WithdrawBid, FinishAuction, AcceptBid, DeclineAllBids, ExpireDecision | scheduler, ConfirmDeal | deadlines against late requests, prolongation, scoring with a reserve |
| orders: deals (`service/deals.go`, `job/deal.go`) | one deal per job (unique index): status, timeline, acceptance deadline | ConfirmDeal, AdvanceDeal, CancelDeal | writes the job after the deal | two rows without a transaction, lost updates |
| orders: disputes (`service/disputes.go`) | one open dispute per deal (unique index) | OpenDispute, ResolveDispute | parks the deal, ends it by verdict | opened in several statuses, races auto-acceptance |
| orders: scheduler (`service/scheduler.go`, `DueJobs`) | none; a pass at start and then every minute | RunOnce: publishDueReviews, FinishAuction, ExpireDecision, autoAccept | all of the above | must find everything that is due, overlaps with requests |
| orders: complaints | one open complaint per author and target | Complain, ReviewComplaint | may cancel the job | cancels over a running deal |
| orders: reviews (`service/reviews.go`) | one review per deal and author, publication, reply | LeaveReview, ReplyToReview, publishDueReviews | deal and dispute statuses, scheduler | blind reviews published in pairs by two writes |
| orders: chats (`service/chats.go`) | chat per job and executor, kind, messages | OpenChat, SendMessage, Messages | kind follows the deal; notifications | stale kind, masking before the deal |
| orders: idempotency | key -> job | Idempotent, RememberIdempotent | draft and publish routes | check, act, remember |
| orders: calendar, CRM, statistics | busy days | single-row writes, aggregates | - | nothing |
| identity: sign-in and sessions (`identity/internal/service/auth.go`) | users, one-time codes, refresh tokens | StartOTP, VerifyOTP, Refresh, UpdateProfile | gateway (signed tokens), all services (headers) | rotation of tokens, attempts, lifetimes |
| identity: sanctions, verification, deletion (`moderation.go`, `verification.go`, `deletion.go`) | status, badge and applications, deferred deletion | SetStatus, SubmitVerification, ReviewVerification, RequestDeletion, CancelDeletion, RunDeletions | sessions | ban, verdict and erasure against running requests |
| catalog: equipment (`catalog/internal/httpapi/equipment.go`, `moderation.go`) | card: fields, status, reason | draft, edit, submit, archive, approve, reject | orders asks whether a unit is usable and caches the answer | owner and moderator write the same row |
| catalog: categories (`categories_edit.go`, `catalog/category.go`) | tree of categories | create, move, hide, show, list | cards, jobs | check and write are separate; circles |
| notifications (`notifications/internal/service`) | feed, devices, preferences | Notify, RegisterDevice, UnregisterDevice, MarkRead, SavePrefs | called by all services, best effort; push provider | lost calls, dead tokens, quiet hours over midnight |
| gateway (`gateway/cmd/gateway`, `internal/jwks`, `internal/middleware`) | cache of public keys | token check, public paths, headers, proxying | all | key change, stale claims |
| media, mobile app, Dart packages, infrastructure | - | - | - | no rules of their own |

Every handler of every service is a sequence of SQL statements **without a transaction**. Requests
run concurrently, and the scheduler of orders and the deletion worker of identity run beside
them. Rows are read, changed in memory and written back by id, nearly always without a
condition; the unique indexes are enforced by the database. This is why the model has two levels:

* **whole handlers** (`OrderLifecycle`): what the rules guarantee when requests on one job do
  not overlap;
* **single statements** (all other modules but `Access`, whose subject is time): what remains
  when they do.

## 2. Modules

| Module | Content |
|---|---|
| `Workflow` | Status sets and rules as pure operators: `Allowed`/`CanTransition`, `CanAdvance`, `CanOpenDispute`, `JobStatusForDeal`. Shared by the modules about orders. |
| `OrderLifecycle` | One job with its offers, bids, deal, dispute, complaints, timers and the scheduler; one action per handler. |
| `DealRaces` | One deal from deal_pending on, statement by statement. |
| `AuctionRaces` | One auction until the choice, statement by statement. |
| `BlindReviews` | Abstract: what the marketplace promises about the two reviews of a deal. |
| `Reviews` | The reviews of one deal, statement by statement; implements `BlindReviews` (`Blind == INSTANCE BlindReviews WITH stage <- ...`). |
| `Chats` | The conversations about one job, statement by statement. |
| `Notifications` | A call of the notifications service, statement by statement, with devices and settings. |
| `Messaging` | `Chats` and `Notifications` composed: the announcement of a message is a call that may be lost. |
| `Accounts` | One telephone number in identity: sign-in, sessions, sanctions, badge, deletion, statement by statement. |
| `Access` | Codes and tokens with their lifetimes, the gateway's key cache, and the guards of the services, composed. |
| `Equipment` | One card of a machine, its moderation, and the copy the orders service checks. |
| `Categories` | The directory while moderators edit it, and the tree that is read. |
| `MC...` | Instances for TLC: auction terms, hours, symmetry sets. |
| `OrderLifecycle_proofs`, `DealRaces_proofs`, `AuctionRaces_proofs`, `Reviews_proofs`, `Messaging_proofs`, `Accounts_proofs`, `Equipment_proofs` | Theorems about the module of the name and their proofs. |
| `AccessCategories_proofs` | The same for `Access` and for `Categories`, two small modules that share no name; this is why the specification of `Access` is called `AccessSpec`. |

### Correspondence with the code

*OrderLifecycle.* `job`, `offers`, `bids`, `deal`, `dispute` and `complaints` are the rows of
the tables; of an executor's offers and bids the latest is kept, because the service reads no
other (`MyOfferForJob`, `MyBidForJob` and the indexes). An action has the name of its handler,
the conjuncts before the primed variables are its checks in the order of the code, and all
writes of the handler belong to it: AcceptOffer declines the other offers and moves the job,
AdvanceDeal writes timeline, deadline and the job's status. The wizard's many fields are
reduced to mode, budget and auction terms, which decide what happens later, and to one flag
`filled` for everything else that ValidateForPublish asks. The score of a bid is its price:
FinishAuction passes rating 0 and unknown distance for every bid, so the order of `Score` is
the order of prices among the bids that respect the reserve. A deadline is the time that is
left: the code compares deadlines with the clock only through differences. Jobs share no
state, so one job is enough.

*DealRaces.* `pc` says which statement a request executes next and `loc` holds the row it is
about to write. AdvanceDeal reads and checks (`AdvanceDeal`), then writes the deal
(`WriteDeal`), then the job (`WriteJob`). OpenDispute inserts the dispute in between,
ResolveDispute writes the dispute first and re-reads the deal. `autoAccept` reads the deal,
checks it and lets AdvanceDeal read it again. `Fail` ends a request before its next statement.

*AuctionRaces.* Bids are numbered in the order of `created_at`, which PlaceBid takes at its
start. PlaceBid reads the job, the best bid and the executor's own bid, withdraws the own bid,
inserts the new one and, near the end, writes its copy of the job with the new end. The four
handlers that end the auction share one shape: read the job, read the bids, write the bids one
by one, write the job. A failing statement ends the request (`Fail`), except where the handler
drops the error and goes on (`IgnoreError`): PlaceBid then has no price to beat or no bid to
withdraw, ExpireDecision no bids to close or one that it leaves as it was.

*Reviews.* The reply, the publication and the stage of a review are the columns that
`UpdateReview` writes from a copy. LeaveReview is five statements: the deal, the latest dispute,
the reviews, the insert, the publication of the other review. The refinement mapping forgets
copies, replies and disputes and keeps the stage of each review; a stale publication is then a
stutter or an `Open` step. `barred` is a history variable: the requests that came during a
dispute which still goes on. Disputes are numbered in the order of `created_at`, which OpenDispute
takes at its start (`asked`), so a dispute may be inserted after one with a higher number; the
query for the latest one goes by the number. When that query fails LeaveReview goes on
(`CheckFails`), as its condition asks for `err == nil`; every other failure ends the request.

*Chats, Notifications, Messaging.* `cpc`/`cloc` and `notes` are the requests of the two
services. A text is with or without contacts; `MaskContacts` is decided on the kind of the copy,
as in the code. `SendNotice` is the only joint step: the request to `/internal/notify` arrives,
with the kind that `kindOf` derives from the route. `lost` (a failure stopped the announcement),
`muted` (the settings have forbidden this push all the time) and `foreign` (who holds the
telephone) are history variables that the properties need. The `kind` "outbid", which breaks
quiet hours, is accepted by the endpoint and sent by no handler of orders: `notifyOutbid` gives a
route from which `kindOf` makes "job". The instance sends it all the same, because the rule is
there.

*Accounts.* One number, its account, its tokens and applications; `pc`/`loc` as in the racing
modules. The journal of moderators is a step without content. `heirs`, `barred` and `earned` are
histories. `Init` has a number that is new or one with an account from before it was put on the
list of moderators.

*Access.* Ages instead of times. Identity reads the account and signs in two steps, so a sanction
may come between; the request takes at most `Deadline`. The route "bid" stands for
`POST /v1/jobs/{id}/bids`, whose path is also the public list. `Guarded` collects what the
routers of orders and identity put before the handlers. `Lookup` is keyfunc: a key with the
token's kid is taken from the cache; otherwise the set is fetched, and when identity does not
answer (`up` is false) the token is refused and the cache stays as it is. `KidPerKey` says whether
`JWT_KID` is changed together with the key; its default is one constant.

*Equipment.* A handler reads the row (`mine`, `Pending`), may look for the category, and writes
every column. `cache` and `fetch` are the copy and the request of `units.HTTP`; its age begins
when the answer arrives, which is why the bound is `TTL + FetchLimit`. `idle`, `passed`,
`approved` and `overdue` are histories.

*Categories.* A category is its slug. `List` and `BuildTree` are pure operators over the rows,
`Above` is the reference definition against which the tree is checked.

## 3. Runs

### Properties

| Run | Instance | Shows |
|---|---|---|
| `OrderSafety` | 3 executors, prices 2-5 around a budget of 4, two kinds of auction terms, 1.3 million states | exactly one executor is chosen (`WinnerSettled`); the deal keeps his price (`DealHonoursWinner`); bids form a strict ranking (`DistinctActivePrices`); the recommendation is the cheapest admissible bid (`RecommendedIsCheapest`); job and deal agree except for a job cancelled over its deal (`JobDealAgreement`); while a dispute is open neither the executor nor the scheduler moves the deal, only the verdict and the customer do (`DisputeHoldsDeal`); a closed deal never changes (`DealClosedIsFinal`); an ended job never comes back (`ClosedJobStaysClosed`) |
| `OrderLiveness` | 2 executors, fair time and scheduler | overdue auctions, decisions and acceptances all end |
| `DealRacesSafety` | 2 requests and the scheduler, failures anywhere, 1 dispute, 3.6 million states | `TimelineIsLegal`: lost updates lose whole steps, they never mix two stories; `JobNeverAhead`: the job shows only what the deal has been, even when a handler is cut off |
| `DealRacesLiveness` | 1 request and the scheduler, fairness | finished work never waits for ever when the parties' requests do not overlap |
| `AuctionRacesSafety` | 2 requests of one executor and the scheduler, failures anywhere, swallowed errors, 1.7 million states | `DoubleTapIsOneBid`: one standing price per executor, whatever overlaps or fails; `ExtensionsArePaid`: only bids on file prolong the auction |
| `AuctionRacesLiveness` | 2 executors, 1 request and the scheduler, fairness | `AuctionSettles`: stale writes may reopen the auction, the scheduler closes it again, and in the end it stays closed |
| `Reviews` | 2 requests and the scheduler, 2 disputes, 1 failure, fairness, 1.1 million states | `KeepsReviewsBlind`: the refinement, that is, a review opens only with its pair or after a week and never hides again, whatever copies are written; `FreezeHasTwoGaps`: whoever comes during a dispute waits until it is settled, unless the query failed or the open dispute was inserted after a later one; `RepliesAreOpen`; `EveryReviewOpens`, also after the two sides missed each other or a request stopped half way |
| `MessagingSafety` | 2 executors, 2 chat requests, 2 messages and another event, 1 telephone, a day of 4 hours, 4 acts, 2.7 million states | `NoContactBeforeDeal`; `FeedIsTheRecord`: a stored message is in the feed of the right person unless a failure stopped it, and nobody is rung for what is not there; `RestIsRespected`: quiet hours and switched-off groups against a reference definition; `RingsForItsUser`: nobody is rung on a telephone he had left when the call came |
| `AccountsSafety` | 2 requests and the deletion worker, failures anywhere, 1 account, 0.8 million states | `OneSuccessor`: a refresh token is exchanged once; `BarredGetNothing`: whoever was banned or erased when he came gets no session; `ErasedForGood`; `BadgeWasEarned` |
| `AccessSafety` | one person, 2 keys, 0.1 million states | `SanctionTakesHold`: a sanction is felt everywhere after one token's lifetime and one request, a ban also on the realtime ticket one ticket later; `GuestChangesNothing` |
| `EquipmentSafety` | 2 requests, 1 category, 3.7 million states | `VersionsDoNotMix`, `BadgeWasReviewed`: stale rows bring old versions back and never mix two, so the queue can be judged, a rejection says why and a badge was given; `StaleUnitIsBounded`: how old the knowledge of a machine can be |
| `CategoriesSafety` | 2 requests, 3 categories | `SameBranch`, `TreeShowsTheRest` |

Every property of these runs has a mutant of the code in its module (the definitions named
`X_...`): with the mutant in the place of the mapped definition TLC refutes the property in the same
instance.

### What the code does that its comments do not say

These were found by stating the sentence as a property, which TLC refuted, or are states the
runs above reach. They are why some properties are as weak as they are. Three of them were written
as invariants of the instances above, and each is refuted in a few steps:

* `account.status = "banned" => \A route \in Mutating : ~Able(route)` (`AccessSafety`): sign in, be
  banned, and every change is still served.
* `Parse(access) => Verify(access, TRUE)` (`AccessSafety` with `KidPerKey = FALSE`): the gateway holds
  the first key, identity is started with the second, and a token signed with it is refused although
  identity answers. With `KidPerKey = TRUE` the formula is true by the definition of `Lookup`, which is
  why no run checks it.
* `\A p \in barred : ~PastFreeze(p)` (`Reviews`, also with `MaxFaults = 0`): two OpenDispute overlap,
  the later one is inserted and settled, then the earlier one is inserted; it is open and not the
  latest, and a review goes through.

| Code | What happens | What is said |
|---|---|---|
| `service/orders.go:223` | Cancel leaves the deal of a cancelled job running; its next step revives the job | `job/deal.go:130`: «Задание и сделка не должны расходиться» |
| `job/bid.go:113` | after an early finish the recommended bid can be withdrawn while the customer decides | `service/bids.go:134`: «За два часа до финиша уже нельзя» |
| `service/offers.go:212` | the customer accepts his own counter price before the executor has answered | `service/offers.go:211`: «Если исполнитель согласился на встречную цену» |
| `identity/internal/service/moderation.go:93` | a banned person makes changes until the access token expires: only refresh tokens are revoked. `SanctionTakesHold` is the bound that is kept | `moderation.go:91`: «Бан обрывает активные сессии: иначе забаненный работает ещё 15 минут, до истечения access-токена» |
| `gateway/internal/jwks/jwks.go:79` | a key changed under the same kid is not noticed: new tokens are refused, old ones accepted, until the background refresh; the default of `JWT_KID` is one kid for all keys | `jwks.go:81`: «просим свежий набор»; `identity/internal/config/config.go:46`: «все выданные токены станут недействительными» |
| `service/reviews.go:26` | a review is stored during a dispute that is not the latest by created_at, or when the query for it fails: `FreezeHasTwoGaps` | `service/reviews.go:24`: «На время разбора оценки заморожены» |
| `job/deal.go:100` | while the moderator deliberates the customer may complete or cancel the disputed deal; the verdict is then recorded and changes nothing | `service/disputes.go:50` rules out automatic closing only |
| `service/scheduler.go:107` | auto-acceptance completes a deal over a dispute opened after its read | `service/disputes.go:51`: «не уходит в автоприёмку, пока идёт разбор» |
| `service/bids.go:254` | FinishAuction writes a stale copy over a bid that was decided meanwhile | `service/bids.go:195`: «Повторный вызов безопасен» |
| `service/bids.go:106` | a prolongation writes a stale job over its cancellation | TZ:318: all transitions check the current status |
| `service/reviews.go:69` | publishing a review may erase a reply saved meanwhile | - |
| `identity/internal/service/deletion.go:58` | somebody who signs in between DueDeletions and Anonymize is erased | - |
| `service/bids.go:102` | every bid near the end prolongs the auction, also a lower bid of the only bidder, without a limit | - |
| `service/bids_accept.go:138` | ExpireDecision may expire the bid AcceptBid has just marked as won | - |
| `service/bids.go:74` | when the insert of a new bid fails, the previous one is already withdrawn | - |
| `service/chats.go:85` | SendMessage, unlike OpenChat, does not ask whether the job still allows a conversation | - |
| `service/chats.go:169` | a message that arrives between the list and MarkRead is marked as read unseen | - |
| `notifications/internal/service/notify.go:118` | a dead token is deleted whoever registered it meanwhile | - |
| `identity/internal/service/auth.go:142` | overlapping guesses of a code count once | - |
| `catalog/internal/httpapi/equipment.go:115` | the fields of a published card can be emptied without another check | - |
| `catalog/internal/httpapi/categories_edit.go:191` | two moves tie categories into a circle, and the tree loses them | - |

Most have one cause: checks are made on copies, and writes have no condition on the row. The
same cause makes a deal's timeline lose entries, reopens a closed deal, leaves the job behind the
deal, and lets two executors stand with one price; and it makes `SilenceIsConsent` depend on the
single request of `DealRacesLiveness`: with two requests in flight a stale write can wipe out the
acceptance deadline.

### Bounds

* Executors: three let one win, one lose by decision and one have left; the rules compare
  executors only in pairs. The racing modules need two.
* Prices: 2 is below the reserve of one kind of terms, 3 and 4 compete, 5 is above the budget;
  0.3 of the budget cuts off prices that are too low (`AboveFloor`).
* Time: durations are the smallest numbers that keep the order snipe window < withdrawal limit
  <= duration and give at least one unit before and after each limit. In AuctionRaces the
  clock stops at `Horizon`, and a decision deadline after it falls on it (`OnClock`).
* `Requests`: two overlap with each other and with the scheduler. Every lost update is a
  matter of two copies.
* `MaxDisputes` and `MaxBids` cut counters that the code does not bound.
* Reviews: two sides by nature; two disputes, because the freeze asks for the latest of
  several; one failure, because a second one could only stop the retry of the next round.
* Messaging: `MaxActs` bounds what people and the clock do all together, not what requests then
  do; four acts let a telephone change hands or an hour pass while a message is on its way. A day
  of four hours with a zone of one and quiet hours from 3 to 1 has an hour on either side of each
  limit and of midnight; `MCHours` contains hours below and above the day.
* Accounts: the rules compare one account with requests about it; with `MaxAccounts = 1` a number
  that was erased gets no second account, so later sign-ins are refused there. Tokens beyond
  `MaxTokens` are issued and not followed.
* Access: the lifetimes are the smallest numbers with `CodeTTL < AccessTTL < RefreshTTL`; ages
  stop one unit after they no longer matter, so the module needs no bound on time.
* Equipment: `TTL = FetchLimit = 1`; the rules treat all categories alike, so one and none are
  enough.
* Categories: three can form a circle of two with one below it.
* Symmetry is used in safety runs only: executors and requests are interchangeable.
* Deadlock is checked where the system can always go on (Accounts, Access, Equipment,
  Categories). It is not checked where the end of a job, a cancelled deal or the last of
  `MaxActs` is a normal end.

### Fairness

`WF(Tick)`: time passes. `WF(RunOnce)`, `WF(SchedulerStep)`, `WF(DueJobs)`: `Run` loops over a
ticker until the process is told to stop, and makes its first pass at start, so a restart loses
nothing. `WF(Continue(p))`: a request that has begun executes its next statement (the liveness
runs exclude failing statements; the scheduler would retry, a request would not). No fairness
is assumed of people: nobody has to bid, accept or resolve. `Reviews` is fair to the passing of
the week and to `SchedulerStep`: the ticker starts a round every minute whether or not the last
one failed, and `MaxFaults` bounds the failures, which stands for a database that answers again
some day. `EveryReviewOpens` needs no request to go on.

## 4. Proofs

Every safety property of every passing run, and three of the six liveness properties under hypotheses named
below, are proved for all values of the constants: any number of executors, requests in flight, messages, telephones, tokens, applications and categories, any
prices, lifetimes and windows. The assumptions are the named `ASSUME`s of the modules, which TLC
evaluates for each instance: sets of different things are disjoint, bounds are natural numbers,
windows that the code divides or counts by are positive.

| Module | Theorem | Statement |
|---|---|---|
| `OrderLifecycle` | `TypeCorrect`, `Inductive` | `Spec => []TypeOK`, `Spec => []IInv` |
| | `OneWinner`, `DealKeepsItsPrice` | `[]WinnerSettled`, `[]DealHonoursWinner` |
| | `JobAndDealAgree`, `WorkStopsDuringDispute` | `[]JobDealAgreement`, `DisputeHoldsDeal` (action property) |
| | `StrictRanking`, `RecommendationStaysBest` | `[]DistinctActivePrices`, `[]RecommendedIsCheapest` |
| | `ClosedDealIsFinal`, `ClosedJobIsFinal` | `DealClosedIsFinal`, `ClosedJobStaysClosed` (action properties) |
| | `NobodyWaitsForever` | `[]EveryWaitHasADeadline`: what waits has its deadline set |
| | `SchedulerClosesAuctions` | `FairSpec /\ []PassIsPossible => DueAuctionCloses` |
| | `SchedulerClosesDecisions`, `SchedulerAcceptsWork` | under the same hypotheses, a due decision and due work do not stay |
| | `DecisionWindowShrinks`, `AcceptanceWindowShrinks` | `FairSpec /\ []TimeCanPass`: `n + 1` units left lead to `n` or to the end, for every `n` |
| `DealRaces` | `DealsInductive`, `TypeCorrect` | `[]DealInv`, `[]TypeOK` |
| | `NoMixedStory`, `JobFollowsDeal` | `[]TimelineIsLegal`, `[]JobNeverAhead` |
| | `SilenceIsAccepted` | `FairSpec => SilenceIsConsent` for one request, no faults, and possible statements |
| `AuctionRaces` | `AuctionInductive`, `TypeCorrect` | `[]AuctionInv`, `[]TypeOK` |
| | `OneStandingPrice`, `EveryExtensionIsPaid` | `[]DoubleTapIsOneBid`, `[]ExtensionsArePaid` |
| `Reviews` | `ReviewsInductive`, `TypeCorrect` | `[]ReviewInv`, `[]TypeOK` |
| | `ImplementsBlindReviews` | `KeepsReviewsBlind`: the refinement of `BlindReviews` |
| | `NoReplyInTheDark`, `FreezeBarsReviews` | `[]RepliesAreOpen`, `[]FreezeHasTwoGaps` |
| | `HiddenReviewOpens`, `NoReviewStaysHidden` | `FairSpec => EveryReviewOpens`, if rounds do not fail for ever and rounds and weeks are possible |
| `Messaging` | `MessagingInductive`, `TypeCorrect` | `[]MessagingInv`, `[]TypeOK` |
| | `NoEarlyContact`, `FeedKeepsTheRecord` | `[]NoContactBeforeDeal`, `[]FeedIsTheRecord` |
| | `NoPushAgainstWill`, `NoForeignTelephone` | `[]RestIsRespected`, `[]RingsForItsUser` |
| `Accounts` | `AccountsInductive`, `TypeCorrect` | `[]AccountInv`, `[]TypeOK` |
| | `TokenIsExchangedOnce`, `ShutAccountGetsNoSession` | `[]OneSuccessor`, `[]BarredGetNothing` |
| | `ErasureIsFinal`, `NoBadgeWithoutApproval`, `NumberHasOneAccount` | `[]ErasedForGood`, `[]BadgeWasEarned`, `[]OneAccountPerNumber` |
| `Access` | `AccessInductive` | `[]AccessInv` |
| | `SanctionIsFelt`, `GuestIsServedNothing` | `[]SanctionTakesHold`, `[]GuestChangesNothing` |
| `Equipment` | `TypeCorrect`, `EveryVersionIsSound` | `[]TypeOK`, `[]VersionInv` |
| | `NoMixedVersion`, `NoInventedBadge`, `StalenessIsBounded` | `[]VersionsDoNotMix`, `[]BadgeWasReviewed`, `[]StaleUnitIsBounded` |
| `Categories` | `TypeCorrect`, `BranchesNeverMix` | `[]TypeOK`, `[]SameBranch` |
| | `RowsAndBranchesStay` | `[][RowsStay]_vars` |
| | `TreeIsExact`, `TreeIsComplete` | `[]ShowsAllButCircles`, `[]TreeShowsTheRest` |

### The arguments

Each module has its inductive invariant at its end, as a conjunction of named parts. TLC has
checked every one of them as an invariant of the module's safety instance before it was proved.
None of the properties is inductive alone; the strengthenings are of a few kinds.

*What a handler relies on from earlier handlers* (`OrderLifecycle`). That the deal honours its
winner needs the choice to stay settled for as long as there is a deal (`ChoiceSettled`), not only
while the job is deal_pending; that there is at most one winner when AcceptOffer or AcceptBid
comes needs that nothing was chosen before (`NothingChosenYet`) and that a fixed price has no bids
and an auction no offers (`ModeMatches`), because the two ways of winning check only their own
table. There is one lemma per handler for the types and one per handler for the rest. The three
action properties follow from the guards and from `IInv` (AutoAccept and ResolveDispute need the
deal's status, AcceptBid that an ended job is not deciding; `DisputeHoldsDeal` that an open dispute
finds its deal parked or closed, `OpenDisputeParksDeal`). `DealWrittenBy` lists the handlers that
write the deal at all.

*What a copy may say* (the modules with single statements). A property of a row is kept by a write
only if the copy that is written has it already, so the invariant says of every request what its
copy satisfies at each of its labels: `Carries` (a legal timeline, a status the deal has had),
`Holds` (the bids that were read, an end that was paid for), `Grounded` (a review that is to be
opened has its pair or its week), `GoodCopy` (a copy of a chat of the deal is the executor's),
`Ready` (what a request of identity may still write), `SoundVersion` (a version some handler has
made as a whole), `CheckedBefore` (a parent that was checked). What lets such a fact survive the
steps of the others is different in each module, and is the real content: timelines and sets of
past statuses only grow (`DealRaces`), a bid's number is used once (`OwnNumbers`), a stage never
goes back (`Reviews`), a deal once made stays with its executor and a message keeps its author
(`ChatKeeps`), a row that is erased keeps nothing to write back (`Accounts`), rows are never
removed nor change their kind (`Categories`).

*Who holds what* (`Messaging`). A message is held by exactly one request, or announced, or on the
list of the lost ones: `Accounted`, with `OwnMessages`, is an invariant of both services together;
neither service has it alone, because SendNotice ends the request in one and begins the call in
the other. For the push, the invariant relates the histories to the tables (`GoodNote`): what is
muted is forbidden now, a foreign telephone is not held by the person now, so neither check can
pass. That `allowPush` covers every quiet hour is lemma `QuietIsCovered`: its three cases against
the distance on the clock, modulo a day of any length.

*Ages* (`Access`, `Equipment`). A sanction has lasted at most as long as the call that has read
the old status is old (`CallIsOlder`); hence at most `Deadline` longer than the age of the token
that call has signed (`TokenIsOlder`), and at most a token's life longer than the ticket
(`TicketIsOlder`). `AgeInv` says the same of the copy of a machine's card on its way and in the
cache. Ticks add one to both sides.

The proofs have one lemma per action (`...Step`, `...Move`) that says what the step may do, in the
terms of a predicate defined in the proof module (`OneCall`, `Renewal`, `ChatMove`, `Lands`), and
one lemma that such steps keep the invariant.

`ImplementsBlindReviews` covers the safety part of the abstract specification, which is all of it:
the initial states are mapped to initial states and each step to a step or a stutter. A stale
publication is the interesting case: `Grounded` says that the review it opens may be opened.
`FreezeBarsReviews` needs that at most one dispute is open (`FreezeInv`): if the latest dispute
on file is settled and one is open, the open one has the lower number, which is the gap
`LateDispute`; and a gap that a request went through lasts as long as the request is barred.

*What a recursive function computes* (`Categories`). `BuildTree` and `Above` iterate until nothing
is added. The induction theorems of the library take an operator as a parameter and cannot be
applied; instead every induction is by least counterexample: a set of numbers that is not empty has
a least element (`LeastNumber`, from the well-foundedness of `<`), and its predecessor is not in the
set. So `IterationExists` shows that the iteration is defined, and `IterationSettles` that a growing
chain of subsets of a finite set is closed after as many steps as the set has elements.
`TreeIsClosed` and `WayUpIsClosed` apply this to the two functions. If a row is not in the tree, its
parent is in the list and not in the tree either, so the whole way up stays in the list
(`LostIsInACircle`); if its way up stays in the list, no level of the tree contains it
(`CircleIsNotShown`). `TreeIsExact` is both directions: the tree leaves out the circles and what
hangs below them, and nothing else.

*Liveness*. The temporal prover has the rule for weak fairness: if a state persists until it is
left, a step of the fair action leaves it, and the action is possible in it, then it is left. The
first two premises are proved as action lemmas. The third is about `ENABLED`, of which the provers
know nothing, so it is a hypothesis that is written into the theorem: `PassIsPossible` and
`TimeCanPass` (`OrderLifecycle_proofs`), `TimeCanPass`, `RoundIsPossible` and `WriteIsPossible`
(`DealRaces_proofs`), `RoundIsPossible` and `WeekIsPossible` (`Reviews_proofs`). Each restates the
guard of its action, and TLC has found each true in all reachable states of the module's instance.
`BestBidExists` proves the one part of them that is not a guard: FinishAuction finds a best bid
whenever there are active ones, because prices are numbers.

* `OrderLifecycle`: what has to be shown is that nothing takes a due job off the list of the
  scheduler, and that a pass finishes it. `ClockStep` says for every handler how it may set the three
  deadlines; a bid prolongs an auction only before its end.
* `Reviews`: while an old hidden review waits, the scheduler is between two rounds or in a round that
  has, or has not, either row on its list (`AtRest`, `InRound`). `PlaceMoves` orders these places: a
  list without the row runs empty, the round ends, the next round has the row on its list, and it is
  opened. `PlaceStays` says that requests move nobody back. A failing round does, so the theorem
  supposes that rounds do not fail for ever (`RoundsRecover`); in the model this follows from the bound
  on faults, by counting.
* `DealRaces`: with a single request (`Alone`), `SoloInv` says why no stale write can undo the report
  that the work is done: a copy that is behind is written only while the deal is behind, a round of
  the scheduler is under way only after the report, and a job that does not show it yet is about to
  be written. None of this holds for two requests, for which the property is false (section 3).

### Only model-checked

* `DecisionCloses` and `SilenceIsConsent` of `OrderLifecycle`. Their two halves are proved (a window
  gets shorter by every unit; a job that is due is finished), but not that a window of n units is
  over after n times shorter: an induction whose claim is a temporal formula cannot be stated for
  this prover.
* `AuctionSettles`, for the same reason: it counts the bids and the units of time that are left.
* The hypotheses about `ENABLED` above.

## 5. Not modelled

* Formatting, validation of texts and photos, places and distances, currencies, counters of views
  and offers, lists and their pages.
* Realtime events: best effort, never read back. The ticket that admits to them is in `Access`.
* The limits of 100 rows per round of the scheduler.
* The single statements of the five handlers of offers; they are whole handlers in
  `OrderLifecycle`.
* Idempotency keys of drafts and publication: find, act and remember protect a retry that comes
  after the answer and nothing else, which is visible without a model.
* Calendar, CRM reports and statistics: independent single-row writes and read-only aggregates.
* Share pages and rate limit of the gateway, the in-memory stores used by tests, the media
  service (signs upload addresses), the mobile app and its packages, infrastructure.

## 6. Plan

Every component that carries rules has its module, its run and its theorems. What would extend
the project:

1. Offers statement by statement, as `AuctionRaces` does it for bids: two overlapping AcceptOffer
   decline each other's offer.
2. What the refuted sentences of section 3 would need: conditions on the writes (`WHERE status =`)
   modelled as variants, to show which of them would make the stronger properties true.
3. Action theorems in the racing modules: which columns of a row each handler may ever change.
4. The counting that is left in the liveness proofs, and the hypotheses about `ENABLED`, with a
   prover that has temporal induction and the definition of `ENABLED`.
