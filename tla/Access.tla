------------------------------- MODULE Access -------------------------------
(***************************************************************************)
(* Who gets through, and for how long: one person with the one-time code,  *)
(* the pair of tokens that identity issues, the gateway that verifies the  *)
(* access token with a cached key and passes on what it claims, and the    *)
(* services that trust the gateway's headers.  The access token claims the *)
(* status the account had when it was issued, so a sanction is felt with a *)
(* delay; the module says how long.                                        *)
(*                                                                         *)
(* Time is counted in ages: Tick is one unit, an age stops one unit after  *)
(* it no longer matters.  The person has one sign-in or renewal under way  *)
(* at a time (Accounts has the overlapping ones); identity reads the       *)
(* account and signs the token in two steps, because a sanction may come   *)
(* in between.                                                             *)
(***************************************************************************)
EXTENDS Naturals, FiniteSets

CONSTANTS
    CodeTTL, AccessTTL, RefreshTTL, TicketTTL,  \* codeTTL, accessTTL, refreshTTL, 1 h
    MaxAttempts,    \* maxAttempts
    Deadline,       \* the longest a request may take (middleware.Timeout)
    MaxKeys,        \* bound on the signing keys identity is started with
    KidPerKey,      \* JWT_KID is changed together with the key
    Moderator       \* whether the person has the moderator's role

ASSUME AccessTimes ==
    /\ CodeTTL \in Nat /\ RefreshTTL \in Nat /\ Deadline \in Nat
    /\ AccessTTL \in Nat \ {0} /\ TicketTTL \in Nat \ {0}
    /\ MaxAttempts \in Nat \ {0} /\ MaxKeys \in Nat \ {0}
ASSUME AccessFlags == KidPerKey \in BOOLEAN /\ Moderator \in BOOLEAN

Statuses == {"active", "frozen", "banned"}
Hold == AccessTTL + Deadline + TicketTTL
Keys == 1..MaxKeys
kid(k) == IF KidPerKey THEN k ELSE 1

VARIABLES
    otp,       \* the row of otp_codes: there, age, attempts
    account,   \* status and, since it was last changed, the time
    refresh,   \* the refresh token the person holds
    access,    \* one access token that was issued: status claimed, age, key
    call,      \* the sign-in or renewal under way: the status read, and its age
    key,       \* the key identity signs with and publishes
    cached,    \* the key in the gateway's cache, 0 when nothing was fetched
    ticket,    \* age of the last Centrifugo ticket
    served     \* as whom the last change was made in a service

accessVars == <<otp, account, refresh, access, call, key, cached, ticket, served>>

NoCode == [there |-> FALSE, age |-> 0, attempts |-> 0]
NoRefresh == [live |-> FALSE, age |-> 0]
NoToken == [status |-> "none", age |-> AccessTTL, key |-> 1]
NoCall == [status |-> "none", age |-> 0]

(* Ages stay within their bounds.                                          *)
AccessTypeOK ==
    /\ otp \in [there : BOOLEAN, age : 0..(CodeTTL + 1), attempts : 0..MaxAttempts]
    /\ account \in [status : Statuses, held : 0..Hold]
    /\ refresh \in [live : BOOLEAN, age : 0..(RefreshTTL + 1)]
    /\ access \in [status : Statuses \cup {"none"}, age : 0..AccessTTL, key : Keys]
    /\ call \in [status : Statuses \cup {"none"}, age : 0..Deadline]
    /\ key \in Keys /\ cached \in 0..MaxKeys
    /\ ticket \in 0..TicketTTL
    /\ served \in {"nobody", "guest", "owner"}

AccessInit ==
    /\ otp = NoCode
    /\ account = [status |-> "active", held |-> Hold]
    /\ refresh = NoRefresh
    /\ access = NoToken
    /\ call = NoCall
    /\ key = 1 /\ cached = 0
    /\ ticket = TicketTTL
    /\ served = "nobody"

-----------------------------------------------------------------------------
(* Identity: codes and tokens.                                             *)

StartOTP ==
    /\ otp' = [NoCode EXCEPT !.there = TRUE]
    /\ UNCHANGED <<account, refresh, access, call, key, cached, ticket, served>>

CodeExpired == otp.age > CodeTTL

TooManyAttempts == otp.attempts >= MaxAttempts

(* A code that is compared and wrong is counted.                           *)
WrongCode ==
    /\ call = NoCall /\ otp.there
    /\ ~CodeExpired /\ ~TooManyAttempts
    /\ otp' = [otp EXCEPT !.attempts = @ + 1]
    /\ UNCHANGED <<account, refresh, access, call, key, cached, ticket, served>>

(* VerifyOTP with the right code, up to reading the account.               *)
VerifyOTP ==
    /\ call = NoCall /\ otp.there
    /\ ~CodeExpired /\ ~TooManyAttempts
    /\ otp' = NoCode
    /\ call' = IF account.status = "banned" THEN NoCall
               ELSE [NoCall EXCEPT !.status = account.status]
    /\ UNCHANGED <<account, refresh, access, key, cached, ticket, served>>

(* Mutant: the ban is left to the revocation of the tokens.                *)
MayRenew_Always(status) == TRUE

MayRenew(status) == status # "banned"

(* Refresh: the token is used up whatever the account's status.            *)
Refresh ==
    /\ call = NoCall
    /\ refresh.live /\ refresh.age <= RefreshTTL
    /\ refresh' = NoRefresh
    /\ call' = IF MayRenew(account.status) THEN [NoCall EXCEPT !.status = account.status]
               ELSE NoCall
    /\ UNCHANGED <<otp, account, access, key, cached, ticket, served>>

(* issue and Sign: the claims are those that were read.  Of several tokens *)
(* any one may be the token that is followed.                              *)
issue ==
    /\ call # NoCall
    /\ access' \in {[status |-> call.status, age |-> 0, key |-> key], access}
    /\ refresh' = [live |-> TRUE, age |-> 0]
    /\ call' = NoCall
    /\ UNCHANGED <<otp, account, key, cached, ticket, served>>

(* The context of the request is cancelled, or SaveRefresh fails.          *)
RequestFails ==
    /\ call # NoCall
    /\ call' = NoCall
    /\ UNCHANGED <<otp, account, refresh, access, key, cached, ticket, served>>

(* SetStatus by another moderator.  A ban revokes the refresh tokens.      *)
SetStatus(status) ==
    /\ status # account.status
    /\ account' = [status |-> status, held |-> IF status = "active" THEN Hold ELSE 0]
    /\ refresh' = IF status = "banned" THEN NoRefresh ELSE refresh
    /\ UNCHANGED <<otp, access, call, key, cached, ticket, served>>

(* Identity is started with another private key.                           *)
ChangeKey ==
    /\ key < MaxKeys
    /\ key' = key + 1
    /\ call' = NoCall
    /\ UNCHANGED <<otp, account, refresh, access, cached, ticket, served>>

-----------------------------------------------------------------------------
(* The gateway.                                                            *)

Expired(t) == t.age >= AccessTTL

(* keyfunc: the key under which t is checked, and so the key that is in    *)
(* the cache afterwards.  An empty cache or an unknown kid makes the       *)
(* gateway fetch the set; "up" says whether identity answers in time.      *)
(* NoKey is ErrNoKey of a fetch that failed; the cache then stays as it is. *)
NoKey == 0

Lookup(t, up) ==
    IF cached # 0 /\ kid(cached) = kid(t.key) THEN cached
    ELSE IF up THEN key ELSE NoKey

Verify(t, up) == t.status # "none" /\ ~Expired(t) /\ Lookup(t, up) = t.key

(* token.Parse, with identity's own key.                                   *)
Parse(t) == t.status # "none" /\ ~Expired(t) /\ t.key = key

(* The background refresh of the key set; one that fails changes nothing.  *)
FetchKeys ==
    /\ cached' = key /\ cached # key
    /\ UNCHANGED <<otp, account, refresh, access, call, key, ticket, served>>

(* The routes that matter here; "bid" shares its path with the public list *)
(* of bids.                                                                *)
Routes == {"feed", "bid", "offer", "deal", "decide", "profile", "restrict", "ticket"}

publicJobsPath == {"feed", "bid"}
Mutating == Routes \ {"feed", "ticket"}

(* Mutant: the guard of the bids' route is left to the gateway.            *)
OrdersGuards_Open(route) ==
    CASE route = "offer" -> {"user", "unfrozen"}
      [] route = "deal" -> {"user"}
      [] route = "decide" -> {"user", "moderator"}
      [] OTHER -> {}

(* Which checks the router of the service puts before the handler.         *)
OrdersGuards(route) ==
    CASE route \in {"offer", "bid"} -> {"user", "unfrozen"}
      [] route = "deal" -> {"user"}
      [] route = "decide" -> {"user", "moderator"}
      [] OTHER -> {}

IdentityGuards(route) ==
    CASE route = "profile" -> {"auth"}
      [] route = "restrict" -> {"auth", "moderator"}
      [] OTHER -> {}

Anonymous == [who |-> "guest", status |-> "none", moderator |-> FALSE]

(* Auth: the headers of the client are removed; those of a verified token  *)
(* are set.                                                                *)
Headers(t, up) ==
    IF Verify(t, up)
    THEN [who |-> "owner", status |-> t.status, moderator |-> Moderator]
    ELSE Anonymous

Auth(route, t, up) == route \in publicJobsPath \/ Verify(t, up)

(* The gateway asks for an idempotency key on what changes something and   *)
(* is not public.                                                          *)
Idempotency(route, keyed) == route \in Mutating \ publicJobsPath => keyed

requireUser(h) == h.who # "guest"
denyFrozen(h) == h.status # "frozen"
requireModerator(h) == h.moderator
requireAuth(t) == Parse(t)

Guarded(route, t, up) ==
    LET h == Headers(t, up)
        guards == OrdersGuards(route) \cup IdentityGuards(route)
    IN /\ "user" \in guards => requireUser(h)
       /\ "unfrozen" \in guards => denyFrozen(h)
       /\ "moderator" \in guards => requireModerator(h)
       /\ "auth" \in guards => requireAuth(t)
       /\ route = "ticket" => requireUser(h)

Answers(route, t, keyed, up) ==
    /\ Auth(route, t, up)
    /\ Idempotency(route, keyed)
    /\ Guarded(route, t, up)

(* A request with the token, or with none.                                 *)
Call(route, t, keyed, up) ==
    /\ cached' = IF t.status # "none" /\ Lookup(t, up) # NoKey THEN Lookup(t, up) ELSE cached
    /\ IF Answers(route, t, keyed, up)
       THEN /\ served' = IF route \in Mutating THEN Headers(t, up).who ELSE served
            /\ ticket' = IF route = "ticket" THEN 0 ELSE ticket
       ELSE UNCHANGED <<served, ticket>>
    /\ UNCHANGED <<otp, account, refresh, access, call, key>>

-----------------------------------------------------------------------------
(* A unit of time; a request does not last longer than its deadline.       *)
Older(age, limit) == IF age < limit THEN age + 1 ELSE age

Tick ==
    /\ call = NoCall \/ call.age < Deadline
    /\ otp' = [otp EXCEPT !.age = IF otp.there THEN Older(@, CodeTTL + 1) ELSE @]
    /\ account' = [account EXCEPT !.held = Older(@, Hold)]
    /\ refresh' = [refresh EXCEPT !.age = IF refresh.live THEN Older(@, RefreshTTL + 1) ELSE @]
    /\ access' = IF Expired(access) THEN NoToken ELSE [access EXCEPT !.age = @ + 1]
    /\ call' = [call EXCEPT !.age = IF call = NoCall THEN @ ELSE @ + 1]
    /\ ticket' = Older(ticket, TicketTTL)
    /\ UNCHANGED <<key, cached, served>>

AccessNext ==
    \/ StartOTP \/ WrongCode \/ VerifyOTP \/ Refresh \/ issue \/ RequestFails
    \/ \E status \in Statuses : SetStatus(status)
    \/ ChangeKey \/ FetchKeys
    \/ \E route \in Routes, t \in {access, NoToken}, keyed \in BOOLEAN, up \in BOOLEAN :
           Call(route, t, keyed, up)
    \/ Tick

AccessSpec == AccessInit /\ [][AccessNext]_accessVars

-----------------------------------------------------------------------------
(***************************************************************************)
(* A sanction takes hold no later than one lifetime of an access token and *)
(* the length of a request after it was set: from then on no token gets an *)
(* offer or a bid of a frozen person through, and nothing of a banned one; *)
(* one ticket's lifetime later a banned person no longer listens either.   *)
(* A token whose issue overlapped the sanction is the hard case: it claims *)
(* the old status, and the renewal after it must be refused.  The bound is *)
(* what the code keeps.  The comment in SetStatus promises more: that a    *)
(* ban breaks active sessions, lest the banned work on until the access    *)
(* token expires.  The code revokes refresh tokens only, and that is what  *)
(* happens.                                                                *)
(***************************************************************************)
Able(route) == \E up \in BOOLEAN : Answers(route, access, TRUE, up)

SanctionTakesHold ==
    /\ account.status # "active" /\ account.held >= AccessTTL + Deadline
         => ~Able("offer") /\ ~Able("bid")
    /\ account.status = "banned" /\ account.held >= AccessTTL + Deadline
         => \A route \in Mutating \cup {"ticket"} : ~Able(route)
    /\ account.status = "banned" /\ account.held >= Hold => ticket >= TicketTTL

(***************************************************************************)
(* What is changed is changed by the person a verified token names: the    *)
(* public paths do not look at the method, so this rests on the services'  *)
(* own guards.                                                             *)
(***************************************************************************)
GuestChangesNothing == served \in {"nobody", "owner"}

-----------------------------------------------------------------------------
(* The inductive invariant of the proofs.                                  *)

(* A call under way that read another status than the account now has read *)
(* it before the change, so it is at least as old as the sanction.         *)
CallIsOlder ==
    account.status # "active" /\ call.status \notin {"none", account.status}
        => account.held <= call.age

(* A token that claims another status was signed by such a call.           *)
TokenIsOlder ==
    account.status # "active" /\ access.status \notin {"none", account.status}
        => account.held <= access.age + Deadline

(* A ticket of somebody who is banned was issued for such a token.         *)
TicketIsOlder ==
    account.status = "banned" /\ ticket < TicketTTL
        => account.held <= ticket + AccessTTL + Deadline

AccessInv ==
    /\ AccessTypeOK
    /\ call.status # "banned" /\ access.status # "banned"
    /\ CallIsOlder /\ TokenIsOlder /\ TicketIsOlder
    /\ GuestChangesNothing

=============================================================================
