---------------------- MODULE AccessCategories_proofs -----------------------
(***************************************************************************)
(* Proofs about two small components that do not share a name: Access, for *)
(* every lifetime of codes, tokens, tickets and requests and every number  *)
(* of keys, and Categories, for every number of moderators' requests in    *)
(* flight and every finite directory.                                      *)
(***************************************************************************)
EXTENDS Access, Categories, FiniteSetTheorems, WellFoundedInduction, TLAPS

-----------------------------------------------------------------------------
(* ACCESS.  Facts about the times, the rows and the guards.                *)

(* The times are natural numbers, and Hold is their sum.                   *)
LEMMA AccessNumbers ==
    /\ CodeTTL \in Nat /\ RefreshTTL \in Nat /\ Deadline \in Nat
    /\ AccessTTL \in Nat /\ AccessTTL > 0 /\ TicketTTL \in Nat /\ TicketTTL > 0
    /\ MaxAttempts \in Nat /\ MaxAttempts > 0 /\ MaxKeys \in Nat /\ MaxKeys > 0
    /\ Hold \in Nat /\ Hold = AccessTTL + Deadline + TicketTTL
BY AccessTimes DEF Hold

(* The shapes of the rows.                                                 *)
Code == [there : BOOLEAN, age : 0..(CodeTTL + 1), attempts : 0..MaxAttempts]
Account == [status : Statuses, held : 0..Hold]
RefreshToken == [live : BOOLEAN, age : 0..(RefreshTTL + 1)]
AccessToken == [status : Statuses \cup {"none"}, age : 0..AccessTTL, key : Keys]
CallLocal == [status : Statuses \cup {"none"}, age : 0..Deadline]

(* What is not there yet has its shape too.                                *)
LEMMA BlankRows ==
    /\ NoCode \in Code /\ NoRefresh \in RefreshToken
    /\ NoToken \in AccessToken /\ NoToken.status = "none"
    /\ NoCall \in CallLocal /\ NoCall.status = "none" /\ NoCall.age = 0
<1>1. NoCode \in Code
  BY AccessNumbers DEF NoCode, Code
<1>2. NoRefresh \in RefreshToken
  BY AccessNumbers DEF NoRefresh, RefreshToken
<1>3. NoToken \in AccessToken /\ NoToken.status = "none"
  BY AccessNumbers DEF NoToken, AccessToken, Keys
<1>4. NoCall \in CallLocal /\ NoCall.status = "none" /\ NoCall.age = 0
  BY AccessNumbers DEF NoCall, CallLocal
<1> QED BY <1>1, <1>2, <1>3, <1>4

(* An age grows up to its limit.                                           *)
LEMMA OlderAge ==
    ASSUME NEW limit \in Nat, NEW age \in 0..limit
    PROVE  /\ Older(age, limit) \in 0..limit
           /\ Older(age, limit) <= age + 1
           /\ Older(age, limit) < limit => Older(age, limit) = age + 1
BY DEF Older

(* A token that is changed with was verified: of the public paths only the *)
(* bid changes something, and its own service asks for the user.           *)
LEMMA ChangeIsVerified ==
    ASSUME NEW route \in Mutating \cup {"ticket"}, NEW t, NEW keyed, NEW up,
           Answers(route, t, keyed, up)
    PROVE  Verify(t, up)
<1>1. CASE route = "bid"
  <2>1. "user" \in OrdersGuards("bid")
    BY DEF OrdersGuards
  <2>2. requireUser(Headers(t, up))
    BY <1>1, <2>1 DEF Answers, Guarded
  <2> QED BY <2>2 DEF requireUser, Headers, Anonymous
<1>2. CASE route # "bid"
  BY <1>2 DEF Answers, Auth, publicJobsPath, Mutating, Routes
<1> QED BY <1>1, <1>2

(* No frozen person's token gets an offer or a bid through.                *)
LEMMA FrozenMakesNoBid ==
    ASSUME NEW route \in {"offer", "bid"}, NEW t, NEW keyed, NEW up, Answers(route, t, keyed, up)
    PROVE  Verify(t, up) /\ t.status # "frozen"
<1>1. Verify(t, up)
  BY ChangeIsVerified DEF Mutating, Routes
<1>2. "unfrozen" \in OrdersGuards(route)
  BY DEF OrdersGuards
<1>3. denyFrozen(Headers(t, up))
  BY <1>2 DEF Answers, Guarded
<1>4. Headers(t, up).status = t.status
  BY <1>1 DEF Headers
<1> QED BY <1>1, <1>3, <1>4 DEF denyFrozen

-----------------------------------------------------------------------------
(* The steps of identity, of the gateway and of time.                      *)

(* Everything begins without tokens and sanctions.                         *)
LEMMA AccessInitInv == AccessInit => AccessInv
<1> SUFFICES ASSUME AccessInit PROVE AccessInv
  OBVIOUS
<1>1. account \in Account /\ account.status = "active"
  BY AccessNumbers DEF AccessInit, Account, Statuses
<1>2. AccessTypeOK
  BY <1>1, BlankRows, AccessNumbers
     DEF AccessInit, AccessTypeOK, Code, Account, RefreshToken, AccessToken, CallLocal, Keys
<1> QED
  BY <1>1, <1>2, BlankRows
     DEF AccessInit, AccessInv, CallIsOlder, TokenIsOlder, TicketIsOlder, GuestChangesNothing

(* The codes do not touch what the sanctions are about.                    *)
LEMMA CodeStep ==
    ASSUME AccessInv, StartOTP \/ WrongCode
    PROVE  AccessInv'
<1>1. UNCHANGED <<account, refresh, access, call, key, cached, ticket, served>>
  BY DEF StartOTP, WrongCode
<1>2. otp' \in Code
  <2>1. CASE StartOTP
    <3>1. \A r \in Code : [r EXCEPT !.there = TRUE] \in Code
      BY DEF Code
    <3> QED BY <2>1, <3>1, BlankRows DEF StartOTP
  <2>2. CASE WrongCode
    <3> otp \in Code /\ otp.attempts < MaxAttempts
      BY <2>2, AccessNumbers DEF WrongCode, TooManyAttempts, AccessInv, AccessTypeOK, Code
    <3> otp' = [otp EXCEPT !.attempts = otp.attempts + 1]
      BY <2>2 DEF WrongCode
    <3> QED BY AccessNumbers DEF Code
  <2> QED BY <2>1, <2>2
<1> QED
  BY <1>1, <1>2 DEF AccessInv, AccessTypeOK, Code, CallIsOlder, TokenIsOlder, TicketIsOlder,
                    GuestChangesNothing

(* A call begins with the status it reads, which is not a ban.             *)
LEMMA CallBegins ==
    ASSUME AccessInv, VerifyOTP \/ Refresh
    PROVE  AccessInv'
<1>1. UNCHANGED <<account, access, key, cached, ticket, served>>
  BY DEF VerifyOTP, Refresh
<1>2. otp' \in Code /\ refresh' \in RefreshToken
  BY BlankRows DEF VerifyOTP, Refresh, AccessInv, AccessTypeOK, Code, RefreshToken
<1>3. \/ call' = NoCall
      \/ account.status # "banned" /\ call' = [NoCall EXCEPT !.status = account.status]
  BY DEF VerifyOTP, Refresh, MayRenew
<1>4. call' \in CallLocal /\ call'.status \in {"none", account.status}
      /\ call'.status # "banned"
  <2> account.status \in Statuses
    BY DEF AccessInv, AccessTypeOK
  <2> QED BY <1>3, BlankRows DEF NoCall, CallLocal
<1> QED
  BY <1>1, <1>2, <1>4
     DEF AccessInv, AccessTypeOK, Code, RefreshToken, CallLocal, CallIsOlder, TokenIsOlder,
         TicketIsOlder, GuestChangesNothing

(* issue signs what the call has read, while the call is young enough.     *)
LEMMA IssueStep ==
    ASSUME AccessInv, issue
    PROVE  AccessInv'
<1>1. UNCHANGED <<otp, account, key, cached, ticket, served>> /\ call' = NoCall
  BY DEF issue
<1>2. refresh' \in RefreshToken
  BY AccessNumbers DEF issue, RefreshToken
<1>3. /\ call \in CallLocal /\ account \in Account /\ access \in AccessToken /\ key \in Keys
      /\ call.status # "banned" /\ access.status # "banned" /\ CallIsOlder /\ TokenIsOlder
  BY DEF AccessInv, AccessTypeOK, CallLocal, Account, AccessToken
<1>4. /\ access' \in AccessToken /\ access'.status # "banned"
      /\ TokenIsOlder'
  <2>1. CASE access' = access
    BY <1>1, <1>3, <2>1 DEF TokenIsOlder
  <2>2. CASE access' = [status |-> call.status, age |-> 0, key |-> key]
    <3>1. access' \in AccessToken /\ access'.status = call.status /\ access'.age = 0
      BY <1>3, <2>2, AccessNumbers DEF CallLocal, AccessToken
    <3>2. account.held \in Nat /\ call.age \in 0..Deadline
      BY <1>3, AccessNumbers DEF Account, CallLocal
    <3> QED BY <1>1, <1>3, <3>1, <3>2, AccessNumbers DEF CallIsOlder, TokenIsOlder
  <2> QED BY <2>1, <2>2 DEF issue
<1>5. CallIsOlder' /\ TicketIsOlder' /\ call' \in CallLocal /\ call'.status # "banned"
  BY <1>1, BlankRows DEF AccessInv, CallIsOlder, TicketIsOlder
<1> QED
  BY <1>1, <1>2, <1>4, <1>5 DEF AccessInv, AccessTypeOK, RefreshToken, AccessToken, CallLocal,
                                GuestChangesNothing

(* A call that fails, or another key, ends what is under way.              *)
LEMMA CallEnds ==
    ASSUME AccessInv, RequestFails \/ ChangeKey
    PROVE  AccessInv'
<1>1. UNCHANGED <<otp, account, refresh, access, cached, ticket, served>> /\ call' = NoCall
  BY DEF RequestFails, ChangeKey
<1>2. key' \in Keys
  BY AccessNumbers DEF RequestFails, ChangeKey, AccessInv, AccessTypeOK, Keys
<1> QED
  BY <1>1, <1>2, BlankRows
     DEF AccessInv, AccessTypeOK, CallLocal, CallIsOlder, TokenIsOlder, TicketIsOlder,
         GuestChangesNothing

(* A new sanction is younger than everything.                              *)
LEMMA SanctionStep ==
    ASSUME AccessInv, NEW status \in Statuses, SetStatus(status)
    PROVE  AccessInv'
<1>1. UNCHANGED <<otp, access, call, key, cached, ticket, served>>
  BY DEF SetStatus
<1>2. refresh' \in RefreshToken
  BY BlankRows DEF SetStatus, AccessInv, AccessTypeOK, RefreshToken
<1>3. /\ account' \in Account /\ account'.status = status
      /\ status # "active" => account'.held = 0
  BY AccessNumbers DEF SetStatus, Account
<1>4. call.age \in Nat /\ access.age \in Nat /\ ticket \in Nat
  BY AccessNumbers DEF AccessInv, AccessTypeOK
<1>5. CallIsOlder' /\ TokenIsOlder' /\ TicketIsOlder'
  BY <1>1, <1>3, <1>4, AccessNumbers DEF CallIsOlder, TokenIsOlder, TicketIsOlder
<1> QED
  BY <1>1, <1>2, <1>3, <1>5 DEF AccessInv, AccessTypeOK, RefreshToken, Account,
                                GuestChangesNothing

(* A request changes something, or gets a ticket, only with a token that   *)
(* was verified.                                                           *)
LEMMA CallStep ==
    ASSUME AccessInv, NEW route \in Routes, NEW t \in {access, NoToken}, NEW keyed,
           NEW up \in BOOLEAN,
           Call(route, t, keyed, up)
    PROVE  AccessInv'
<1>1. UNCHANGED <<otp, account, refresh, access, call, key>>
  BY DEF Call
<1>2. cached' \in 0..MaxKeys
  BY AccessNumbers DEF Call, Lookup, NoKey, AccessInv, AccessTypeOK, Keys
<1>3. /\ account \in Account /\ access \in AccessToken /\ ticket \in 0..TicketTTL
      /\ access.status # "banned" /\ TokenIsOlder /\ TicketIsOlder /\ GuestChangesNothing
  BY DEF AccessInv, AccessTypeOK, Account, AccessToken
<1>4. GuestChangesNothing'
  <2>1. CASE Answers(route, t, keyed, up) /\ route \in Mutating
    <3>1. Verify(t, up)
      BY <2>1, ChangeIsVerified
    <3>2. served' = "owner"
      BY <2>1, <3>1 DEF Call, Headers
    <3> QED BY <3>2 DEF GuestChangesNothing
  <2>2. CASE ~(Answers(route, t, keyed, up) /\ route \in Mutating)
    BY <1>3, <2>2 DEF Call, GuestChangesNothing
  <2> QED BY <2>1, <2>2
<1>5. ticket' \in 0..TicketTTL /\ TicketIsOlder'
  <2>1. CASE Answers(route, t, keyed, up) /\ route = "ticket"
    <3>1. Verify(t, up)
      BY <2>1, ChangeIsVerified
    <3>2. t = access
      BY <3>1, BlankRows DEF Verify
    <3>3. access.status # "none" /\ access.age < AccessTTL
      BY <1>3, <3>1, <3>2, AccessNumbers DEF Verify, Expired, AccessToken
    <3>4. account.status = "banned" => account.held <= access.age + Deadline
      BY <1>3, <3>3 DEF TokenIsOlder
    <3>5. ticket' = 0 /\ account.held \in Nat /\ access.age \in Nat
      BY <1>3, <2>1, AccessNumbers DEF Call, Account, AccessToken
    <3> QED BY <1>1, <3>3, <3>4, <3>5, AccessNumbers DEF TicketIsOlder
  <2>2. CASE ~(Answers(route, t, keyed, up) /\ route = "ticket")
    <3>1. ticket' = ticket
      BY <2>2 DEF Call
    <3> QED BY <1>1, <1>3, <3>1 DEF TicketIsOlder
  <2> QED BY <2>1, <2>2
<1>6. CallIsOlder' /\ TokenIsOlder'
  BY <1>1 DEF AccessInv, CallIsOlder, TokenIsOlder
<1> QED
  BY <1>1, <1>2, <1>4, <1>5, <1>6 DEF AccessInv, AccessTypeOK, GuestChangesNothing

(* Sanction, call, token and ticket grow older together.                   *)
LEMMA TickStep ==
    ASSUME AccessInv, Tick
    PROVE  AccessInv'
<1>1. /\ otp \in Code /\ account \in Account /\ refresh \in RefreshToken
      /\ access \in AccessToken /\ call \in CallLocal /\ ticket \in 0..TicketTTL
      /\ call.status # "banned" /\ access.status # "banned"
      /\ CallIsOlder /\ TokenIsOlder /\ TicketIsOlder
  BY DEF AccessInv, AccessTypeOK, Code, Account, RefreshToken, AccessToken, CallLocal
<1>2. UNCHANGED <<key, cached, served>>
  BY DEF Tick
<1>3. otp' \in Code
  <2> DEFINE age == IF otp.there THEN Older(otp.age, CodeTTL + 1) ELSE otp.age
  <2>1. otp' = [otp EXCEPT !.age = age]
    BY DEF Tick
  <2>2. age \in 0..(CodeTTL + 1)
    <3>1. otp.age \in 0..(CodeTTL + 1) /\ CodeTTL + 1 \in Nat
      BY <1>1, AccessNumbers DEF Code
    <3> QED BY <3>1, OlderAge
  <2> HIDE DEF age
  <2> QED BY <1>1, <2>1, <2>2 DEF Code
<1>4. refresh' \in RefreshToken
  <2> DEFINE age == IF refresh.live THEN Older(refresh.age, RefreshTTL + 1) ELSE refresh.age
  <2>1. refresh' = [refresh EXCEPT !.age = age]
    BY DEF Tick
  <2>2. age \in 0..(RefreshTTL + 1)
    <3>1. refresh.age \in 0..(RefreshTTL + 1) /\ RefreshTTL + 1 \in Nat
      BY <1>1, AccessNumbers DEF RefreshToken
    <3> QED BY <3>1, OlderAge
  <2> HIDE DEF age
  <2> QED BY <1>1, <2>1, <2>2 DEF RefreshToken
<1>5. /\ account' \in Account /\ account'.status = account.status
      /\ account.held \in Nat /\ account'.held \in Nat /\ account'.held <= account.held + 1
  <2>1. account.held \in 0..Hold
    BY <1>1 DEF Account
  <2>2. /\ Older(account.held, Hold) \in 0..Hold
        /\ Older(account.held, Hold) <= account.held + 1
    BY <2>1, OlderAge, AccessNumbers
  <2>3. account' = [account EXCEPT !.held = Older(account.held, Hold)]
    BY DEF Tick
  <2>4. account' \in Account /\ account'.status = account.status
        /\ account'.held = Older(account.held, Hold)
    BY <1>1, <2>2, <2>3 DEF Account
  <2> QED BY <2>1, <2>2, <2>4, AccessNumbers
<1>6. /\ access' \in AccessToken
      /\ access'.status # "banned"
      /\ access'.status # "none" => /\ access'.status = access.status
                                    /\ access'.age = access.age + 1
  <2>1. CASE Expired(access)
    BY <2>1, BlankRows DEF Tick
  <2>2. CASE ~Expired(access)
    <3>1. access' = [access EXCEPT !.age = access.age + 1]
      BY <2>2 DEF Tick
    <3>2. access.age \in 0..AccessTTL /\ access.age + 1 \in 0..AccessTTL
      BY <1>1, <2>2, AccessNumbers DEF Expired, AccessToken
    <3> QED BY <1>1, <3>1, <3>2 DEF AccessToken
  <2> QED BY <2>1, <2>2
<1>7. /\ call' \in CallLocal /\ call'.status = call.status
      /\ call.status # "none" => call'.age = call.age + 1
  <2> DEFINE age == IF call = NoCall THEN call.age ELSE call.age + 1
  <2>1. call' = [call EXCEPT !.age = age]
    BY DEF Tick
  <2>2. age \in 0..Deadline
    BY <1>1, AccessNumbers DEF Tick, CallLocal
  <2>3. call.status # "none" => age = call.age + 1
    BY BlankRows
  <2> HIDE DEF age
  <2>4. call' \in CallLocal /\ call'.status = call.status /\ call'.age = age
    BY <1>1, <2>1, <2>2 DEF CallLocal
  <2> QED BY <2>3, <2>4
<1>8. /\ ticket' \in 0..TicketTTL
      /\ ticket' < TicketTTL => ticket' = ticket + 1
  BY <1>1, OlderAge, AccessNumbers DEF Tick
<1>9. call.age \in Nat /\ access.age \in Nat /\ ticket \in Nat
  BY <1>1, AccessNumbers DEF CallLocal, AccessToken
<1>10. CallIsOlder'
  BY <1>1, <1>5, <1>7, <1>9 DEF CallIsOlder
<1>11. TokenIsOlder'
  BY <1>1, <1>5, <1>6, <1>9, AccessNumbers DEF TokenIsOlder
<1>12. TicketIsOlder'
  BY <1>1, <1>5, <1>8, <1>9, AccessNumbers DEF TicketIsOlder
<1> QED
  BY <1>1, <1>2, <1>3, <1>4, <1>5, <1>6, <1>7, <1>8, <1>10, <1>11, <1>12
     DEF AccessInv, AccessTypeOK, Code, Account, RefreshToken, AccessToken, CallLocal,
         GuestChangesNothing

(* Every step keeps the invariant.                                         *)
LEMMA AccessNextInv == AccessInv /\ [AccessNext]_accessVars => AccessInv'
<1> SUFFICES ASSUME AccessInv, [AccessNext]_accessVars PROVE AccessInv'
  OBVIOUS
<1>1. CASE FetchKeys
  BY <1>1, AccessNumbers
     DEF FetchKeys, AccessInv, AccessTypeOK, Keys, CallIsOlder, TokenIsOlder, TicketIsOlder,
         GuestChangesNothing
<1>2. CASE UNCHANGED accessVars
  BY <1>2 DEF accessVars, AccessInv, AccessTypeOK, CallIsOlder, TokenIsOlder, TicketIsOlder,
              GuestChangesNothing
<1> QED
  BY <1>1, <1>2, CodeStep, CallBegins, IssueStep, CallEnds, SanctionStep, CallStep, TickStep
     DEF AccessNext

-----------------------------------------------------------------------------
(***************************************************************************)
(* The invariant of access: whatever claims another status than the        *)
(* account has is at least as old as the sanction, but for the length of   *)
(* a request, and a ticket but for the life of a token more.               *)
(***************************************************************************)
THEOREM AccessInductive == AccessSpec => []AccessInv
BY AccessInitInv, AccessNextInv, PTL DEF AccessSpec

(***************************************************************************)
(* A sanction of SetStatus is felt within the life of an access token and  *)
(* the length of a request, and by a listener within a ticket's life more, *)
(* for every choice of these times.                                        *)
(***************************************************************************)
THEOREM SanctionIsFelt == AccessSpec => []SanctionTakesHold
<1>1. AccessInv => SanctionTakesHold
  <2> SUFFICES ASSUME AccessInv PROVE SanctionTakesHold
    OBVIOUS
  <2>1. /\ account \in Account /\ access \in AccessToken /\ ticket \in 0..TicketTTL
        /\ access.status # "banned" /\ TokenIsOlder /\ TicketIsOlder
    BY DEF AccessInv, AccessTypeOK, Account, AccessToken
  <2>2. account.held \in Nat /\ access.age \in Nat /\ ticket \in Nat
    BY <2>1, AccessNumbers DEF Account, AccessToken
  <2>3. ASSUME account.status # "active", account.held >= AccessTTL + Deadline,
               NEW up \in BOOLEAN, Verify(access, up)
        PROVE  access.status = account.status
    BY <2>1, <2>2, <2>3, AccessNumbers DEF TokenIsOlder, Verify, Expired
  <2>4. ASSUME account.status # "active", account.held >= AccessTTL + Deadline,
               NEW route \in {"offer", "bid"}
        PROVE  ~Able(route)
    <3> SUFFICES ASSUME Able(route) PROVE FALSE
      OBVIOUS
    <3> PICK up \in BOOLEAN : Answers(route, access, TRUE, up)
      BY DEF Able
    <3>1. Verify(access, up) /\ access.status # "frozen"
      BY FrozenMakesNoBid
    <3>2. account.status \in Statuses /\ access.status = account.status
      BY <2>1, <2>3, <2>4, <3>1 DEF Account
    <3> QED BY <2>1, <2>4, <3>1, <3>2 DEF Statuses
  <2>5. ASSUME account.status = "banned", account.held >= AccessTTL + Deadline,
               NEW route \in Mutating \cup {"ticket"}
        PROVE  ~Able(route)
    <3> SUFFICES ASSUME NEW up \in BOOLEAN, Answers(route, access, TRUE, up) PROVE FALSE
      BY DEF Able
    <3>1. Verify(access, up)
      BY ChangeIsVerified
    <3> QED BY <2>1, <2>3, <2>5, <3>1
  <2>6. account.status = "banned" /\ account.held >= Hold => ticket >= TicketTTL
    BY <2>1, <2>2, AccessNumbers DEF TicketIsOlder
  <2> QED BY <2>4, <2>5, <2>6 DEF SanctionTakesHold
<1> QED BY <1>1, AccessInductive, PTL

(***************************************************************************)
(* No route changes anything for a request without a verified token.       *)
(***************************************************************************)
THEOREM GuestIsServedNothing == AccessSpec => []GuestChangesNothing
<1>1. AccessInv => GuestChangesNothing
  BY DEF AccessInv
<1> QED BY <1>1, AccessInductive, PTL

-----------------------------------------------------------------------------
(* CATEGORIES.                                                             *)

Local == [slug : Parents, kind : Kinds, parent : Parents, active : BOOLEAN]
PcLabels == {"idle", "insert", "update", "setActive"}

-----------------------------------------------------------------------------
(* Facts about the operators.                                              *)

(* The root is the parent of a category and no category itself.            *)
LEMMA RootIsNoSlug == Root \notin Slugs /\ Root \in Parents
BY CategorySets DEF Root, Parents

(* The empty local is one.                                                 *)
LEMMA NoLocalType == NoLocal \in Local
BY RootIsNoSlug DEF NoLocal, Local, Kinds

(* A request that goes on at a label keeps the types and disturbs no other *)
(* request.                                                                *)
LEMMA GotoType ==
    ASSUME BranchInv, NEW p \in Requests, NEW label \in PcLabels, NEW l \in Local,
           Goto(p, label, l)
    PROVE  /\ pc' \in [Requests -> PcLabels] /\ loc' \in [Requests -> Local]
           /\ pc'[p] = label /\ loc'[p] = l
           /\ \A q \in Requests \ {p} : pc'[q] = pc[q] /\ loc'[q] = loc[q]
BY DEF Goto, BranchInv, TypeOK, Local, PcLabels

(* What a moderator has checked survives what others write: rows stay, and *)
(* they stay in their branch.                                              *)
RowsStay == \A s \in Slugs : cats[s].there => cats'[s].there /\ cats'[s].kind = cats[s].kind

(* Everything a waiting request has checked stays true.                    *)
LEMMA CheckedStays ==
    ASSUME BranchInv, RowsStay, NEW q \in Requests, pc'[q] = pc[q], loc'[q] = loc[q]
    PROVE  CheckedBefore(q)'
<1>1. CheckedBefore(q) /\ loc[q].parent \in Parents
  BY DEF BranchInv, TypeOK
<1>2. QED
  BY <1>1 DEF CheckedBefore, GoodParent, RowsStay, Parents, Root

-----------------------------------------------------------------------------
(* The handlers' checks.                                                   *)

(* A check that lets a request on writes nothing and leaves it with what   *)
(* it has just checked.                                                    *)
LEMMA CheckStep ==
    ASSUME BranchInv, NEW p \in Requests,
           NEW label \in PcLabels, NEW l \in Local, Goto(p, label, l), UNCHANGED cats,
           /\ label # "idle" => l.slug \in Slugs
           /\ label \in {"insert", "update"} => GoodParent(l.parent, l.kind)
           /\ label \in {"update", "setActive"} => cats[l.slug].there
           /\ label = "update" => cats[l.slug].kind = l.kind
    PROVE  BranchInv'
<1>1. /\ pc' \in [Requests -> PcLabels] /\ loc' \in [Requests -> Local]
      /\ pc'[p] = label /\ loc'[p] = l
      /\ \A q \in Requests \ {p} : pc'[q] = pc[q] /\ loc'[q] = loc[q]
  BY GotoType
<1>2. TypeOK' /\ SameBranch'
  BY <1>1 DEF BranchInv, TypeOK, SameBranch, Local, PcLabels
<1>3. RowsStay
  BY DEF RowsStay
<1>4. ASSUME NEW q \in Requests PROVE CheckedBefore(q)'
  <2>1. CASE q = p
    BY <1>1, <2>1 DEF CheckedBefore, GoodParent
  <2>2. CASE q # p
    BY <1>1, <1>3, <2>2, CheckedStays
  <2>3. QED
    BY <2>1, <2>2
<1>5. QED
  BY <1>2, <1>4 DEF BranchInv

(* createCategory, updateCategory and toggleCategory are such checks.      *)
LEMMA HandlersCheck ==
    ASSUME BranchInv, NEW p \in Requests,
           \/ \E s \in Slugs, parent \in Parents :
                \/ \E kind \in Kinds : createCategory(p, s, kind, parent)
                \/ updateCategory(p, s, parent)
           \/ \E s \in Slugs, active \in BOOLEAN : toggleCategory(p, s, active)
    PROVE  BranchInv'
<1>1. NoLocal \in Local /\ Slugs \subseteq Parents /\ cats \in [Slugs -> Category]
  BY NoLocalType DEF Parents, BranchInv, TypeOK
<1>2. ASSUME NEW s \in Slugs, NEW parent \in Parents, NEW kind \in Kinds,
             createCategory(p, s, kind, parent)
      PROVE  BranchInv'
  <2> DEFINE l == [NoLocal EXCEPT !.slug = s, !.kind = kind, !.parent = parent]
  <2>1. l \in Local /\ l.slug = s /\ l.parent = parent /\ l.kind = kind
    BY <1>1 DEF Local
  <2>2. Goto(p, "insert", l) /\ UNCHANGED cats /\ GoodParent(parent, kind)
    BY <1>2 DEF createCategory, checkParent, AnyByID, GoodParent
  <2>3. "insert" \in PcLabels
    BY DEF PcLabels
  <2>4. QED
    BY <2>1, <2>2, <2>3, CheckStep
<1>3. ASSUME NEW s \in Slugs, NEW parent \in Parents, updateCategory(p, s, parent)
      PROVE  BranchInv'
  <2> DEFINE l == [NoLocal EXCEPT !.slug = s, !.kind = cats[s].kind, !.parent = parent]
  <2>1. cats[s].kind \in Kinds
    BY <1>1 DEF Category
  <2>2. l \in Local /\ l.slug = s /\ l.parent = parent /\ l.kind = cats[s].kind
    BY <1>1, <2>1 DEF Local
  <2>3. /\ Goto(p, "update", l) /\ UNCHANGED cats
        /\ GoodParent(parent, cats[s].kind) /\ cats[s].there
    BY <1>3 DEF updateCategory, checkParent, AnyByID, GoodParent
  <2>4. "update" \in PcLabels
    BY DEF PcLabels
  <2>5. QED
    BY <2>2, <2>3, <2>4, CheckStep
<1>4. ASSUME NEW s \in Slugs, NEW active \in BOOLEAN, toggleCategory(p, s, active)
      PROVE  BranchInv'
  <2> DEFINE l == [NoLocal EXCEPT !.slug = s, !.active = active]
  <2>1. l \in Local /\ l.slug = s
    BY <1>1 DEF Local
  <2>2. Goto(p, "setActive", l) /\ UNCHANGED cats /\ cats[s].there
    BY <1>4 DEF toggleCategory, AnyByID
  <2>3. "setActive" \in PcLabels
    BY DEF PcLabels
  <2>4. QED
    BY <2>1, <2>2, <2>3, CheckStep
<1>5. QED
  BY <1>2, <1>3, <1>4

-----------------------------------------------------------------------------
(* The handlers' writes.                                                   *)

(* A write that keeps the rows, their branches and good parents keeps the  *)
(* invariant.                                                              *)
LEMMA WriteStep ==
    ASSUME BranchInv, NEW p \in Requests, Return(p), RowsStay,
           cats' \in [Slugs -> Category],
           \A s \in Slugs : ~cats'[s].there => cats'[s] = NoRow,
           \A s \in Slugs : cats'[s].there => GoodParent(cats[s].parent, cats[s].kind)'
    PROVE  BranchInv'
<1>1. /\ pc' \in [Requests -> PcLabels] /\ loc' \in [Requests -> Local]
      /\ pc'[p] = "idle" /\ loc'[p] = NoLocal
      /\ \A q \in Requests \ {p} : pc'[q] = pc[q] /\ loc'[q] = loc[q]
  BY GotoType, NoLocalType DEF Return, PcLabels
<1>2. TypeOK'
  BY <1>1 DEF TypeOK, Local, PcLabels
<1>3. SameBranch'
  BY DEF SameBranch, GoodParent
<1>4. ASSUME NEW q \in Requests PROVE CheckedBefore(q)'
  <2>1. CASE q = p
    BY <1>1, <2>1 DEF CheckedBefore
  <2>2. CASE q # p
    BY <1>1, <2>2, CheckedStays
  <2>3. QED
    BY <2>1, <2>2
<1>5. QED
  BY <1>2, <1>3, <1>4 DEF BranchInv

(* Each of the three writes keeps the rows and hangs each category under a *)
(* good parent.                                                            *)
LEMMA HandlersWrite ==
    ASSUME BranchInv, NEW p \in Requests,
           CreateCategory(p) \/ UpdateCategory(p) \/ SetCategoryActive(p)
    PROVE  RowsStay /\ BranchInv'
<1> DEFINE l == loc[p]
<1>1. /\ l \in Local /\ CheckedBefore(p) /\ cats \in [Slugs -> Category] /\ SameBranch
      /\ \A s \in Slugs : ~cats[s].there => cats[s] = NoRow
  BY DEF BranchInv, TypeOK, Local
<1>2. Return(p) /\ l.slug \in Slugs
  BY <1>1 DEF CreateCategory, UpdateCategory, SetCategoryActive, CheckedBefore
<1>3. \A s \in Slugs : cats[s].parent \in Parents
  BY <1>1 DEF Category
<1>4. ASSUME RowsStay, NEW s \in Slugs, cats[s].there,
             cats'[s].parent = cats[s].parent, cats'[s].kind = cats[s].kind
      PROVE  GoodParent(cats[s].parent, cats[s].kind)'
  BY <1>1, <1>3, <1>4 DEF SameBranch, GoodParent, RowsStay, Parents, Root
<1>5. CASE CreateCategory(p)
  <2> DEFINE row == [there |-> TRUE, kind |-> l.kind, parent |-> l.parent, active |-> TRUE]
  <2>1. CASE SlugTaken(l.slug)
    <3>1. cats' = cats
      BY <1>5, <2>1 DEF CreateCategory
    <3>2. RowsStay
      BY <3>1 DEF RowsStay
    <3>3. QED
      BY <1>1, <1>2, <1>4, <3>1, <3>2, WriteStep
  <2>2. CASE ~SlugTaken(l.slug)
    <3>1. cats' = [cats EXCEPT ![l.slug] = row]
      BY <1>5, <2>2 DEF CreateCategory
    <3>2. row \in Category
      BY <1>1 DEF Category, Local
    <3>3. /\ cats' \in [Slugs -> Category] /\ cats'[l.slug] = row
          /\ \A s \in Slugs \ {l.slug} : cats'[s] = cats[s]
      BY <1>1, <1>2, <3>1, <3>2
    <3>4. RowsStay
      BY <2>2, <3>3 DEF RowsStay, SlugTaken
    <3>5. \A s \in Slugs : s = l.slug => GoodParent(cats[s].parent, cats[s].kind)'
      <4>1. GoodParent(l.parent, l.kind) /\ l.parent \in Parents
        BY <1>1, <1>5 DEF CheckedBefore, CreateCategory, Local
      <4>2. QED
        BY <3>3, <3>4, <4>1 DEF GoodParent, RowsStay, Parents, Root
    <3>6. \A s \in Slugs : cats'[s].there => GoodParent(cats[s].parent, cats[s].kind)'
      BY <1>4, <3>3, <3>4, <3>5
    <3>7. \A s \in Slugs : ~cats'[s].there => cats'[s] = NoRow
      BY <1>1, <3>3
    <3>8. QED
      BY <1>2, <3>3, <3>4, <3>6, <3>7, WriteStep
  <2>3. QED
    BY <2>1, <2>2
<1>6. CASE UpdateCategory(p)
  <2> DEFINE row == [cats[l.slug] EXCEPT !.parent = l.parent]
  <2>1. cats[l.slug].there /\ cats[l.slug].kind = l.kind /\ GoodParent(l.parent, l.kind)
    BY <1>1, <1>6 DEF CheckedBefore, UpdateCategory
  <2>2. row \in Category /\ row.there /\ row.kind = l.kind /\ row.parent = l.parent
    BY <1>1, <1>2, <2>1 DEF Category, Local
  <2>3. cats' = [cats EXCEPT ![l.slug] = row]
    BY <1>6 DEF UpdateCategory
  <2>4. /\ cats' \in [Slugs -> Category] /\ cats'[l.slug] = row
        /\ \A s \in Slugs \ {l.slug} : cats'[s] = cats[s]
    BY <1>1, <1>2, <2>2, <2>3
  <2>5. RowsStay
    BY <2>1, <2>2, <2>4 DEF RowsStay
  <2>6. \A s \in Slugs : s = l.slug => GoodParent(cats[s].parent, cats[s].kind)'
    <3>1. l.parent \in Parents
      BY <1>1 DEF Local
    <3>2. cats'[l.slug].parent = l.parent /\ cats'[l.slug].kind = l.kind
      BY <2>2, <2>4
    <3>3. l.parent # Root => cats'[l.parent].there /\ cats'[l.parent].kind = l.kind
      BY <2>1, <2>5, <3>1 DEF GoodParent, RowsStay, Parents, Root
    <3>4. QED
      BY <3>2, <3>3 DEF GoodParent
  <2>7. \A s \in Slugs : cats'[s].there => GoodParent(cats[s].parent, cats[s].kind)'
    BY <1>4, <2>4, <2>5, <2>6
  <2>8. \A s \in Slugs : ~cats'[s].there => cats'[s] = NoRow
    BY <1>1, <2>2, <2>4
  <2>9. QED
    BY <1>2, <2>4, <2>5, <2>7, <2>8, WriteStep
<1>7. CASE SetCategoryActive(p)
  <2> DEFINE row == [cats[l.slug] EXCEPT !.active = l.active]
  <2>1. cats[l.slug].there
    BY <1>1, <1>7 DEF CheckedBefore, SetCategoryActive
  <2>2. /\ row \in Category /\ row.there /\ row.kind = cats[l.slug].kind
        /\ row.parent = cats[l.slug].parent
    BY <1>1, <1>2, <2>1 DEF Category, Local
  <2>3. cats' = [cats EXCEPT ![l.slug] = row]
    BY <1>7 DEF SetCategoryActive
  <2>4. /\ cats' \in [Slugs -> Category] /\ cats'[l.slug] = row
        /\ \A s \in Slugs \ {l.slug} : cats'[s] = cats[s]
    BY <1>1, <1>2, <2>2, <2>3
  <2>5. RowsStay
    BY <2>2, <2>4 DEF RowsStay
  <2>6. \A s \in Slugs : cats'[s].there => GoodParent(cats[s].parent, cats[s].kind)'
    BY <1>4, <2>1, <2>2, <2>4, <2>5
  <2>7. \A s \in Slugs : ~cats'[s].there => cats'[s] = NoRow
    BY <1>1, <2>2, <2>4
  <2>8. QED
    BY <1>2, <2>4, <2>5, <2>6, <2>7, WriteStep
<1>8. QED
  BY <1>5, <1>6, <1>7

-----------------------------------------------------------------------------
(* The initial directory satisfies the invariant.                          *)
LEMMA InitBranchInv == Init => BranchInv
<1> SUFFICES ASSUME Init PROVE BranchInv
  OBVIOUS
<1> DEFINE row(b) == [NoRow EXCEPT !.there = b]
<1>1. ASSUME NEW s \in Slugs
      PROVE  /\ cats[s] \in Category /\ cats[s].parent = Root
             /\ ~cats[s].there => cats[s] = NoRow
  <2>1. \A b \in BOOLEAN : /\ row(b) \in Category /\ row(b).parent = Root
                           /\ ~row(b).there => row(b) = NoRow
    <3>1. ASSUME NEW r \in Category, NEW b \in BOOLEAN
          PROVE  /\ [r EXCEPT !.there = b] \in Category
                 /\ [r EXCEPT !.there = b].parent = r.parent
                 /\ [r EXCEPT !.there = b].there = b
                 /\ r.there = b => [r EXCEPT !.there = b] = r
      BY DEF Category
    <3>2. NoRow \in Category /\ NoRow.parent = Root /\ NoRow.there = FALSE
      BY RootIsNoSlug DEF Category, NoRow, Kinds
    <3>3. \A b \in BOOLEAN : ~b => b = FALSE
      OBVIOUS
    <3>4. QED
      BY <3>1, <3>2, <3>3
  <2>2. cats[s] = row(s \in Seeded)
    BY DEF Init
  <2>3. (s \in Seeded) \in BOOLEAN
    OBVIOUS
  <2> HIDE DEF row
  <2>4. QED
    BY <2>1, <2>2, <2>3, Zenon
<1>2. cats \in [Slugs -> Category]
  BY <1>1 DEF Init
<1>3. TypeOK
  BY <1>1, <1>2, NoLocalType DEF Init, TypeOK, Local
<1>4. SameBranch /\ \A p \in Requests : CheckedBefore(p)
  BY <1>1, <1>2 DEF Init, SameBranch, CheckedBefore
<1>5. QED
  BY <1>3, <1>4 DEF BranchInv

(* Every step keeps it.                                                    *)
LEMMA NextBranchInv == BranchInv /\ [Next]_vars => BranchInv'
<1>1. ASSUME BranchInv, Next PROVE BranchInv'
  BY <1>1, HandlersCheck, HandlersWrite DEF Next
<1>2. ASSUME BranchInv, UNCHANGED vars PROVE BranchInv'
  BY <1>2 DEF vars, BranchInv, TypeOK, SameBranch, CheckedBefore, GoodParent
<1>3. QED
  BY <1>1, <1>2

(* Rows and requests keep their shape, and a row that was never created is *)
(* blank: no UPDATE meets a missing row.                                   *)
THEOREM TypeCorrect == Spec => []TypeOK
<1>1. BranchInv => TypeOK
  BY DEF BranchInv
<1>2. QED
  BY <1>1, InitBranchInv, NextBranchInv, PTL DEF Spec

(* Whatever moderators do at once, works and machines never mix: every     *)
(* category hangs under an existing one of its own kind.                   *)
THEOREM BranchesNeverMix == Spec => []SameBranch
<1>1. BranchInv => SameBranch
  BY DEF BranchInv
<1>2. QED
  BY <1>1, InitBranchInv, NextBranchInv, PTL DEF Spec

(* No row is lost and none changes its branch; this is why a check made    *)
(* before the write still holds at the write.                              *)
THEOREM RowsAndBranchesStay == Spec => [][RowsStay]_vars
<1>1. BranchInv /\ Next => RowsStay
  <2>1. ASSUME BranchInv, Next PROVE RowsStay
    <3>1. CASE UNCHANGED cats
      BY <3>1 DEF RowsStay
    <3>2. CASE \E p \in Requests :
                 CreateCategory(p) \/ UpdateCategory(p) \/ SetCategoryActive(p)
      BY <2>1, <3>2, HandlersWrite
    <3>3. QED
      BY <2>1, <3>1, <3>2 DEF Next, createCategory, updateCategory, toggleCategory
  <2>2. QED
    BY <2>1
<1>2. QED
  BY <1>1, InitBranchInv, NextBranchInv, PTL DEF Spec

-----------------------------------------------------------------------------
(* CATEGORIES.  The tree that is read.  Induction is by a least            *)
(* counterexample throughout.                                              *)

(* A set of natural numbers that is not empty has a least element.         *)
LEMMA LeastNumber ==
    ASSUME NEW T, T \subseteq Nat, T # {}
    PROVE  \E m \in T : \A k \in T : m <= k
<1>1. \E m \in T : \A k \in T : ~(<<k, m>> \in OpToRel(<, Nat))
  <2> DEFINE R == OpToRel(<, Nat)
  <2>1. IsWellFoundedOn(R, Nat)
    BY NatLessThanWellFounded, Zenon
  <2> HIDE DEF R
  <2>2. \E m \in T : \A k \in T : ~(<<k, m>> \in R)
    BY <2>1, WFMin, Zenon
  <2>3. QED
    BY <2>2, Zenon DEF R
<1>2. PICK m \in T : \A k \in T : ~(k < m)
  BY <1>1 DEF OpToRel
<1>3. QED
  BY <1>2

(* A set that holds 0 and, with a number below N, the next one, holds all  *)
(* numbers up to N.                                                        *)
LEMMA UpTo ==
    ASSUME NEW N \in Nat, NEW T, 0 \in T,
           \A n \in 0..N : n # 0 /\ n - 1 \in T => n \in T
    PROVE  0..N \subseteq T
<1> SUFFICES ASSUME ~(0..N \subseteq T) PROVE FALSE
  OBVIOUS
<1> DEFINE out == (0..N) \ T
<1>1. out \subseteq Nat /\ out # {}
  OBVIOUS
<1>2. PICK m \in out : \A k \in out : m <= k
  BY <1>1, LeastNumber
<1>3. m \in 0..N /\ m \notin T /\ m # 0
  BY <1>2
<1>4. m - 1 \in 0..N /\ m - 1 \notin out
  BY <1>2, <1>3
<1>5. QED
  BY <1>3, <1>4

(* g[n] is what n applications of grow make of base.                       *)
Iterates(g, base, grow, N) ==
    \A n \in 0..N : g[n] = IF n = 0 THEN base ELSE grow[g[n - 1]]

(* A recursive definition that goes from set to set, N times, defines      *)
(* something: there is a function that satisfies it.                       *)
LEMMA IterationExists ==
    ASSUME NEW D, NEW base \in SUBSET D, NEW grow \in [SUBSET D -> SUBSET D],
           NEW N \in Nat
    PROVE  \E g \in [0..N -> SUBSET D] : Iterates(g, base, grow, N)
<1> USE DEF Iterates
<1> DEFINE good == {k \in Nat : \E g \in [0..k -> SUBSET D] : Iterates(g, base, grow, k)}
<1>1. 0 \in good
  <2>1. [n \in 0..0 |-> base] \in [0..0 -> SUBSET D]
    OBVIOUS
  <2>2. Iterates([n \in 0..0 |-> base], base, grow, 0)
    OBVIOUS
  <2>3. QED
    BY <2>1, <2>2
<1>2. ASSUME NEW k \in 0..N, k # 0, k - 1 \in good PROVE k \in good
  <2>1. PICK g \in [0..(k - 1) -> SUBSET D] : Iterates(g, base, grow, k - 1)
    BY <1>2
  <2> DEFINE h == [n \in 0..k |-> IF n = k THEN grow[g[k - 1]] ELSE g[n]]
  <2>2. h \in [0..k -> SUBSET D]
    BY <1>2, <2>1
  <2>3. \A n \in 0..(k - 1) : h[n] = g[n]
    BY <1>2
  <2>4. h[k] = grow[h[k - 1]]
    BY <1>2, <2>3
  <2>5. \A n \in 0..k : h[n] = IF n = 0 THEN base ELSE grow[h[n - 1]]
    <3> SUFFICES ASSUME NEW n \in 0..k
                 PROVE  h[n] = IF n = 0 THEN base ELSE grow[h[n - 1]]
      OBVIOUS
    <3>1. CASE n = k
      BY <1>2, <2>4, <3>1
    <3>2. CASE n # k
      BY <1>2, <2>1, <2>3, <3>2
    <3>3. QED
      BY <3>1, <3>2
  <2> HIDE DEF h
  <2>6. QED
    BY <1>2, <2>2, <2>5
<1>3. N \in good
  <2> HIDE DEF good
  <2>1. 0..N \subseteq good
    BY <1>1, <1>2, UpTo
  <2>2. QED
    BY <2>1
<1>4. QED
  BY <1>3

(* Iterating a step that only adds comes to an end: after N rounds it adds *)
(* nothing more, or there are more than N elements, since every round that *)
(* adds something adds at least one.                                       *)
LEMMA IterationSettles ==
    ASSUME NEW D, IsFiniteSet(D), NEW base \in SUBSET D, NEW N \in Nat,
           NEW grow \in [SUBSET D -> SUBSET D],
           \A X \in SUBSET D : X \subseteq grow[X],
           base # {} \/ grow[base] = base,
           NEW g \in [0..N -> SUBSET D], Iterates(g, base, grow, N)
    PROVE  /\ base \subseteq g[N]
           /\ grow[g[N]] = g[N] \/ Cardinality(g[N]) > N
<1>1. /\ g[0] = base
      /\ \A n \in 0..N : n # 0 => g[n] = grow[g[n - 1]]
  BY DEF Iterates
<1>2. \A n \in 0..N : IsFiniteSet(g[n]) /\ Cardinality(g[n]) \in Nat
  BY FS_Subset, FS_CardinalityType
<1> DEFINE T == {n \in 0..N : /\ base \subseteq g[n]
                              /\ grow[g[n]] = g[n] \/ Cardinality(g[n]) > n}
<1>3. 0 \in T
  <2>1. CASE grow[base] = base
    BY <1>1, <2>1
  <2>2. CASE base # {}
    <3>1. Cardinality(g[0]) # 0
      BY <1>1, <1>2, <2>2, FS_EmptySet
    <3>2. Cardinality(g[0]) > 0
      BY <1>2, <3>1
    <3>3. QED
      BY <1>1, <3>2
  <2>3. QED
    BY <2>1, <2>2
<1>4. ASSUME NEW n \in 0..N, n # 0, n - 1 \in T PROVE n \in T
  <2> DEFINE X == g[n - 1]
             Y == g[n]
  <2>1. n - 1 \in 0..N /\ n - 1 \in Nat /\ n \in Nat
    BY <1>4
  <2>2. Y = grow[X]
    BY <1>1, <1>4
  <2>3. X \subseteq Y /\ base \subseteq Y
    BY <1>4, <2>1, <2>2
  <2>4. CASE grow[X] = X
    BY <2>2, <2>3, <2>4
  <2>5. CASE grow[X] # X
    <3>1. Cardinality(X) > n - 1
      BY <1>4, <2>5
    <3>2. Cardinality(X) <= Cardinality(Y) /\ Cardinality(X) # Cardinality(Y)
      <4>1. X \in SUBSET Y /\ IsFiniteSet(Y) /\ X # Y
        BY <1>2, <2>2, <2>3, <2>5
      <4> HIDE DEF X, Y
      <4>2. QED
        BY <4>1, FS_Subset
    <3>3. Cardinality(X) \in Nat /\ Cardinality(Y) \in Nat
      BY <1>2, <2>1
    <3>4. Cardinality(Y) > n
      <4> HIDE DEF X, Y
      <4>1. QED
        BY <2>1, <3>1, <3>2, <3>3
    <3>5. QED
      BY <2>3, <3>4
  <2>6. QED
    BY <2>4, <2>5
<1>5. N \in T
  <2> HIDE DEF T
  <2>1. 0..N \subseteq T
    BY <1>3, <1>4, UpTo
  <2>2. QED
    BY <2>1
<1>6. QED
  BY <1>5

-----------------------------------------------------------------------------
(* One level of BuildTree: what hangs under X is added.                    *)
DownOnce(flat, X) == X \cup {s \in flat : cats[s].parent \in X}
Down(flat) == [X \in SUBSET flat |-> DownOnce(flat, X)]

(* One level of Above: the parents are added; nothing is above the root.   *)
UpOnce(X) == X \cup {cats[c].parent : c \in X \ {Root}}
Up == [X \in SUBSET Parents |-> UpOnce(X)]

(* BuildTree is the last of its levels.                                    *)
LEMMA BuildTreeLevels ==
    ASSUME NEW flat, IsFiniteSet(flat)
    PROVE  \E level \in [0..Cardinality(flat) -> SUBSET flat] :
             /\ Iterates(level, Roots(flat), Down(flat), Cardinality(flat))
             /\ BuildTree(flat) = level[Cardinality(flat)]
<1> DEFINE N == Cardinality(flat)
           base == Roots(flat)
           grow == Down(flat)
           Def(g) == g = [n \in 0..N |->
                            IF n = 0 THEN Roots(flat)
                            ELSE g[n - 1] \cup {s \in flat : cats[s].parent \in g[n - 1]}]
           level == CHOOSE g : Def(g)
<1>1. N \in Nat /\ base \in SUBSET flat /\ grow \in [SUBSET flat -> SUBSET flat]
  BY FS_CardinalityType DEF Roots, Down, DownOnce
<1>2. \A X \in SUBSET flat : grow[X] = X \cup {s \in flat : cats[s].parent \in X}
  BY DEF Down, DownOnce
<1>3. PICK g \in [0..N -> SUBSET flat] : Iterates(g, base, grow, N)
  <2> HIDE DEF N, base, grow
  <2>1. QED
    BY <1>1, IterationExists
<1>4. Def(g)
  <2> HIDE DEF N, grow
  <2>1. \A n \in 0..N : g[n] = IF n = 0 THEN Roots(flat)
                ELSE g[n - 1] \cup {s \in flat : cats[s].parent \in g[n - 1]}
    BY <1>1, <1>2, <1>3 DEF Iterates
  <2>2. QED
    BY <1>3, <2>1
<1>5. Def(level)
  BY <1>4
<1>6. BuildTree(flat) = level[N]
  BY DEF BuildTree
<1> HIDE DEF level
<1>7. \A n \in 0..N : level[n] \in SUBSET flat
  <2> DEFINE T == {n \in 0..N : level[n] \in SUBSET flat}
  <2>1. 0 \in T
    BY <1>1, <1>5
  <2>2. \A n \in 0..N : n # 0 /\ n - 1 \in T => n \in T
    BY <1>1, <1>5
  <2> HIDE DEF T, N
  <2>3. 0..N \subseteq T
    BY <1>1, <2>1, <2>2, UpTo
  <2>4. QED
    BY <2>3 DEF T
<1>8. level \in [0..N -> SUBSET flat]
  BY <1>5, <1>7
<1>9. Iterates(level, base, grow, N)
  <2> HIDE DEF grow
  <2>1. QED
    BY <1>1, <1>2, <1>5, <1>8 DEF Iterates
<1>10. QED
  BY <1>6, <1>8, <1>9

(* BuildTree shows the roots and whatever hangs under what it shows: after *)
(* as many levels as there are rows nothing is left to add.                *)
LEMMA TreeIsClosed ==
    ASSUME NEW flat, IsFiniteSet(flat)
    PROVE  /\ Roots(flat) \subseteq BuildTree(flat)
           /\ BuildTree(flat) \subseteq flat
           /\ DownOnce(flat, BuildTree(flat)) = BuildTree(flat)
<1> DEFINE N == Cardinality(flat)
           base == Roots(flat)
           grow == Down(flat)
<1>1. PICK level \in [0..N -> SUBSET flat] :
        Iterates(level, base, grow, N) /\ BuildTree(flat) = level[N]
  BY BuildTreeLevels
<1>2. N \in Nat /\ base \in SUBSET flat /\ grow \in [SUBSET flat -> SUBSET flat]
  BY FS_CardinalityType DEF Roots, Down, DownOnce
<1>3. \A X \in SUBSET flat : grow[X] = DownOnce(flat, X) /\ X \subseteq grow[X]
  BY DEF Down, DownOnce
<1>4. base # {} \/ grow[base] = base
  <2>1. ASSUME base = {} PROVE DownOnce(flat, base) = base
    BY <2>1 DEF DownOnce
  <2> HIDE DEF base, grow
  <2>2. QED
    BY <1>2, <1>3, <2>1
<1>5. base \subseteq level[N] /\ (grow[level[N]] = level[N] \/ Cardinality(level[N]) > N)
  <2> HIDE DEF N, base, grow
  <2>1. QED
    BY <1>1, <1>2, <1>3, <1>4, IterationSettles
<1>6. level[N] \in SUBSET flat
  BY <1>1, <1>2
<1>7. ~(Cardinality(level[N]) > N)
  <2>1. Cardinality(level[N]) <= N /\ Cardinality(level[N]) \in Nat
    BY <1>6, FS_Subset, FS_CardinalityType
  <2>2. QED
    BY <1>2, <2>1
<1>8. QED
  BY <1>1, <1>3, <1>5, <1>6, <1>7

(* BuildTree shows nothing of a set of rows whose parents are all among    *)
(* themselves: nothing of it is a root, and no level comes into it.        *)
LEMMA CircleIsNotShown ==
    ASSUME NEW flat, IsFiniteSet(flat), NEW U, U \subseteq flat,
           \A c \in U : cats[c].parent \in U
    PROVE  U \cap BuildTree(flat) = {}
<1> DEFINE N == Cardinality(flat)
<1>1. PICK level \in [0..N -> SUBSET flat] :
        Iterates(level, Roots(flat), Down(flat), N) /\ BuildTree(flat) = level[N]
  BY BuildTreeLevels
<1>2. N \in Nat
  BY FS_CardinalityType
<1>3. level[0] = Roots(flat)
  BY <1>1, <1>2 DEF Iterates
<1>4. \A n \in 0..N : n # 0 => level[n] = DownOnce(flat, level[n - 1])
  <2>1. \A n \in 0..N : n # 0 => level[n] = Down(flat)[level[n - 1]]
    BY <1>1, <1>2 DEF Iterates
  <2>2. \A X \in SUBSET flat : Down(flat)[X] = DownOnce(flat, X)
    BY DEF Down
  <2> HIDE DEF N
  <2>3. QED
    BY <1>1, <1>2, <2>1, <2>2
<1> DEFINE T == {n \in 0..N : U \cap level[n] = {}}
<1>5. 0 \in T
  BY <1>2, <1>3 DEF Roots
<1>6. \A n \in 0..N : n # 0 /\ n - 1 \in T => n \in T
  <2> HIDE DEF N
  <2>1. QED
    BY <1>4 DEF DownOnce
<1>7. N \in T
  <2> HIDE DEF T, N
  <2>1. 0..N \subseteq T
    BY <1>2, <1>5, <1>6, UpTo
  <2>2. QED
    BY <1>2, <2>1
<1>8. QED
  BY <1>1, <1>7

(* Above is the last of its levels.                                        *)
LEMMA AboveLevels ==
    ASSUME TypeOK, NEW s \in Slugs
    PROVE  /\ {s} \in SUBSET Parents /\ Up \in [SUBSET Parents -> SUBSET Parents]
           /\ \E up \in [0..Cardinality(Slugs) -> SUBSET Parents] :
                /\ Iterates(up, {s}, Up, Cardinality(Slugs))
                /\ Above(s) = up[Cardinality(Slugs)]
<1> DEFINE N == Cardinality(Slugs)
           base == {s}
           grow == Up
           Def(g) == g = [n \in 0..N |->
                            IF n = 0 THEN {s}
                            ELSE g[n - 1] \cup {cats[c].parent : c \in g[n - 1] \ {Root}}]
           up == CHOOSE g : Def(g)
<1>1. N \in Nat
  BY CategorySets, FS_CardinalityType
<1>2. base \in SUBSET Parents /\ grow \in [SUBSET Parents -> SUBSET Parents]
  BY DEF Up, UpOnce, TypeOK, Category, Parents
<1>3. \A X \in SUBSET Parents : grow[X] = X \cup {cats[c].parent : c \in X \ {Root}}
  BY DEF Up, UpOnce
<1>4. PICK g \in [0..N -> SUBSET Parents] : Iterates(g, base, grow, N)
  <2> HIDE DEF N, base, grow
  <2>1. QED
    BY <1>1, <1>2, IterationExists
<1>5. Def(g)
  <2> HIDE DEF N, grow
  <2>1. \A n \in 0..N : g[n] = IF n = 0 THEN {s}
                ELSE g[n - 1] \cup {cats[c].parent : c \in g[n - 1] \ {Root}}
    BY <1>1, <1>3, <1>4 DEF Iterates
  <2>2. QED
    BY <1>4, <2>1
<1>6. Def(up)
  BY <1>5
<1>7. Above(s) = up[N]
  BY DEF Above
<1> HIDE DEF up
<1>8. \A n \in 0..N : up[n] \in SUBSET Parents
  <2> DEFINE T == {n \in 0..N : up[n] \in SUBSET Parents}
  <2>1. 0 \in T
    BY <1>1, <1>2, <1>6
  <2>2. \A n \in 0..N : n # 0 /\ n - 1 \in T => n \in T
    <3> SUFFICES ASSUME NEW n \in 0..N, n # 0, up[n - 1] \in SUBSET Parents
                 PROVE  up[n] \in SUBSET Parents
      OBVIOUS
    <3>1. up[n] = grow[up[n - 1]]
      BY <1>3, <1>6
    <3> HIDE DEF grow
    <3>2. QED
      BY <1>2, <3>1
  <2> HIDE DEF T, N
  <2>3. 0..N \subseteq T
    BY <1>1, <2>1, <2>2, UpTo
  <2>4. QED
    BY <2>3 DEF T
<1>9. up \in [0..N -> SUBSET Parents]
  BY <1>6, <1>8
<1>10. Iterates(up, base, grow, N)
  <2> HIDE DEF grow
  <2>1. QED
    BY <1>1, <1>3, <1>6, <1>9 DEF Iterates
<1>11. QED
  BY <1>2, <1>7, <1>9, <1>10

(* The way up that stays among the rows of a list has gone as far as it    *)
(* can: the parents of its categories are on it.                           *)
LEMMA WayUpIsClosed ==
    ASSUME TypeOK, NEW s \in Slugs, Above(s) \subseteq Slugs
    PROVE  s \in Above(s) /\ \A c \in Above(s) : cats[c].parent \in Above(s)
<1> DEFINE N == Cardinality(Slugs)
           base == {s}
           grow == Up
<1>1. PICK up \in [0..N -> SUBSET Parents] :
        Iterates(up, base, grow, N) /\ Above(s) = up[N]
  BY AboveLevels
<1>2. N \in Nat /\ IsFiniteSet(Slugs) /\ IsFiniteSet(Parents)
  BY CategorySets, FS_CardinalityType, FS_AddElement DEF Parents
<1>3. base \in SUBSET Parents /\ grow \in [SUBSET Parents -> SUBSET Parents] /\ base # {}
  BY AboveLevels
<1>4. \A X \in SUBSET Parents : grow[X] = UpOnce(X) /\ X \subseteq grow[X]
  BY DEF Up, UpOnce
<1>5. base \subseteq up[N] /\ (grow[up[N]] = up[N] \/ Cardinality(up[N]) > N)
  <2> HIDE DEF N, base, grow
  <2>1. QED
    BY <1>1, <1>2, <1>3, <1>4, IterationSettles
<1>6. ~(Cardinality(up[N]) > N)
  <2>1. up[N] \in SUBSET Slugs
    BY <1>1
  <2>2. Cardinality(up[N]) <= N /\ Cardinality(up[N]) \in Nat
    BY <1>2, <2>1, FS_Subset, FS_CardinalityType
  <2>3. QED
    BY <1>2, <2>2
<1>7. UpOnce(Above(s)) = Above(s)
  <2>1. up[N] \in SUBSET Parents
    BY <1>1, <1>2
  <2>2. QED
    BY <1>1, <1>4, <1>5, <1>6, <2>1
<1>8. QED
  BY <1>1, <1>5, <1>7, RootIsNoSlug DEF UpOnce

(* The way up from a row that BuildTree does not show stays among such     *)
(* rows.                                                                   *)
LEMMA LostIsInACircle ==
    ASSUME TypeOK, NEW flat, flat \subseteq Slugs,
           NEW s \in flat, s \notin BuildTree(flat)
    PROVE  Above(s) \subseteq flat \ BuildTree(flat)
<1> DEFINE N == Cardinality(Slugs)
           lost == flat \ BuildTree(flat)
<1>1. IsFiniteSet(flat)
  BY CategorySets, FS_Subset
<1>2. \A c \in lost : cats[c].parent \in lost
  BY <1>1, TreeIsClosed DEF Roots, DownOnce
<1>3. PICK up \in [0..N -> SUBSET Parents] :
        Iterates(up, {s}, Up, N) /\ Above(s) = up[N]
  BY AboveLevels
<1>4. N \in Nat
  BY CategorySets, FS_CardinalityType
<1>5. up[0] = {s} /\ \A n \in 0..N : n # 0 => up[n] = UpOnce(up[n - 1])
  <2>1. up[0] = {s} /\ \A n \in 0..N : n # 0 => up[n] = Up[up[n - 1]]
    BY <1>3, <1>4 DEF Iterates
  <2>2. \A X \in SUBSET Parents : Up[X] = UpOnce(X)
    BY DEF Up
  <2> HIDE DEF N
  <2>3. QED
    BY <1>3, <1>4, <2>1, <2>2
<1> DEFINE T == {n \in 0..N : up[n] \subseteq lost}
<1>6. 0 \in T
  BY <1>4, <1>5
<1>7. \A n \in 0..N : n # 0 /\ n - 1 \in T => n \in T
  <2> HIDE DEF lost, N
  <2>1. QED
    BY <1>2, <1>5 DEF UpOnce
<1>8. N \in T
  <2> HIDE DEF T, N
  <2>1. 0..N \subseteq T
    BY <1>4, <1>6, <1>7, UpTo
  <2>2. QED
    BY <1>4, <2>1
<1>9. QED
  BY <1>3, <1>8

(* What BuildTree shows of a list, exactly: a row is in the tree if and    *)
(* only if its way up leaves the list, at the root or at a row that is     *)
(* hidden or of another kind.                                              *)
ShowsAllButCircles ==
    \A kinds \in SUBSET Kinds : \A s \in List(kinds) :
        s \in BuildTree(List(kinds)) <=> ~(Above(s) \subseteq List(kinds))

(* BuildTree leaves out exactly the circles that moderators have made, for *)
(* every directory that they can reach.                                    *)
THEOREM TreeIsExact == Spec => []ShowsAllButCircles
<1>1. ASSUME TypeOK, NEW flat, flat \subseteq Slugs, NEW s \in flat
      PROVE  s \in BuildTree(flat) <=> ~(Above(s) \subseteq flat)
  <2>1. ASSUME s \notin BuildTree(flat) PROVE Above(s) \subseteq flat
    BY <1>1, <2>1, LostIsInACircle
  <2>2. ASSUME Above(s) \subseteq flat PROVE s \notin BuildTree(flat)
    <3>1. IsFiniteSet(flat)
      BY <1>1, CategorySets, FS_Subset
    <3>2. s \in Above(s) /\ \A c \in Above(s) : cats[c].parent \in Above(s)
      BY <1>1, <2>2, WayUpIsClosed
    <3>3. Above(s) \cap BuildTree(flat) = {}
      BY <2>2, <3>1, <3>2, CircleIsNotShown
    <3>4. QED
      BY <3>2, <3>3
  <2>3. QED
    BY <2>1, <2>2
<1>2. TypeOK => ShowsAllButCircles
  <2> SUFFICES ASSUME TypeOK, NEW kinds \in SUBSET Kinds, NEW s \in List(kinds)
               PROVE  s \in BuildTree(List(kinds)) <=> ~(Above(s) \subseteq List(kinds))
    BY DEF ShowsAllButCircles
  <2> DEFINE flat == List(kinds)
  <2>1. flat \subseteq Slugs /\ s \in flat
    BY DEF List
  <2> HIDE DEF flat
  <2>2. s \in BuildTree(flat) <=> ~(Above(s) \subseteq flat)
    BY <1>1, <2>1
  <2>3. QED
    BY <2>2 DEF flat
<1>3. QED
  BY <1>2, TypeCorrect, PTL

(* Hiding, moving and filtering lose nothing: in every reachable directory *)
(* a visible category whose way up comes to a root is in the tree that     *)
(* BuildTree makes.  It holds although two moderators together can close a *)
(* circle.                                                                 *)
THEOREM TreeIsComplete == Spec => []TreeShowsTheRest
<1>1. ShowsAllButCircles => TreeShowsTheRest
  BY RootIsNoSlug DEF ShowsAllButCircles, TreeShowsTheRest, List
<1>2. QED
  BY <1>1, TreeIsExact, PTL

=============================================================================
