-------------------------- MODULE Accounts_proofs --------------------------
(***************************************************************************)
(* Proofs about Accounts for every number of requests, accounts, tokens    *)
(* and applications.                                                       *)
(***************************************************************************)
EXTENDS Accounts, TLAPS

-----------------------------------------------------------------------------
(* Facts about the operators.                                              *)

(* The blank rows are rows.                                                *)
LEMMA BlankRows == /\ NoUser \in User /\ Registered \in User /\ NoToken \in Token
                   /\ NoUser.row = "none" /\ Registered.row = "live"
                   /\ ~NoUser.verified /\ ~Registered.verified
                   /\ NoUser.status = "active" /\ Registered.status = "active"
<1>1. /\ NoUser \in User /\ NoUser.row = "none" /\ ~NoUser.verified
      /\ NoUser.status = "active"
  BY AccountProcs DEF NoUser, User
<1>2. NoToken \in Token
  BY DEF NoToken, Token
<1>3. ASSUME NEW r \in User
      PROVE  /\ [r EXCEPT !.row = "live"] \in User /\ [r EXCEPT !.row = "live"].row = "live"
             /\ [r EXCEPT !.row = "live"].status = r.status
             /\ [r EXCEPT !.row = "live"].verified = r.verified
  BY DEF User
<1>4. QED
  BY <1>1, <1>2, <1>3 DEF Registered

(* Nothing is an account, a token or an application that is 0.             *)
LEMMA ZeroIsNothing == 0 \notin Accounts /\ 0 \notin Tokens /\ 0 \notin Apps
BY AccountBounds DEF Accounts, Tokens, Apps

(* A fresh local is one, and relies on nothing.                            *)
LEMMA NoLocalType ==
    /\ NoLocal \in Local /\ NoLocal.token = 0 /\ NoLocal.user = 0
    /\ NoLocal.row = NoUser
BY BlankRows DEF NoLocal, Local

(* The copy UpdateUser will write has the badge of the row that was read.  *)
LEMMA CopyType ==
    ASSUME NEW r \in User
    PROVE  Copy(r) \in User /\ Copy(r).verified = r.verified
BY BlankRows DEF Copy, User

(* UpdateUser keeps everything but name, role and badge, and the row of an *)
(* erased account altogether.                                              *)
LEMMA UpdatedType ==
    ASSUME NEW now \in User, NEW copy \in User
    PROVE  /\ Updated(now, copy) \in User
           /\ Updated(now, copy).row = now.row
           /\ Updated(now, copy).status = now.status
           /\ Updated(now, copy).verified => now.verified \/ copy.verified
           /\ now.row # "live" => Updated(now, copy) = now
BY DEF Updated, User

-----------------------------------------------------------------------------
(* The shape of a step.                                                    *)

(* The process p goes on with a well-formed local it may rely on; when it  *)
(* begins to exchange a token, that token was not used before.             *)
Lands(p) ==
    \E label \in Labels, l \in Local :
        /\ Goto(p, label, l)
        /\ Ready(label, l)'
        /\ label \in Exchanging /\ l.token # 0 =>
             \/ pc[p] \in Exchanging /\ loc[p].token = l.token
             \/ ~tokens[l.token].used

(* The accounts stay one per number, erased for good, badged by right.     *)
UsersKeep ==
    /\ users' \in [Accounts -> User]
    /\ OneAccountPerNumber' /\ ErasedForGood' /\ BadgeWasEarned'

(* The tokens stay whose they are and used when they are.                  *)
TokensKeep ==
    /\ tokens' \in [Tokens -> Token]
    /\ TokenRows' /\ OneSuccessor'
    /\ \A t \in Tokens : tokens[t].user # 0 =>
         tokens'[t].user = tokens[t].user /\ (tokens[t].used => tokens'[t].used)

(* Process p exchanges no token but its own.                               *)
OthersKeep(p) ==
    \A t \in Tokens : /\ tokens[t].user # 0 /\ tokens[t].heirs = 0
                      /\ ~(pc[p] \in Exchanging /\ loc[p].token = t)
                      => tokens'[t].heirs = 0

AppsKeep ==
    /\ apps' \in [Apps -> App]
    /\ \A a \in Apps : apps'[a].status # "none" \/ apps[a].user # 0 => apps'[a].user # 0

EarnedKeeps == earned \subseteq earned' /\ earned' \subseteq Accounts

(* A step of process p.                                                    *)
StepOf(p) ==
    /\ Lands(p) /\ OthersKeep(p)
    /\ UsersKeep /\ TokensKeep /\ AppsKeep /\ EarnedKeeps

(* Tables that a step leaves alone keep what they promise.                 *)
LEMMA UsersRest ==
    ASSUME AccountInv, UNCHANGED <<users, earned>> PROVE UsersKeep
BY DEF AccountInv, TypeOK, UsersKeep, OneAccountPerNumber, ErasedForGood, BadgeWasEarned,
       OfPhone, Live

(* So do the sessions.                                                     *)
LEMMA TokensRest ==
    ASSUME AccountInv, UNCHANGED tokens PROVE TokensKeep /\ \A p : OthersKeep(p)
BY DEF AccountInv, TypeOK, TokensKeep, TokenRows, OneSuccessor, OthersKeep

(* So do the applications.                                                 *)
LEMMA AppsRest ==
    ASSUME AccountInv, UNCHANGED apps PROVE AppsKeep
BY DEF AccountInv, TypeOK, AppsKeep

(* So does the history of approvals.                                       *)
LEMMA EarnedRests ==
    ASSUME AccountInv, UNCHANGED earned PROVE EarnedKeeps
BY DEF AccountInv, TypeOK, EarnedKeeps

(* A process without a token and without a badge in its copy relies on its *)
(* account alone.                                                          *)
LEMMA PlainReady ==
    ASSUME NEW label \in Labels \ {"revokeFamily", "markUsed", "readUser", "setVerified",
                                   "writeApp"},
           NEW l, l.token = 0, ~l.row.verified, label \in WithUser => l.user # 0
    PROVE  Ready(label, l)'
BY DEF Ready

(* Process p goes on at such a label.                                      *)
LEMMA PlainLands ==
    ASSUME NEW p,
           NEW label \in Labels \ {"revokeFamily", "markUsed", "readUser", "setVerified",
                                   "writeApp"},
           NEW l \in Local, l.token = 0, ~l.row.verified, label \in WithUser => l.user # 0,
           Goto(p, label, l)
    PROVE  Lands(p)
BY PlainReady DEF Lands

(* Process p returns.                                                      *)
LEMMA ReturnLands == ASSUME NEW p, Return(p) PROVE Lands(p)
<1>1. "idle" \in Labels \ {"revokeFamily", "markUsed", "readUser", "setVerified", "writeApp"}
  BY DEF Labels
<1>2. "idle" \notin WithUser
  BY DEF WithUser
<1>3. QED
  BY <1>1, <1>2, NoLocalType, BlankRows, PlainLands DEF Return

(* One account changes its row, and keeps what the invariant asks.         *)
LEMMA OneUserStep ==
    ASSUME AccountInv, NEW u \in Accounts, NEW r \in User, users' = [users EXCEPT ![u] = r],
           r.row = "live" => Live(u) \/ OfPhone = {},
           r.row = "erased" => ~r.named /\ ~r.verified /\ r.deletion = "no",
           r.verified => u \in earned', EarnedKeeps
    PROVE  UsersKeep
<1>1. /\ users \in [Accounts -> User] /\ OneAccountPerNumber /\ ErasedForGood /\ BadgeWasEarned
  BY DEF AccountInv, TypeOK
<1>2. /\ users' \in [Accounts -> User] /\ users'[u] = r
      /\ \A v \in Accounts \ {u} : users'[v] = users[v]
  BY <1>1
<1>3. OneAccountPerNumber'
  BY <1>1, <1>2 DEF OneAccountPerNumber, OfPhone, Live
<1>4. ErasedForGood' /\ BadgeWasEarned'
  BY <1>1, <1>2 DEF ErasedForGood, BadgeWasEarned, EarnedKeeps
<1>5. QED
  BY <1>2, <1>3, <1>4 DEF UsersKeep

(* One field of the row changes that no rule of the accounts looks at.     *)
LEMMA SameUserStep ==
    ASSUME AccountInv, NEW u \in Accounts, NEW r \in User, users' = [users EXCEPT ![u] = r],
           UNCHANGED earned, r.row = users[u].row, r.verified = users[u].verified,
           r.named = users[u].named, users[u].row = "erased" => r.deletion = "no"
    PROVE  UsersKeep
<1>1. ErasedForGood /\ BadgeWasEarned
  BY DEF AccountInv
<1>2. r.row = "live" => Live(u)
  BY DEF Live
<1>3. r.row = "erased" => ~r.named /\ ~r.verified /\ r.deletion = "no"
  BY <1>1 DEF ErasedForGood
<1>4. r.verified => u \in earned'
  BY <1>1 DEF BadgeWasEarned
<1>5. QED
  BY <1>2, <1>3, <1>4, OneUserStep, EarnedRests

-----------------------------------------------------------------------------
(* Steps that only read, or begin.                                         *)

(* Nothing changes but the process itself.                                 *)
LEMMA QuietStep ==
    ASSUME AccountInv, NEW p, Lands(p), UNCHANGED <<rows, earned>>
    PROVE  StepOf(p)
BY UsersRest, TokensRest, AppsRest, EarnedRests DEF StepOf, rows

(* A request begins; SetStatus has its own lemma, because it writes.       *)
LEMMA BeginStep ==
    ASSUME AccountInv, NEW p \in Procs,
           \/ VerifyOTP(p)
           \/ \E t \in Tokens : Refresh(p, t)
           \/ \E u \in Accounts :
                \/ \E named \in BOOLEAN : UpdateProfile(p, u, named)
                \/ SubmitVerification(p, u) \/ RequestDeletion(p, u)
           \/ \E a \in Apps, verdict \in {"approved", "rejected"} :
                ReviewVerification(p, a, verdict)
    PROVE  StepOf(p)
<1>1. UNCHANGED <<rows, earned>>
  BY DEF VerifyOTP, Refresh, UpdateProfile, SubmitVerification, RequestDeletion,
         ReviewVerification
<1>2. /\ NoLocal \in Local /\ NoLocal.token = 0 /\ ~NoLocal.row.verified
      /\ users \in [Accounts -> User] /\ apps \in [Apps -> App]
  BY NoLocalType, BlankRows DEF AccountInv, TypeOK
<1>3. ASSUME VerifyOTP(p) PROVE Lands(p)
  BY <1>2, <1>3, PlainLands DEF VerifyOTP, Labels, WithUser
<1>4. ASSUME NEW t \in Tokens, Refresh(p, t) PROVE Lands(p)
  <2> DEFINE l == [NoLocal EXCEPT !.token = t]
             label == IF tokens[t].used THEN "revokeFamily" ELSE "markUsed"
  <2>1. l \in Local /\ l.token = t /\ ~l.row.verified
    BY <1>2 DEF Local
  <2>2. Goto(p, label, l) /\ tokens[t].user # 0 /\ UNCHANGED tokens
    BY <1>4 DEF Refresh, rows
  <2>3. \A d : d = l => Ready(label, d)'
    BY <2>1, <2>2, ZeroIsNothing DEF Ready, WithUser, Exchanging
  <2>4. label \in Labels /\ label \notin Exchanging
    BY DEF Labels, Exchanging
  <2>5. QED
    BY <2>1, <2>2, <2>3, <2>4 DEF Lands
<1>5. ASSUME NEW u \in Accounts, NEW named \in BOOLEAN, UpdateProfile(p, u, named)
      PROVE  Lands(p)
  <2> DEFINE copy == [Copy(users[u]) EXCEPT !.named = named]
             l == [NoLocal EXCEPT !.user = u, !.row = copy]
  <2>1. copy \in User /\ copy.verified = users[u].verified
    BY <1>2, CopyType DEF User
  <2>2. l \in Local /\ l.token = 0 /\ l.user = u /\ l.row = copy
    BY <1>2, <2>1 DEF Local
  <2>3. users[u].verified => u \in earned
    BY DEF AccountInv, BadgeWasEarned
  <2>4. \A d : d = l => Ready("writeUser", d)'
    BY <1>1, <2>1, <2>2, <2>3, ZeroIsNothing DEF Ready, Exchanging
  <2>5. QED
    BY <1>5, <2>2, <2>4 DEF UpdateProfile, Lands, Labels, Exchanging
<1>6. ASSUME NEW u \in Accounts, SubmitVerification(p, u) \/ RequestDeletion(p, u)
      PROVE  Lands(p)
  <2> DEFINE l == [NoLocal EXCEPT !.user = u]
  <2>1. l \in Local /\ l.token = 0 /\ l.user = u /\ ~l.row.verified
    BY <1>2 DEF Local
  <2>2. PICK label \in {"createApp", "queueDeletion"} : Goto(p, label, l)
    BY <1>6 DEF SubmitVerification, RequestDeletion
  <2>3. QED
    BY <2>1, <2>2, PlainLands, ZeroIsNothing DEF Labels
<1>7. ASSUME NEW a \in Apps, NEW verdict \in {"approved", "rejected"},
             ReviewVerification(p, a, verdict)
      PROVE  Lands(p)
  <2> DEFINE l == [NoLocal EXCEPT !.app = a, !.word = verdict, !.user = apps[a].user]
  <2>1. apps[a].user # 0 /\ apps[a].user \in Accounts \cup {0}
    BY <1>2, <1>7 DEF AccountInv, ReviewVerification, Reviewable, App
  <2>2. /\ l \in Local /\ l.token = 0 /\ l.user = apps[a].user /\ ~l.row.verified
        /\ l.word = verdict /\ l.app = a /\ a # 0
    BY <1>2, <2>1, ZeroIsNothing DEF Local
  <2>3. \A d : d = l => Ready("writeApp", d)'
    BY <1>1, <2>1, <2>2 DEF Ready, Exchanging, rows
  <2>4. QED
    BY <1>7, <2>2, <2>3 DEF ReviewVerification, Lands, Labels, Exchanging
<1>8. QED
  BY <1>1, <1>3, <1>4, <1>5, <1>6, <1>7, QuietStep

(* Sign-in finds the account, a refresh reads it.                          *)
LEMMA ReadStep ==
    ASSUME AccountInv, NEW p \in Procs,
           FindUser(p) \/ ReadUser(p) \/ LogStatus(p) \/ LogReview(p)
    PROVE  StepOf(p)
<1>1. UNCHANGED <<rows, earned>>
  BY DEF FindUser, ReadUser, LogStatus, LogReview
<1>2. /\ NoLocal \in Local /\ NoLocal.token = 0 /\ ~NoLocal.row.verified
      /\ users \in [Accounts -> User] /\ tokens \in [Tokens -> Token]
      /\ loc[p] \in Local /\ Ready(pc[p], loc[p])
  BY NoLocalType, BlankRows DEF AccountInv, TypeOK
<1>3. ASSUME NEW u \in Accounts, NEW label \in {"saveRefresh"},
             Goto(p, label, [NoLocal EXCEPT !.user = u])
      PROVE  Lands(p)
  <2> DEFINE l == [NoLocal EXCEPT !.user = u]
  <2>1. l \in Local /\ l.token = 0 /\ l.user = u /\ ~l.row.verified
    BY <1>2 DEF Local
  <2>2. QED
    BY <1>3, <2>1, PlainLands, ZeroIsNothing DEF Labels
<1>4. ASSUME FindUser(p) PROVE Lands(p)
  <2>1. CASE Goto(p, "createUser", NoLocal)
    BY <1>2, <2>1, PlainLands DEF Labels, WithUser
  <2>2. CASE Return(p)
    BY <2>2, ReturnLands
  <2>3. ASSUME NEW u \in OfPhone,
               Goto(p, "cancelDeletion", [NoLocal EXCEPT !.user = u, !.word = users[u].status])
        PROVE  Lands(p)
    <3> DEFINE l == [NoLocal EXCEPT !.user = u, !.word = users[u].status]
    <3>1. u \in Accounts /\ users[u].status \in Sanctions
      BY <1>2 DEF OfPhone, User
    <3>2. l \in Local /\ l.token = 0 /\ l.user = u /\ ~l.row.verified
      BY <1>2, <3>1 DEF Local
    <3>3. QED
      BY <2>3, <3>1, <3>2, PlainLands, ZeroIsNothing DEF Labels
  <2>4. ASSUME NEW u \in OfPhone,
               Goto(p, "grantRole", [NoLocal EXCEPT !.user = u,
                        !.row = [Copy(users[u]) EXCEPT !.moderator = TRUE]])
        PROVE  Lands(p)
    <3> DEFINE copy == [Copy(users[u]) EXCEPT !.moderator = TRUE]
               l == [NoLocal EXCEPT !.user = u, !.row = copy]
    <3>1. u \in Accounts
      BY DEF OfPhone
    <3>2. copy \in User /\ copy.verified = users[u].verified
      <4>1. Copy(users[u]) \in User /\ Copy(users[u]).verified = users[u].verified
        BY <1>2, <3>1, CopyType
      <4>2. ASSUME NEW r \in User
            PROVE  /\ [r EXCEPT !.moderator = TRUE] \in User
                   /\ [r EXCEPT !.moderator = TRUE].verified = r.verified
        BY DEF User
      <4>3. QED
        BY <4>1, <4>2
    <3>3. l \in Local /\ l.token = 0 /\ l.user = u /\ l.row = copy
      BY <1>2, <3>1, <3>2 DEF Local
    <3>4. users[u].verified => u \in earned
      BY <3>1 DEF AccountInv, BadgeWasEarned
    <3>5. \A d : d = l => Ready("grantRole", d)'
      BY <1>1, <3>1, <3>2, <3>3, <3>4, ZeroIsNothing DEF Ready, Exchanging
    <3>6. QED
      BY <2>4, <3>3, <3>5 DEF Lands, Labels, Exchanging
  <2>5. ASSUME NEW u \in OfPhone, Goto(p, "saveRefresh", [NoLocal EXCEPT !.user = u])
        PROVE  Lands(p)
    BY <1>3, <2>5 DEF OfPhone
  <2>6. QED
    BY <1>4, <2>1, <2>2, <2>3, <2>4, <2>5 DEF FindUser
<1>5. ASSUME ReadUser(p) PROVE Lands(p)
  <2> DEFINE t == loc[p].token
             u == tokens[t].user
             l == [NoLocal EXCEPT !.user = u, !.token = t]
  <2>1. CASE Return(p)
    BY <2>1, ReturnLands
  <2>2. CASE Goto(p, "saveRefresh", l)
    <3>1. /\ pc[p] = "readUser" /\ t \in Tokens /\ u # 0 /\ u \in Accounts \cup {0}
          /\ tokens[t].used /\ tokens[t].heirs = 0
      BY <1>2, <1>5 DEF ReadUser, Ready, Local, Token, Exchanging
    <3>2. l \in Local /\ l.token = t /\ l.user = u /\ ~l.row.verified
      BY <1>2, <3>1 DEF Local
    <3>3. \A d : d = l => Ready("saveRefresh", d)'
      BY <1>1, <3>1, <3>2 DEF Ready, rows
    <3>4. QED
      BY <2>2, <3>1, <3>2, <3>3 DEF Lands, Labels, Exchanging
  <2>3. QED
    BY <1>5, <2>1, <2>2 DEF ReadUser
<1>6. ASSUME LogStatus(p) \/ LogReview(p) PROVE Lands(p)
  <2>1. CASE Return(p)
    BY <2>1, ReturnLands
  <2>2. CASE LogStatus(p) /\ Goto(p, "revokeAll", loc[p])
    <3>1. \A d : d = loc[p] => Ready("revokeAll", d)'
      BY <1>1, <1>2, <2>2 DEF Ready, rows, WithUser, Exchanging, LogStatus
    <3>2. QED
      BY <1>2, <2>2, <3>1 DEF Lands, Labels, Exchanging
  <2>3. QED
    BY <1>6, <2>1, <2>2 DEF LogStatus, LogReview
<1>7. QED
  BY <1>1, <1>4, <1>5, <1>6, QuietStep

-----------------------------------------------------------------------------
(* Steps that write to the accounts.                                       *)

(* Nothing changes but the accounts and the process itself.                *)
LEMMA UserWriteStep ==
    ASSUME AccountInv, NEW p, Lands(p), UsersKeep, UNCHANGED <<tokens, apps, earned>>
    PROVE  StepOf(p)
BY TokensRest, AppsRest, EarnedRests DEF StepOf

(* Sign-in goes on to the session of account u.                            *)
LEMMA SaveLands ==
    ASSUME NEW p, NEW u \in Accounts, Goto(p, "saveRefresh", [NoLocal EXCEPT !.user = u])
    PROVE  Lands(p)
<1> DEFINE l == [NoLocal EXCEPT !.user = u]
<1>1. l \in Local /\ l.token = 0 /\ l.user = u /\ ~l.row.verified
  BY NoLocalType, BlankRows DEF Local
<1>2. QED
  BY <1>1, PlainLands, ZeroIsNothing DEF Labels

(* The first sign-in makes an account, if the number has none.             *)
LEMMA CreateUserStep ==
    ASSUME AccountInv, NEW p \in Procs, CreateUser(p) PROVE StepOf(p)
<1>1. UNCHANGED <<tokens, apps, earned>>
  BY DEF CreateUser
<1>2. CASE Return(p) /\ UNCHANGED users
  BY <1>1, <1>2, ReturnLands, UsersRest, UserWriteStep
<1>3. ASSUME NEW u \in Accounts, OfPhone = {},
             users' = [users EXCEPT ![u] = [NoUser EXCEPT !.row = "live",
                                                          !.moderator = isModerator]],
             Goto(p, "saveRefresh", [NoLocal EXCEPT !.user = u])
      PROVE  StepOf(p)
  <2> DEFINE r == [NoUser EXCEPT !.row = "live", !.moderator = isModerator]
  <2>1. isModerator \in BOOLEAN
    BY AccountProcs DEF isModerator
  <2>2. r \in User /\ r.row = "live" /\ r.verified = NoUser.verified
    BY <2>1, BlankRows DEF User
  <2>3. ~r.verified
    BY <2>2, BlankRows
  <2>4. UsersKeep
    BY <1>1, <1>3, <2>2, <2>3, OneUserStep, EarnedRests
  <2>5. QED
    BY <1>1, <1>3, <2>4, SaveLands, UserWriteStep
<1>4. QED
  BY <1>2, <1>3 DEF CreateUser

(* Sign-in takes back a deletion.                                          *)
LEMMA CancelOnSignInStep ==
    ASSUME AccountInv, NEW p \in Procs, CancelOnSignIn(p) PROVE StepOf(p)
<1> DEFINE u == loc[p].user
<1>1. UNCHANGED <<tokens, apps, earned>>
  BY DEF CancelOnSignIn
<1>2. users \in [Accounts -> User] /\ u \in Accounts
  BY DEF AccountInv, TypeOK, Ready, CancelOnSignIn, WithUser, Local
<1>3. Lands(p)
  BY <1>2, ReturnLands, SaveLands DEF CancelOnSignIn
<1>4. CASE users[u].row = "erased"
  <2>1. UNCHANGED users
    BY <1>4 DEF CancelOnSignIn
  <2>2. QED
    BY <1>1, <1>3, <2>1, UsersRest, UserWriteStep
<1>5. CASE users[u].row # "erased"
  <2> DEFINE r == [users[u] EXCEPT !.deletion = "no"]
  <2>1. users' = [users EXCEPT ![u] = r]
    BY <1>5 DEF CancelOnSignIn
  <2>2. /\ r \in User /\ r.row = users[u].row /\ r.verified = users[u].verified
        /\ r.named = users[u].named
    BY <1>2 DEF User
  <2>3. UsersKeep
    BY <1>1, <1>2, <1>5, <2>1, <2>2, SameUserStep
  <2>4. QED
    BY <1>1, <1>3, <2>3, UserWriteStep
<1>6. QED
  BY <1>4, <1>5

(* UpdateUser writes a copy: a badge it brings was earned.                 *)
LEMMA UpdateUserStep ==
    ASSUME AccountInv, NEW p \in Procs, GrantRole(p) \/ WriteUser(p) PROVE StepOf(p)
<1> DEFINE u == loc[p].user
           r == Updated(users[u], loc[p].row)
<1>1. UNCHANGED <<tokens, apps, earned>> /\ users' = [users EXCEPT ![u] = r]
  BY DEF GrantRole, WriteUser
<1>2. /\ users \in [Accounts -> User] /\ loc[p] \in Local /\ u \in Accounts
      /\ ErasedForGood /\ BadgeWasEarned /\ Ready(pc[p], loc[p])
  BY DEF AccountInv, TypeOK, Ready, GrantRole, WriteUser, WithUser, Local
<1>3. Lands(p)
  BY <1>2, ReturnLands, SaveLands DEF GrantRole, WriteUser
<1>4. loc[p].row \in User
  BY <1>2 DEF Local
<1>5. /\ r \in User /\ r.row = users[u].row
      /\ r.verified => users[u].verified \/ loc[p].row.verified
      /\ users[u].row # "live" => r = users[u]
  BY <1>2, <1>4, UpdatedType
<1>6. r.verified => u \in earned'
  BY <1>1, <1>2, <1>5 DEF BadgeWasEarned, Ready
<1>7. r.row = "erased" => ~r.named /\ ~r.verified /\ r.deletion = "no"
  BY <1>2, <1>5 DEF ErasedForGood
<1>8. r.row = "live" => Live(u)
  BY <1>5 DEF Live
<1>9. UsersKeep
  BY <1>1, <1>2, <1>5, <1>6, <1>7, <1>8, OneUserStep, EarnedRests
<1>10. QED
  BY <1>1, <1>3, <1>9, UserWriteStep

(* A moderator sets the status of a live account.                          *)
LEMMA SetStatusStep ==
    ASSUME AccountInv, NEW p \in Procs, NEW u \in Accounts, NEW status \in Sanctions,
           SetStatus(p, u, status)
    PROVE  StepOf(p)
<1> DEFINE r == [users[u] EXCEPT !.status = status]
           l == [NoLocal EXCEPT !.user = u, !.word = status]
<1>1. /\ UNCHANGED <<tokens, apps, earned>> /\ users' = [users EXCEPT ![u] = r]
      /\ Live(u) /\ Goto(p, "logStatus", l)
  BY DEF SetStatus
<1>2. users \in [Accounts -> User]
  BY DEF AccountInv, TypeOK
<1>3. /\ r \in User /\ r.row = users[u].row /\ r.verified = users[u].verified
      /\ r.named = users[u].named
  BY <1>2 DEF User
<1>4. UsersKeep
  BY <1>1, <1>2, <1>3, SameUserStep DEF Live
<1>5. l \in Local /\ l.token = 0 /\ ~l.row.verified /\ l.user = u
  BY NoLocalType, BlankRows DEF Local
<1>6. Lands(p)
  BY <1>1, <1>5, PlainLands, ZeroIsNothing DEF Labels
<1>7. QED
  BY <1>1, <1>4, <1>6, UserWriteStep

(* The badge is given after an approval.                                   *)
LEMMA SetVerifiedStep ==
    ASSUME AccountInv, NEW p \in Procs, SetVerified(p) PROVE StepOf(p)
<1> DEFINE u == loc[p].user
           r == Badged(users[u])
<1>1. UNCHANGED <<tokens, apps, earned>> /\ users' = [users EXCEPT ![u] = r]
  BY DEF SetVerified
<1>2. /\ users \in [Accounts -> User] /\ loc[p] \in Local /\ u \in Accounts /\ u \in earned
      /\ ErasedForGood /\ BadgeWasEarned /\ Ready(pc[p], loc[p]) /\ pc[p] = "setVerified"
  BY DEF AccountInv, TypeOK, Ready, SetVerified, WithUser, Local
<1>3. Lands(p)
  <2>1. CASE Return(p)
    BY <2>1, ReturnLands
  <2>2. CASE Goto(p, "logReview", loc[p])
    <3>1. \A d : d = loc[p] => Ready("logReview", d)'
      BY <1>1, <1>2 DEF Ready, WithUser, Exchanging
    <3>2. QED
      BY <1>2, <2>2, <3>1 DEF Lands, Labels, Exchanging
  <2>3. QED
    BY <2>1, <2>2 DEF SetVerified
<1>4. r \in User /\ r.row = users[u].row /\ (users[u].row # "live" => r = users[u])
  BY <1>2 DEF Badged, User
<1>5. r.row = "erased" => ~r.named /\ ~r.verified /\ r.deletion = "no"
  BY <1>2, <1>4 DEF ErasedForGood
<1>6. UsersKeep
  BY <1>1, <1>2, <1>4, <1>5, OneUserStep, EarnedRests DEF Live
<1>7. QED
  BY <1>1, <1>3, <1>6, UserWriteStep

(* A deletion is asked for.                                                *)
LEMMA QueueDeletionStep ==
    ASSUME AccountInv, NEW p \in Procs, QueueDeletion(p) PROVE StepOf(p)
<1> DEFINE u == loc[p].user
           r == [users[u] EXCEPT !.deletion = IF Live(u) THEN "waiting" ELSE @]
<1>1. UNCHANGED <<tokens, apps, earned>> /\ users' = [users EXCEPT ![u] = r] /\ Lands(p)
  BY ReturnLands DEF QueueDeletion
<1>2. users \in [Accounts -> User] /\ u \in Accounts /\ ErasedForGood
  BY DEF AccountInv, TypeOK, Ready, QueueDeletion, WithUser, Local
<1>3. /\ r \in User /\ r.row = users[u].row /\ r.verified = users[u].verified
      /\ r.named = users[u].named /\ (~Live(u) => r.deletion = users[u].deletion)
  BY <1>2 DEF User
<1>4. UsersKeep
  BY <1>1, <1>2, <1>3, SameUserStep DEF ErasedForGood, Live
<1>5. QED
  BY <1>1, <1>4, UserWriteStep

(* The button that takes a deletion back, and the end of the grace period. *)
LEMMA DeletionFieldStep ==
    ASSUME AccountInv, NEW u \in Accounts, CancelDeletion(u) \/ GracePasses(u)
    PROVE  UsersKeep /\ UNCHANGED <<tokens, apps, pc, loc, earned>>
<1>1. users \in [Accounts -> User] /\ ErasedForGood
  BY DEF AccountInv, TypeOK
<1>2. PICK d \in {"no", "due"} :
        /\ users' = [users EXCEPT ![u].deletion = d]
        /\ users[u].row # "erased"
        /\ UNCHANGED <<tokens, apps, pc, loc, earned>>
  BY <1>1 DEF CancelDeletion, GracePasses, Live, ErasedForGood
<1> DEFINE r == [users[u] EXCEPT !.deletion = d]
<1>3. users' = [users EXCEPT ![u] = r]
  BY <1>2
<1>4. /\ r \in User /\ r.row = users[u].row /\ r.verified = users[u].verified
      /\ r.named = users[u].named
  BY <1>1 DEF User
<1>5. QED
  BY <1>2, <1>3, <1>4, SameUserStep

(* The worker's list, and one account after the other.                     *)
LEMMA WorkerUsersStep ==
    ASSUME AccountInv, DueDeletions \/ Anonymize PROVE StepOf(Worker)
<1> DEFINE p == Worker
<1>1. /\ p \in Procs /\ users \in [Accounts -> User] /\ loc[p] \in Local
      /\ loc[p].due \subseteq Accounts /\ Ready(pc[p], loc[p])
  BY DEF AccountInv, TypeOK, Procs, Local
<1>2. CASE DueDeletions
  <2> DEFINE l == [NoLocal EXCEPT !.due = Due]
  <2>1. Due \in SUBSET Accounts
    BY DEF Due
  <2>2. l \in Local /\ l.token = 0 /\ ~l.row.verified
    BY <2>1, NoLocalType, BlankRows DEF Local
  <2>3. Lands(p)
    BY <1>2, <2>2, PlainLands DEF DueDeletions, Labels, WithUser
  <2>4. QED
    BY <1>2, <2>3, QuietStep DEF DueDeletions
<1>3. CASE Anonymize
  <2>1. UNCHANGED <<tokens, apps, earned>> /\ pc[p] = "anonymize"
    BY <1>3 DEF Anonymize
  <2>2. CASE Return(p) /\ UNCHANGED users
    BY <2>1, <2>2, ReturnLands, UsersRest, UserWriteStep
  <2>3. ASSUME NEW u \in loc[p].due, users' = [users EXCEPT ![u] = Erased(u)],
               Goto(p, "revokeErased", [loc[p] EXCEPT !.user = u])
        PROVE  StepOf(p)
    <3> DEFINE l == [loc[p] EXCEPT !.user = u]
               r == Erased(u)
    <3>1. u \in Accounts
      BY <1>1
    <3>2. /\ r \in User /\ r.row = "erased" /\ r.verified = FALSE /\ r.named = FALSE
          /\ r.deletion = "no"
      BY <1>1, <3>1 DEF Erased, User
    <3>3. UsersKeep
      BY <2>1, <2>3, <3>1, <3>2, OneUserStep, EarnedRests
    <3>4. l \in Local /\ l.token = loc[p].token /\ l.row = loc[p].row /\ l.user = u
      BY <1>1, <3>1 DEF Local
    <3>5. loc[p].token = 0 /\ ~loc[p].row.verified
      BY <1>1, <2>1 DEF Ready
    <3>6. Lands(p)
      BY <2>3, <3>1, <3>4, <3>5, PlainLands, ZeroIsNothing DEF Labels
    <3>7. QED
      BY <2>1, <3>3, <3>6, UserWriteStep
  <2>4. QED
    BY <1>3, <2>2, <2>3 DEF Anonymize
<1>4. QED
  BY <1>2, <1>3

-----------------------------------------------------------------------------
(* Steps that write to the sessions.                                       *)

(* Nothing changes but the sessions and the process itself.                *)
LEMMA TokenWriteStep ==
    ASSUME AccountInv, NEW p, Lands(p), TokensKeep, OthersKeep(p),
           UNCHANGED <<users, apps, earned>>
    PROVE  StepOf(p)
BY UsersRest, AppsRest, EarnedRests DEF StepOf

(* Revoking sessions changes nothing else about them.                      *)
LEMMA RevokeStep ==
    ASSUME AccountInv, tokens' \in [Tokens -> Token],
           \A t \in Tokens : \/ tokens'[t] = tokens[t]
                             \/ /\ tokens[t].user # 0
                                /\ tokens'[t].user = tokens[t].user
                                /\ tokens'[t].used = tokens[t].used
                                /\ tokens'[t].heirs = tokens[t].heirs
    PROVE  TokensKeep /\ \A p : OthersKeep(p)
BY DEF AccountInv, TokensKeep, TokenRows, OneSuccessor, OthersKeep

(* RevokeAllRefresh is such a step.                                        *)
LEMMA RevokedAllStep ==
    ASSUME AccountInv, NEW u, u # 0, tokens' = RevokedAll(u)
    PROVE  TokensKeep /\ \A p : OthersKeep(p)
<1>1. tokens \in [Tokens -> Token]
  BY DEF AccountInv, TypeOK
<1>2. ASSUME NEW r \in Token
      PROVE  /\ [r EXCEPT !.revoked = TRUE] \in Token
             /\ [r EXCEPT !.revoked = TRUE].user = r.user
             /\ [r EXCEPT !.revoked = TRUE].used = r.used
             /\ [r EXCEPT !.revoked = TRUE].heirs = r.heirs
  BY DEF Token
<1>3. \A t \in Tokens : tokens'[t] = IF tokens[t].user = u
                                     THEN [tokens[t] EXCEPT !.revoked = TRUE]
                                     ELSE tokens[t]
  BY DEF RevokedAll
<1>4. tokens' \in [Tokens -> Token]
  BY <1>1, <1>2, <1>3 DEF RevokedAll
<1>5. QED
  BY <1>1, <1>2, <1>3, <1>4, RevokeStep

(* The revocations after a ban, of a family and after an erasure.          *)
LEMMA RevocationSteps ==
    ASSUME AccountInv, NEW p \in Procs,
           \/ RevokeFamily(p) \/ RevokeAllRefresh(p)
           \/ (p = Worker /\ RevokeErased)
    PROVE  StepOf(p)
<1>1. /\ tokens \in [Tokens -> Token] /\ loc[p] \in Local /\ Ready(pc[p], loc[p])
      /\ UNCHANGED <<users, apps, earned>>
  BY DEF AccountInv, TypeOK, RevokeFamily, RevokeAllRefresh, RevokeErased
<1>2. CASE RevokeFamily(p)
  <2> DEFINE t == loc[p].token
             r == [tokens[t] EXCEPT !.revoked = TRUE]
  <2>1. t \in Tokens /\ tokens[t].user # 0
    BY <1>1, <1>2 DEF RevokeFamily, Ready, Local
  <2>2. tokens' = [tokens EXCEPT ![t] = r]
    BY <1>2 DEF RevokeFamily
  <2>3. ASSUME NEW x \in Token
        PROVE  /\ [x EXCEPT !.revoked = TRUE] \in Token
               /\ [x EXCEPT !.revoked = TRUE].user = x.user
               /\ [x EXCEPT !.revoked = TRUE].used = x.used
               /\ [x EXCEPT !.revoked = TRUE].heirs = x.heirs
    BY DEF Token
  <2>4. /\ r \in Token /\ r.user = tokens[t].user /\ r.used = tokens[t].used
        /\ r.heirs = tokens[t].heirs
    BY <1>1, <2>1, <2>3
  <2>5. TokensKeep /\ OthersKeep(p)
    BY <1>1, <2>1, <2>2, <2>4, RevokeStep
  <2>6. QED
    BY <1>1, <1>2, <2>5, ReturnLands, TokenWriteStep DEF RevokeFamily
<1>3. CASE RevokeAllRefresh(p)
  <2>1. loc[p].user # 0 /\ tokens' = RevokedAll(loc[p].user)
    BY <1>1, <1>3 DEF RevokeAllRefresh, Ready, WithUser
  <2>2. QED
    BY <1>1, <1>3, <2>1, ReturnLands, RevokedAllStep, TokenWriteStep DEF RevokeAllRefresh
<1>4. CASE p = Worker /\ RevokeErased
  <2> DEFINE l == [NoLocal EXCEPT !.due = loc[p].due \ {loc[p].user}]
  <2>1. loc[p].user # 0 /\ tokens' = RevokedAll(loc[p].user) /\ Goto(p, "anonymize", l)
    BY <1>1, <1>4 DEF RevokeErased, Ready, WithUser
  <2>2. loc[p].due \ {loc[p].user} \in SUBSET Accounts
    BY <1>1 DEF Local
  <2>3. l \in Local /\ l.token = 0 /\ ~l.row.verified
    BY <2>2, NoLocalType, BlankRows DEF Local
  <2>4. Lands(p)
    BY <2>1, <2>3, PlainLands DEF Labels, WithUser
  <2>5. QED
    BY <1>1, <2>1, <2>4, RevokedAllStep, TokenWriteStep
<1>5. QED
  BY <1>2, <1>3, <1>4

(* A token is marked, once; who marks it exchanges it.                     *)
LEMMA MarkStep ==
    ASSUME AccountInv, NEW p \in Procs, MarkRefreshUsed(p) PROVE StepOf(p)
<1> DEFINE t == loc[p].token
           r == [tokens[t] EXCEPT !.used = TRUE]
<1>1. /\ tokens \in [Tokens -> Token] /\ loc[p] \in Local /\ Ready(pc[p], loc[p])
      /\ UNCHANGED <<users, apps, earned>> /\ pc[p] = "markUsed"
  BY DEF AccountInv, TypeOK, MarkRefreshUsed
<1>2. t \in Tokens /\ tokens[t].user # 0
  BY <1>1 DEF Ready, Local
<1>3. CASE AlreadyUsed(t)
  <2>1. Return(p) /\ UNCHANGED tokens
    BY <1>3 DEF MarkRefreshUsed
  <2>2. QED
    BY <1>1, <2>1, ReturnLands, TokensRest, TokenWriteStep
<1>4. CASE ~AlreadyUsed(t)
  <2>1. tokens' = [tokens EXCEPT ![t] = r] /\ Goto(p, "readUser", loc[p])
    BY <1>4 DEF MarkRefreshUsed
  <2>2. ~tokens[t].used /\ tokens[t].heirs = 0
    BY <1>2, <1>4 DEF AlreadyUsed, AccountInv, TokenRows
  <2>3. ASSUME NEW x \in Token
        PROVE  /\ [x EXCEPT !.used = TRUE] \in Token /\ [x EXCEPT !.used = TRUE].used
               /\ [x EXCEPT !.used = TRUE].user = x.user
               /\ [x EXCEPT !.used = TRUE].heirs = x.heirs
    BY DEF Token
  <2>4. r \in Token /\ r.used /\ r.user = tokens[t].user /\ r.heirs = 0
    BY <1>1, <1>2, <2>2, <2>3
  <2>5. /\ tokens' \in [Tokens -> Token] /\ tokens'[t] = r
        /\ \A s \in Tokens \ {t} : tokens'[s] = tokens[s]
    BY <1>1, <1>2, <2>1, <2>4
  <2>6. TokensKeep
    <3>1. TokenRows /\ OneSuccessor
      BY DEF AccountInv
    <3>2. ASSUME NEW s \in Tokens
          PROVE  /\ tokens'[s].user = 0 => tokens'[s] = NoToken
                 /\ ~tokens'[s].used => tokens'[s].heirs = 0
                 /\ tokens'[s].heirs <= 1
                 /\ tokens[s].user # 0 =>
                      tokens'[s].user = tokens[s].user /\ (tokens[s].used => tokens'[s].used)
      <4> HIDE DEF r
      <4>1. CASE s = t
        BY <1>2, <2>4, <2>5, <4>1
      <4>2. CASE s # t
        BY <2>5, <3>1, <4>2 DEF TokenRows, OneSuccessor
      <4>3. QED
        BY <4>1, <4>2
    <3>3. QED
      BY <2>5, <3>2 DEF TokensKeep, TokenRows, OneSuccessor
  <2>7. OthersKeep(p)
    BY <2>4, <2>5 DEF OthersKeep
  <2>8. \A d : d = loc[p] => Ready("readUser", d)'
    BY <1>1, <1>2, <2>4, <2>5, ZeroIsNothing DEF Ready, WithUser
  <2>9. Lands(p)
    BY <1>1, <2>1, <2>2, <2>8 DEF Lands, Labels
  <2>10. QED
    BY <1>1, <2>6, <2>7, <2>9, TokenWriteStep
<1>5. QED
  BY <1>3, <1>4

(* A session is saved, and the token it was given for has its heir.        *)
LEMMA SaveStep ==
    ASSUME AccountInv, NEW p \in Procs, SaveRefresh(p) PROVE StepOf(p)
<1> DEFINE t == loc[p].token
           u == loc[p].user
           now == Exchanged(t)
           free == {s \in Tokens : tokens[s].user = 0}
           new == [NoToken EXCEPT !.user = u]
<1>1. /\ tokens \in [Tokens -> Token] /\ loc[p] \in Local /\ Ready(pc[p], loc[p])
      /\ UNCHANGED <<users, apps, earned>> /\ pc[p] = "saveRefresh"
      /\ TokenRows /\ OneSuccessor
  BY DEF AccountInv, TypeOK, SaveRefresh
<1>2. u \in Accounts /\ u # 0 /\ t \in Tokens \cup {0}
  BY <1>1 DEF Ready, Local, WithUser
<1>3. t # 0 => t \in Tokens /\ tokens[t].user # 0 /\ tokens[t].used /\ tokens[t].heirs = 0
  BY <1>1, <1>2 DEF Ready, Exchanging
<1>4. /\ new \in Token /\ new.user = u /\ new.heirs = 0
  <2>1. ASSUME NEW x \in Token
        PROVE  /\ [x EXCEPT !.user = u] \in Token /\ [x EXCEPT !.user = u].user = u
               /\ [x EXCEPT !.user = u].heirs = x.heirs
    BY <1>2 DEF Token
  <2>2. NoToken \in Token /\ NoToken.heirs = 0
    BY BlankRows DEF NoToken
  <2>3. QED
    BY <2>1, <2>2
<1>5. ASSUME NEW s \in Tokens
      PROVE  /\ now[s] \in Token /\ now[s].user = tokens[s].user
             /\ now[s].used = tokens[s].used
             /\ s # t => now[s] = tokens[s]
             /\ s = t => now[s].heirs = 1
  <2>1. CASE t = 0
    BY <1>1, <2>1, ZeroIsNothing DEF Exchanged
  <2>2. CASE t # 0
    <3> DEFINE r == [tokens[t] EXCEPT !.heirs = IF @ < 2 THEN @ + 1 ELSE @]
    <3>1. now = [tokens EXCEPT ![t] = r]
      BY <2>2 DEF Exchanged
    <3>2. ASSUME NEW x \in Token, x.heirs = 0
          PROVE  LET y == [x EXCEPT !.heirs = IF @ < 2 THEN @ + 1 ELSE @]
                 IN y \in Token /\ y.heirs = 1 /\ y.user = x.user /\ y.used = x.used
      BY <3>2 DEF Token
    <3>3. r \in Token /\ r.heirs = 1 /\ r.user = tokens[t].user /\ r.used = tokens[t].used
      BY <1>1, <1>3, <2>2, <3>2
    <3>4. QED
      BY <1>1, <1>3, <2>2, <3>1, <3>3
  <2>3. QED
    BY <2>1, <2>2
<1>6. \A s \in Tokens :
        \/ tokens[s].user = 0 /\ tokens'[s] = new
        \/ tokens'[s] = now[s]
  BY DEF SaveRefresh
<1>7. tokens' \in [Tokens -> Token]
  BY <1>4, <1>5 DEF SaveRefresh
<1>8. \A s \in Tokens : tokens[s].user = 0 => s # t
  BY <1>3, ZeroIsNothing
<1>9. ASSUME NEW s \in Tokens
      PROVE  /\ tokens'[s].user = 0 => tokens'[s] = NoToken
             /\ ~tokens'[s].used => tokens'[s].heirs = 0
             /\ tokens'[s].heirs <= 1
             /\ tokens[s].user # 0 =>
                  tokens'[s].user = tokens[s].user /\ (tokens[s].used => tokens'[s].used)
  <2>1. tokens[s] \in Token /\ tokens[s].heirs <= 1
    BY <1>1 DEF OneSuccessor
  <2>2. CASE tokens[s].user = 0 /\ tokens'[s] = new
    BY <1>2, <1>4, <2>2
  <2>3. CASE tokens'[s] = now[s] /\ s # t
    BY <1>1, <1>5, <2>1, <2>3 DEF TokenRows
  <2>4. CASE tokens'[s] = now[s] /\ s = t
    BY <1>3, <1>5, <2>4, ZeroIsNothing
  <2>5. QED
    BY <1>6, <2>2, <2>3, <2>4
<1>10. TokensKeep
  BY <1>7, <1>9 DEF TokensKeep, TokenRows, OneSuccessor
<1>11. OthersKeep(p)
  BY <1>1, <1>4, <1>5, <1>6 DEF OthersKeep, Exchanging
<1>12. QED
  BY <1>1, <1>10, <1>11, ReturnLands, TokenWriteStep DEF SaveRefresh

-----------------------------------------------------------------------------
(* Steps that write to the applications, failures, and all steps together. *)

(* An application is filed.                                                *)
LEMMA CreateVerificationStep ==
    ASSUME AccountInv, NEW p \in Procs, CreateVerification(p) PROVE StepOf(p)
<1> DEFINE u == loc[p].user
<1>1. UNCHANGED <<users, tokens, earned>> /\ Lands(p)
  BY ReturnLands DEF CreateVerification
<1>2. u \in Accounts /\ u # 0 /\ apps \in [Apps -> App]
  BY DEF AccountInv, TypeOK, Ready, CreateVerification, WithUser, Local
<1>3. AppsKeep
  <2>1. CASE UNCHANGED apps
    BY <2>1, AppsRest
  <2>2. ASSUME NEW a \in Apps, apps' = [apps EXCEPT ![a] = [user |-> u, status |-> "pending"]]
        PROVE  AppsKeep
    <3>1. [user |-> u, status |-> "pending"] \in App
      BY <1>2 DEF App
    <3>2. apps' \in [Apps -> App]
      BY <1>2, <2>2, <3>1
    <3>3. \A b \in Apps : apps'[b].status # "none" \/ apps[b].user # 0 => apps'[b].user # 0
      BY <1>2, <2>2 DEF AccountInv
    <3>4. QED
      BY <3>2, <3>3 DEF AppsKeep
  <2>3. QED
    BY <2>1, <2>2 DEF CreateVerification
<1>4. QED
  BY <1>1, <1>3, UsersRest, TokensRest, EarnedRests DEF StepOf

(* A verdict is written; an approval makes the badge earned.               *)
LEMMA UpdateVerificationStep ==
    ASSUME AccountInv, NEW p \in Procs, UpdateVerification(p) PROVE StepOf(p)
<1> DEFINE a == loc[p].app
           l == loc[p]
           r == [apps[a] EXCEPT !.status = l.word]
<1>1. UNCHANGED <<users, tokens>> /\ apps' = [apps EXCEPT ![a] = r]
  BY DEF UpdateVerification
<1>2. /\ l \in Local /\ Ready(pc[p], l) /\ pc[p] = "writeApp" /\ apps \in [Apps -> App]
      /\ l.word \in {"approved", "rejected"} /\ l.user \in Accounts /\ earned \subseteq Accounts
  BY DEF AccountInv, TypeOK, Ready, UpdateVerification, WithUser, Local
<1>3. EarnedKeeps /\ (l.word = "approved" => l.user \in earned')
  BY <1>2 DEF UpdateVerification, EarnedKeeps
<1>4. AppsKeep
  <2>1. a \in Apps /\ apps[a].user # 0
    BY <1>2 DEF Ready, Local
  <2>2. r \in App /\ r.user = apps[a].user
    BY <1>2, <2>1 DEF App
  <2>3. /\ apps' \in [Apps -> App] /\ apps'[a] = r
        /\ \A b \in Apps \ {a} : apps'[b] = apps[b]
    BY <1>1, <1>2, <2>1, <2>2
  <2>4. QED
    BY <2>1, <2>2, <2>3 DEF AppsKeep, AccountInv
<1>5. UsersKeep
  BY <1>1, <1>3 DEF AccountInv, TypeOK, UsersKeep, OneAccountPerNumber, ErasedForGood,
                    BadgeWasEarned, OfPhone, Live, EarnedKeeps
<1>6. Lands(p)
  <2> DEFINE label == AfterVerdict(l.word)
  <2>1. label \in {"setVerified", "logReview"} /\ (label = "setVerified" => l.word = "approved")
    BY DEF AfterVerdict
  <2>2. Goto(p, label, l)
    BY DEF UpdateVerification
  <2>3. l.row.verified => l.user \in earned'
    BY <1>2, <1>3 DEF Ready, EarnedKeeps
  <2>4. \A x, d : x = label /\ d = l => Ready(x, d)'
    BY <1>1, <1>2, <1>3, <2>1, <2>3 DEF Ready, WithUser, Exchanging
  <2>5. label \in Labels /\ label \notin Exchanging
    BY <2>1 DEF Labels, Exchanging
  <2>6. QED
    BY <1>2, <2>2, <2>4, <2>5 DEF Lands
<1>7. QED
  BY <1>1, <1>3, <1>4, <1>5, <1>6, TokensRest DEF StepOf

(* A failed statement ends the request or the worker's account.            *)
LEMMA FailStep ==
    ASSUME AccountInv, NEW p \in Procs, Fail(p) PROVE StepOf(p)
<1>1. UNCHANGED <<rows, earned>>
  BY DEF Fail
<1>2. CASE Return(p)
  BY <1>1, <1>2, ReturnLands, QuietStep
<1>3. ASSUME NEW u, Goto(p, "anonymize", [NoLocal EXCEPT !.due = loc[p].due \ {u}])
      PROVE  StepOf(p)
  <2> DEFINE l == [NoLocal EXCEPT !.due = loc[p].due \ {u}]
  <2>1. loc[p].due \ {u} \in SUBSET Accounts
    BY DEF AccountInv, TypeOK, Local
  <2>2. l \in Local /\ l.token = 0 /\ ~l.row.verified
    BY <2>1, NoLocalType, BlankRows DEF Local
  <2>3. Lands(p)
    BY <1>3, <2>2, PlainLands DEF Labels, WithUser
  <2>4. QED
    BY <1>1, <2>3, QuietStep
<1>4. QED
  BY <1>2, <1>3 DEF Fail

(* Every step is one of a process, or changes one account's deletion.      *)
LEMMA StepShapes ==
    ASSUME AccountInv, Next
    PROVE  \/ \E p \in Procs : StepOf(p)
           \/ \E u \in Accounts : CancelDeletion(u) \/ GracePasses(u)
<1>1. ASSUME NEW p \in Requests, Begin(p) PROVE StepOf(p)
  BY <1>1, BeginStep, SetStatusStep DEF Begin, Procs
<1>2. ASSUME NEW p \in Requests, Continue(p) PROVE StepOf(p)
  BY <1>2, ReadStep, CreateUserStep, CancelOnSignInStep, UpdateUserStep, SaveStep,
     RevocationSteps, MarkStep, CreateVerificationStep, UpdateVerificationStep,
     SetVerifiedStep, QueueDeletionStep
     DEF Continue, Procs
<1>3. WorkerStep => StepOf(Worker)
  BY WorkerUsersStep, RevocationSteps DEF WorkerStep, Procs
<1>4. QED
  BY <1>1, <1>2, <1>3, FailStep DEF Next, Procs

(* The pairs in the history of barred requests have their type.            *)
LEMMA BarredType ==
    ASSUME TypeOK, Next PROVE barred' \subseteq Requests \X Accounts
<1>1. ASSUME NEW p \in Requests, NEW us, us \subseteq Accounts, Arrives(p, us)
      PROVE  barred' \subseteq Requests \X Accounts
  BY <1>1 DEF Arrives, TypeOK
<1>2. ASSUME NEW p, Leaves(p) \/ UNCHANGED barred PROVE barred' \subseteq Requests \X Accounts
  BY <1>2 DEF Leaves, TypeOK
<1>3. ASSUME NEW p \in Requests, Begin(p) PROVE barred' \subseteq Requests \X Accounts
  <2>1. CASE VerifyOTP(p)
    BY <1>1, <2>1 DEF VerifyOTP, OfPhone
  <2>2. ASSUME NEW t \in Tokens, Refresh(p, t) PROVE barred' \subseteq Requests \X Accounts
    <3>1. {tokens[t].user} \subseteq Accounts
      BY <2>2 DEF Refresh, TypeOK, Token
    <3>2. QED
      BY <1>1, <2>2, <3>1 DEF Refresh
  <2>3. ASSUME NEW u \in Accounts, NEW status \in Sanctions, SetStatus(p, u, status)
        PROVE  barred' \subseteq Requests \X Accounts
    BY <2>3 DEF SetStatus, TypeOK
  <2>4. QED
    BY <1>2, <1>3, <2>1, <2>2, <2>3
       DEF Begin, UpdateProfile, SubmitVerification, RequestDeletion, ReviewVerification
<1>4. ASSUME NEW p \in Requests, Continue(p) PROVE Leaves(p) \/ UNCHANGED barred
  BY <1>4 DEF Continue, FindUser, CreateUser, CancelOnSignIn, GrantRole, WriteUser, SaveRefresh,
     RevokeFamily, MarkRefreshUsed, ReadUser, LogStatus, RevokeAllRefresh, CreateVerification,
     UpdateVerification, SetVerified, LogReview, QueueDeletion
<1>5. WorkerStep => UNCHANGED barred
  BY DEF WorkerStep, DueDeletions, Anonymize, RevokeErased
<1>6. QED
  BY <1>2, <1>3, <1>4, <1>5 DEF Next, Fail, CancelDeletion, GracePasses

-----------------------------------------------------------------------------
(* The invariant of the accounts.                                          *)

(* What another process relies on survives a step of p: p exchanges no     *)
(* token that another one exchanges.                                       *)
LEMMA ReadyStays ==
    ASSUME AccountInv, NEW p \in Procs, StepOf(p), NEW q \in Procs \ {p}
    PROVE  \A label, l : label = pc[q] /\ l = loc[q] => Ready(label, l)'
<1> DEFINE t == loc[q].token
<1>1. /\ loc[q] \in Local /\ Ready(pc[q], loc[q]) /\ OneExchange
      /\ t \in Tokens \cup {0} /\ loc[q].app \in Apps \cup {0}
  BY DEF AccountInv, TypeOK, Local
<1>2. TokensKeep /\ OthersKeep(p) /\ AppsKeep /\ EarnedKeeps
  BY DEF StepOf
<1>3. t # 0 => tokens'[t].user # 0
  BY <1>1, <1>2 DEF Ready, TokensKeep
<1>4. pc[q] \in Exchanging /\ t # 0 => tokens'[t].used /\ tokens'[t].heirs = 0
  BY <1>1, <1>2 DEF Ready, TokensKeep, OthersKeep, OneExchange
<1>5. pc[q] = "writeApp" => apps'[loc[q].app].user # 0
  BY <1>1, <1>2 DEF Ready, AppsKeep
<1>6. QED
  BY <1>1, <1>2, <1>3, <1>4, <1>5 DEF Ready, EarnedKeeps

(* Every step keeps the invariant.                                         *)
LEMMA NextAccountInv == AccountInv /\ [Next]_vars => AccountInv'
<1> SUFFICES ASSUME AccountInv, [Next]_vars PROVE AccountInv'
  OBVIOUS
<1>1. TypeOK /\ pc \in [Procs -> Labels] /\ loc \in [Procs -> Local] /\ OneExchange
  BY DEF AccountInv, TypeOK
<1>2. ASSUME Next, NEW p \in Procs, StepOf(p) PROVE AccountInv'
  <2>1. UsersKeep /\ TokensKeep /\ AppsKeep /\ EarnedKeeps
    BY <1>2 DEF StepOf
  <2>2. PICK label \in Labels, l \in Local :
          /\ Goto(p, label, l)
          /\ Ready(label, l)'
          /\ label \in Exchanging /\ l.token # 0 =>
               \/ pc[p] \in Exchanging /\ loc[p].token = l.token
               \/ ~tokens[l.token].used
    BY <1>2 DEF StepOf, Lands
  <2>3. /\ pc' \in [Procs -> Labels] /\ pc'[p] = label
        /\ loc' \in [Procs -> Local] /\ loc'[p] = l
        /\ \A q \in Procs \ {p} : pc'[q] = pc[q] /\ loc'[q] = loc[q]
    BY <1>1, <2>2 DEF Goto
  <2>4. TypeOK'
    BY <1>1, <1>2, <2>1, <2>3, BarredType DEF TypeOK, UsersKeep, TokensKeep, AppsKeep, EarnedKeeps
  <2>5. ASSUME NEW q \in Procs PROVE Ready(pc[q], loc[q])'
    <3>1. CASE q = p
      BY <2>2, <2>3, <3>1 DEF Ready
    <3>2. CASE q # p
      <4>1. \A label1, l1 : label1 = pc[q] /\ l1 = loc[q] => Ready(label1, l1)'
        BY <1>2, <3>2, ReadyStays
      <4>2. QED
        BY <2>3, <3>2, <4>1 DEF Ready
    <3>3. QED
      BY <3>1, <3>2
  <2>6. ASSUME NEW q \in Procs \ {p}, loc'[q].token = l.token,
               pc'[q] \in Exchanging, label \in Exchanging
        PROVE  l.token = 0
    <3>1. Ready(pc[q], loc[q]) /\ pc[q] \in Exchanging /\ loc[q].token = l.token
      BY <2>3, <2>6 DEF AccountInv
    <3>2. l.token # 0 => tokens[l.token].used
      BY <3>1 DEF Ready
    <3>3. QED
      BY <1>1, <2>2, <2>6, <3>1, <3>2 DEF OneExchange
  <2>7. OneExchange'
    BY <1>1, <2>3, <2>6 DEF OneExchange
  <2>8. QED
    BY <2>1, <2>4, <2>5, <2>7 DEF AccountInv, UsersKeep, TokensKeep, AppsKeep
<1>3. ASSUME Next, NEW u \in Accounts, CancelDeletion(u) \/ GracePasses(u) PROVE AccountInv'
  <2>1. UsersKeep /\ UNCHANGED <<tokens, apps, pc, loc, earned>>
    BY <1>3, DeletionFieldStep
  <2>2. TypeOK'
    BY <1>1, <1>3, <2>1, BarredType DEF TypeOK, UsersKeep
  <2>3. TokenRows' /\ OneSuccessor' /\ OneExchange' /\ \A p \in Procs : Ready(pc[p], loc[p])'
    BY <2>1 DEF AccountInv, TokenRows, OneSuccessor, OneExchange, Ready
  <2>4. QED
    BY <2>1, <2>2, <2>3 DEF AccountInv, UsersKeep
<1>4. CASE UNCHANGED vars
  BY <1>4 DEF vars, rows, AccountInv, TypeOK, OneAccountPerNumber, OfPhone, Live, ErasedForGood,
              BadgeWasEarned, TokenRows, OneSuccessor, OneExchange, Ready
<1>5. QED
  BY <1>2, <1>3, <1>4, StepShapes

(* The initial state satisfies it.                                         *)
LEMMA InitAccountInv == Init => AccountInv
<1> SUFFICES ASSUME Init PROVE AccountInv
  OBVIOUS
<1>1. /\ users \in [Accounts -> User]
      /\ \A u \in Accounts : ~users[u].verified /\ users[u].row # "erased"
      /\ \A u \in Accounts : users[u].row = "live" => u = 1
  BY BlankRows DEF Init
<1>2. tokens \in [Tokens -> Token] /\ \A t \in Tokens : tokens[t] = NoToken
  BY BlankRows DEF Init
<1>3. apps \in [Apps -> App] /\ \A a \in Apps : apps[a].status = "none"
  BY DEF Init, App
<1>4. loc \in [Procs -> Local] /\ pc \in [Procs -> Labels]
  BY NoLocalType DEF Init, Labels
<1>5. TypeOK
  BY <1>1, <1>2, <1>3, <1>4 DEF Init, TypeOK
<1>6. OneAccountPerNumber /\ ErasedForGood /\ BadgeWasEarned
  BY <1>1 DEF OneAccountPerNumber, OfPhone, Live, ErasedForGood, BadgeWasEarned
<1>7. TokenRows /\ OneSuccessor
  BY <1>2 DEF TokenRows, OneSuccessor, NoToken
<1>8. OneExchange /\ \A p \in Procs : Ready(pc[p], loc[p])
  BY NoLocalType, BlankRows DEF Init, OneExchange, Ready, Exchanging, WithUser
<1>9. QED
  BY <1>3, <1>5, <1>6, <1>7, <1>8 DEF AccountInv

(* What every statement relies on holds when it is run, whatever ran since *)
(* it was decided.                                                         *)
THEOREM AccountsInductive == Spec => []AccountInv
BY InitAccountInv, NextAccountInv, PTL DEF Spec

(* Rows, copies and labels keep their shape.                               *)
THEOREM TypeCorrect == Spec => []TypeOK
<1>1. AccountInv => TypeOK
  BY DEF AccountInv
<1>2. QED
  BY <1>1, AccountsInductive, PTL

(* However many Refresh of one token overlap, one session comes of it.     *)
THEOREM TokenIsExchangedOnce == Spec => []OneSuccessor
<1>1. AccountInv => OneSuccessor
  BY DEF AccountInv
<1>2. QED
  BY <1>1, AccountsInductive, PTL

(* No late UpdateUser, SetVerified or deletion request touches the row of  *)
(* an erased account.                                                      *)
THEOREM ErasureIsFinal == Spec => []ErasedForGood
<1>1. AccountInv => ErasedForGood
  BY DEF AccountInv
<1>2. QED
  BY <1>1, AccountsInductive, PTL

(* Every badge comes from a moderator's approval, also when UpdateUser     *)
(* writes the badge of an older copy.                                      *)
THEOREM NoBadgeWithoutApproval == Spec => []BadgeWasEarned
<1>1. AccountInv => BadgeWasEarned
  BY DEF AccountInv
<1>2. QED
  BY <1>1, AccountsInductive, PTL

(* Overlapping first sign-ins and re-registrations after an erasure leave  *)
(* the number with one live account at most.                               *)
THEOREM NumberHasOneAccount == Spec => []OneAccountPerNumber
<1>1. AccountInv => OneAccountPerNumber
  BY DEF AccountInv
<1>2. QED
  BY <1>1, AccountsInductive, PTL

-----------------------------------------------------------------------------
(* Whoever came while his account was shut.                                *)

(* No account is opened again: its row and status stay, or it is erased.   *)
RowsKept ==
    \A u \in Accounts : \/ users'[u].row = users[u].row /\ users'[u].status = users[u].status
                        \/ users'[u].row = "erased"

(* Labels behind the check of the ban.                                     *)
PastCheck == {"grantRole", "saveRefresh", "cancelDeletion"}

(* A step of p to a label before the check, which bars nobody new.         *)
LEMMA BarPlain ==
    ASSUME TypeOK, BarInv, NEW p \in Procs, NEW label, label \notin PastCheck, NEW l,
           Goto(p, label, l), barred' \subseteq barred, RowsKept
    PROVE  BarInv'
<1>1. \A q \in Procs \ {p} : pc'[q] = pc[q] /\ loc'[q] = loc[q]
  BY DEF TypeOK, Goto
<1>2. pc'[p] = label
  BY DEF TypeOK, Goto
<1>3. \A q \in Requests, u \in Accounts : <<q, u>> \in barred' => Shut(u)'
  BY DEF BarInv, Shut, RowsKept
<1>4. \A u \in Accounts : users'[u].row = "none" => users'[u].status # "banned"
  BY DEF BarInv, RowsKept
<1>5. ASSUME NEW q \in Requests, <<q, loc'[q].user>> \in barred'
      PROVE  /\ pc'[q] \notin {"grantRole", "saveRefresh"}
             /\ pc'[q] = "cancelDeletion" => loc'[q].word = "banned"
  <2>1. CASE q = p
    BY <1>2, <2>1 DEF PastCheck
  <2>2. CASE q # p
    BY <1>1, <1>5, <2>2 DEF BarInv, Procs
  <2>3. QED
    BY <2>1, <2>2
<1>6. QED
  BY <1>3, <1>4, <1>5 DEF BarInv

(* A step of p past the check, to an account that does not bar it.         *)
LEMMA BarPast ==
    ASSUME TypeOK, BarInv, NEW p \in Requests, NEW label, NEW l, Goto(p, label, l),
           UNCHANGED barred,
           <<p, l.user>> \in barred => label = "cancelDeletion" /\ l.word = "banned",
           \A q \in Requests, u \in Accounts : <<q, u>> \in barred => Shut(u)',
           \A u \in Accounts : users'[u].row = "none" => users'[u].status # "banned"
    PROVE  BarInv'
<1>1. \A q \in Procs \ {p} : pc'[q] = pc[q] /\ loc'[q] = loc[q]
  BY DEF TypeOK, Goto
<1>2. pc'[p] = label /\ loc'[p] = l
  BY DEF TypeOK, Goto, Procs
<1>3. ASSUME NEW q \in Requests, <<q, loc'[q].user>> \in barred'
      PROVE  /\ pc'[q] \notin {"grantRole", "saveRefresh"}
             /\ pc'[q] = "cancelDeletion" => loc'[q].word = "banned"
  <2>1. CASE q = p
    BY <1>2, <1>3, <2>1
  <2>2. CASE q # p
    BY <1>1, <1>3, <2>2 DEF BarInv, Procs
  <2>3. QED
    BY <2>1, <2>2
<1>4. QED
  BY <1>3 DEF BarInv

(* An account that is not shut bars nobody.                                *)
LEMMA OpenBarsNobody ==
    ASSUME BarInv, NEW p \in Requests, NEW u \in Accounts, ~Shut(u)
    PROVE  <<p, u>> \notin barred
BY DEF BarInv

(* A request arrives, and is barred by the accounts that are shut.         *)
LEMMA BarArrives ==
    ASSUME TypeOK, BarInv, NEW p \in Requests, NEW us, us \subseteq Accounts, Arrives(p, us),
           NEW label, label \notin PastCheck, NEW l, Goto(p, label, l), UNCHANGED users
    PROVE  BarInv'
<1>1. \A q \in Procs \ {p} : pc'[q] = pc[q] /\ loc'[q] = loc[q]
  BY DEF TypeOK, Goto
<1>2. pc'[p] = label
  BY DEF TypeOK, Goto, Procs
<1>3. \A q, u : <<q, u>> \in barred' => <<q, u>> \in barred \/ (q = p /\ u \in us /\ Shut(u))
  BY DEF Arrives
<1>4. \A q \in Requests, u \in Accounts : <<q, u>> \in barred' => Shut(u)'
  BY <1>3 DEF BarInv, Shut
<1>5. ASSUME NEW q \in Requests, <<q, loc'[q].user>> \in barred'
      PROVE  /\ pc'[q] \notin {"grantRole", "saveRefresh"}
             /\ pc'[q] = "cancelDeletion" => loc'[q].word = "banned"
  <2>1. CASE q = p
    BY <1>2, <2>1 DEF PastCheck
  <2>2. CASE q # p
    BY <1>1, <1>3, <1>5, <2>2 DEF BarInv, Procs
  <2>3. QED
    BY <2>1, <2>2
<1>6. QED
  BY <1>4, <1>5 DEF BarInv

(* Rows that are not touched are kept.                                     *)
LEMMA RowsRest == ASSUME UNCHANGED users PROVE RowsKept
BY DEF RowsKept

(* So are the rows when one account is only written in other columns, or   *)
(* is erased.                                                              *)
LEMMA OneRowKept ==
    ASSUME TypeOK, NEW u, NEW r, users' = [users EXCEPT ![u] = r],
           u \in Accounts => \/ r.row = users[u].row /\ r.status = users[u].status
                             \/ r.row = "erased"
    PROVE  RowsKept
BY DEF RowsKept, TypeOK

(* The beginnings of requests.                                             *)
LEMMA BeginBarInv ==
    ASSUME AccountInv, BarInv, NEW p \in Requests, Begin(p) PROVE BarInv'
<1>1. TypeOK /\ p \in Procs
  BY DEF AccountInv, Procs
<1>2. CASE VerifyOTP(p)
  BY <1>1, <1>2, BarArrives DEF VerifyOTP, OfPhone, PastCheck, rows
<1>3. ASSUME NEW t \in Tokens, Refresh(p, t) PROVE BarInv'
  <2> DEFINE label == IF tokens[t].used THEN "revokeFamily" ELSE "markUsed"
  <2>1. {tokens[t].user} \subseteq Accounts
    BY <1>1, <1>3 DEF Refresh, TypeOK, Token
  <2>2. label \notin PastCheck
    BY DEF PastCheck
  <2>3. /\ Arrives(p, {tokens[t].user}) /\ Goto(p, label, [NoLocal EXCEPT !.token = t])
        /\ UNCHANGED users
    BY <1>3 DEF Refresh, rows
  <2>4. QED
    BY <1>1, <2>1, <2>2, <2>3, BarArrives
<1>4. ASSUME NEW u \in Accounts, NEW status \in Sanctions, SetStatus(p, u, status)
      PROVE  BarInv'
  <2> DEFINE r == [users[u] EXCEPT !.status = status]
  <2>1. /\ Live(u) /\ users' = [users EXCEPT ![u] = r]
        /\ Goto(p, "logStatus", [NoLocal EXCEPT !.user = u, !.word = status])
        /\ barred' = IF status = "banned" THEN barred ELSE {b \in barred : b[2] # u}
    BY <1>4 DEF SetStatus
  <2>2. users \in [Accounts -> User] /\ r.row = users[u].row /\ r.status = status
    BY <1>1 DEF TypeOK, User
  <2>3. /\ users'[u] = r /\ \A v \in Accounts \ {u} : users'[v] = users[v]
    BY <2>1, <2>2
  <2>4. \A q \in Requests, v \in Accounts : <<q, v>> \in barred' => Shut(v)'
    <3>1. ASSUME NEW q \in Requests, NEW v \in Accounts, <<q, v>> \in barred' PROVE Shut(v)'
      <4>1. <<q, v>> \in barred /\ (status = "banned" \/ v # u)
        BY <2>1, <3>1
      <4>2. Shut(v)
        BY <4>1 DEF BarInv
      <4>3. QED
        BY <2>2, <2>3, <4>1, <4>2 DEF Shut
    <3>2. QED
      BY <3>1
  <2>5. \A v \in Accounts : users'[v].row = "none" => users'[v].status # "banned"
    BY <2>1, <2>2, <2>3 DEF BarInv, Live
  <2>6. \A q \in Procs \ {p} : pc'[q] = pc[q] /\ loc'[q] = loc[q]
    BY <1>1, <2>1 DEF TypeOK, Goto
  <2>7. pc'[p] = "logStatus" /\ barred' \subseteq barred
    BY <1>1, <2>1 DEF TypeOK, Goto
  <2>8. ASSUME NEW q \in Requests, <<q, loc'[q].user>> \in barred'
        PROVE  /\ pc'[q] \notin {"grantRole", "saveRefresh"}
               /\ pc'[q] = "cancelDeletion" => loc'[q].word = "banned"
    BY <2>6, <2>7, <2>8 DEF BarInv, Procs
  <2>9. QED
    BY <2>4, <2>5, <2>8 DEF BarInv
<1>5. ASSUME \/ \E u \in Accounts :
                  \/ \E named \in BOOLEAN : UpdateProfile(p, u, named)
                  \/ SubmitVerification(p, u) \/ RequestDeletion(p, u)
             \/ \E a \in Apps, verdict \in {"approved", "rejected"} :
                  ReviewVerification(p, a, verdict)
      PROVE  BarInv'
  <2>1. \E label \in {"writeUser", "createApp", "queueDeletion", "writeApp"} :
          \E l : Goto(p, label, l)
    BY <1>5 DEF UpdateProfile, SubmitVerification, RequestDeletion, ReviewVerification
  <2>2. UNCHANGED <<users, barred>>
    BY <1>5 DEF UpdateProfile, SubmitVerification, RequestDeletion, ReviewVerification, rows
  <2>3. QED
    BY <1>1, <2>1, <2>2, RowsRest, BarPlain DEF PastCheck
<1>6. QED
  BY <1>2, <1>3, <1>4, <1>5 DEF Begin

(* Sign-in and refresh: where the ban is checked.                          *)
LEMMA CheckBarInv ==
    ASSUME AccountInv, BarInv, NEW p \in Requests,
           FindUser(p) \/ CreateUser(p) \/ CancelOnSignIn(p) \/ GrantRole(p) \/ ReadUser(p)
    PROVE  BarInv'
<1>1. TypeOK /\ p \in Procs /\ loc[p] \in Local /\ users \in [Accounts -> User]
  BY DEF AccountInv, Procs, TypeOK
<1>2. ASSUME RowsKept, Return(p), Leaves(p) PROVE BarInv'
  BY <1>1, <1>2, BarPlain DEF Return, Leaves, PastCheck
<1>3. RowsKept => /\ \A q \in Requests, u \in Accounts : <<q, u>> \in barred => Shut(u)'
                  /\ \A u \in Accounts : users'[u].row = "none" => users'[u].status # "banned"
  BY DEF BarInv, Shut, RowsKept
<1>4. ASSUME NEW u \in Accounts
      PROVE  [NoLocal EXCEPT !.user = u].user = u
  BY NoLocalType DEF Local
<1>5. CASE FindUser(p)
  <2>1. UNCHANGED users /\ RowsKept
    BY <1>5, RowsRest DEF FindUser, rows
  <2>2. CASE Goto(p, "createUser", NoLocal) /\ UNCHANGED barred
    BY <1>1, <2>1, <2>2, BarPlain DEF PastCheck
  <2>3. CASE Return(p) /\ Leaves(p)
    BY <1>2, <2>1, <2>3
  <2>4. ASSUME NEW u \in OfPhone, UNCHANGED barred,
               Goto(p, "cancelDeletion", [NoLocal EXCEPT !.user = u, !.word = users[u].status])
        PROVE  BarInv'
    <3> DEFINE l == [NoLocal EXCEPT !.user = u, !.word = users[u].status]
    <3>1. u \in Accounts /\ Live(u)
      BY DEF OfPhone
    <3>2. l.user = u /\ l.word = users[u].status
      BY NoLocalType DEF Local
    <3>3. <<p, u>> \in barred => users[u].status = "banned"
      BY <3>1 DEF BarInv, Shut, Live
    <3>4. QED
      BY <1>1, <1>3, <2>1, <2>4, <3>2, <3>3, BarPast
  <2>5. ASSUME NEW u \in OfPhone, users[u].status # "banned", UNCHANGED barred,
               NEW label \in {"grantRole", "saveRefresh"}, NEW l, l.user = u, Goto(p, label, l)
        PROVE  BarInv'
    <3>1. u \in Accounts /\ ~Shut(u)
      BY <2>5 DEF OfPhone, Live, Shut
    <3>2. <<p, l.user>> \notin barred
      BY <2>5, <3>1, OpenBarsNobody
    <3>3. QED
      BY <1>1, <1>3, <2>1, <2>5, <3>2, BarPast
  <2>6. ASSUME NEW u \in OfPhone
        PROVE  /\ [NoLocal EXCEPT !.user = u].user = u
               /\ [NoLocal EXCEPT !.user = u,
                      !.row = [Copy(users[u]) EXCEPT !.moderator = TRUE]].user = u
    BY NoLocalType DEF Local
  <2>7. QED
    BY <1>5, <2>2, <2>3, <2>4, <2>5, <2>6 DEF FindUser
<1>6. CASE CreateUser(p)
  <2>1. CASE Return(p) /\ Leaves(p) /\ UNCHANGED users
    BY <1>2, <2>1, RowsRest
  <2>2. ASSUME NEW u \in Accounts, users[u].row = "none", UNCHANGED barred,
               users' = [users EXCEPT ![u] = [NoUser EXCEPT !.row = "live",
                                                            !.moderator = isModerator]],
               Goto(p, "saveRefresh", [NoLocal EXCEPT !.user = u])
        PROVE  BarInv'
    <3>1. ~Shut(u) /\ \A q \in Requests : <<q, u>> \notin barred
      BY <2>2, OpenBarsNobody DEF BarInv, Shut
    <3>2. /\ \A v \in Accounts \ {u} : users'[v] = users[v]
          /\ users'[u].row = "live"
      BY <1>1, <2>2, BlankRows DEF User
    <3>3. \A q \in Requests, v \in Accounts : <<q, v>> \in barred => Shut(v)'
      BY <3>1, <3>2 DEF BarInv, Shut
    <3>4. \A v \in Accounts : users'[v].row = "none" => users'[v].status # "banned"
      BY <3>2 DEF BarInv
    <3>5. QED
      BY <1>1, <1>4, <2>2, <3>1, <3>3, <3>4, BarPast
  <2>3. QED
    BY <1>6, <2>1, <2>2 DEF CreateUser
<1>7. CASE CancelOnSignIn(p)
  <2> DEFINE u == loc[p].user
             r == [users[u] EXCEPT !.deletion = "no"]
  <2>1. u \in Accounts /\ pc[p] = "cancelDeletion"
    BY <1>1, <1>7 DEF AccountInv, Ready, CancelOnSignIn, WithUser, Local
  <2>2. r.row = users[u].row /\ r.status = users[u].status
    BY <1>1, <2>1 DEF User
  <2>3. users' = users \/ users' = [users EXCEPT ![u] = r]
    BY <1>7 DEF CancelOnSignIn
  <2>4. RowsKept
    BY <1>1, <2>2, <2>3, RowsRest, OneRowKept
  <2>5. CASE Return(p) /\ Leaves(p)
    BY <1>2, <2>4, <2>5
  <2>6. CASE /\ MayEnter(loc[p].word) /\ UNCHANGED barred
             /\ Goto(p, "saveRefresh", [NoLocal EXCEPT !.user = u])
    <3>1. <<p, u>> \notin barred
      BY <2>1, <2>6 DEF BarInv, MayEnter
    <3>2. QED
      BY <1>1, <1>3, <1>4, <2>1, <2>4, <2>6, <3>1, BarPast
  <2>7. QED
    BY <1>7, <2>5, <2>6 DEF CancelOnSignIn
<1>8. CASE GrantRole(p)
  <2> DEFINE u == loc[p].user
             r == Updated(users[u], loc[p].row)
  <2>1. u \in Accounts /\ pc[p] = "grantRole" /\ loc[p].row \in User
    BY <1>1, <1>8 DEF AccountInv, Ready, GrantRole, WithUser, Local
  <2>2. r.row = users[u].row /\ r.status = users[u].status
    BY <1>1, <2>1, UpdatedType
  <2>3. users' = [users EXCEPT ![u] = r]
    BY <1>8 DEF GrantRole
  <2>4. RowsKept
    BY <1>1, <2>2, <2>3, OneRowKept
  <2>5. CASE Return(p) /\ Leaves(p)
    BY <1>2, <2>4, <2>5
  <2>6. CASE UNCHANGED barred /\ Goto(p, "saveRefresh", [NoLocal EXCEPT !.user = u])
    <3>1. <<p, u>> \notin barred
      BY <2>1 DEF BarInv
    <3>2. QED
      BY <1>1, <1>3, <1>4, <2>1, <2>4, <2>6, <3>1, BarPast
  <2>7. QED
    BY <1>8, <2>5, <2>6 DEF GrantRole
<1>9. CASE ReadUser(p)
  <2> DEFINE t == loc[p].token
             u == tokens[t].user
             l == [NoLocal EXCEPT !.user = u, !.token = t]
  <2>1. UNCHANGED users /\ RowsKept
    BY <1>9, RowsRest DEF ReadUser, rows
  <2>2. CASE Return(p) /\ Leaves(p)
    BY <1>2, <2>1, <2>2
  <2>3. CASE Live(u) /\ users[u].status # "banned" /\ UNCHANGED barred /\ Goto(p, "saveRefresh", l)
    <3>1. t \in Tokens /\ u \in Accounts
      BY <1>1, <1>9 DEF AccountInv, TypeOK, ReadUser, Ready, Local, Token
    <3>2. <<p, u>> \notin barred
      BY <2>3, <3>1, OpenBarsNobody DEF Live, Shut
    <3>3. l.user = u
      BY NoLocalType DEF Local
    <3>4. QED
      BY <1>1, <1>3, <2>1, <2>3, <3>2, <3>3, BarPast
  <2>4. QED
    BY <1>9, <2>2, <2>3 DEF ReadUser
<1>10. QED
  BY <1>5, <1>6, <1>7, <1>8, <1>9

(* The other statements of a request, which open and shut nothing.         *)
LEMMA PlainBarInv ==
    ASSUME AccountInv, BarInv, NEW p \in Requests,
           \/ WriteUser(p) \/ SetVerified(p) \/ QueueDeletion(p)
           \/ SaveRefresh(p) \/ RevokeFamily(p) \/ MarkRefreshUsed(p)
           \/ LogStatus(p) \/ RevokeAllRefresh(p)
           \/ CreateVerification(p) \/ UpdateVerification(p) \/ LogReview(p)
    PROVE  BarInv'
<1>1. /\ TypeOK /\ p \in Procs /\ loc[p] \in Local /\ users \in [Accounts -> User]
      /\ Ready(pc[p], loc[p])
  BY DEF AccountInv, Procs, TypeOK
<1>2. barred' \subseteq barred
  BY DEF WriteUser, SetVerified, QueueDeletion, SaveRefresh, RevokeFamily, MarkRefreshUsed,
         LogStatus, RevokeAllRefresh, CreateVerification, UpdateVerification, LogReview, Leaves
<1>3. \E label, l : label \notin PastCheck /\ Goto(p, label, l)
  <2>1. CASE Return(p)
    BY <2>1 DEF Return, PastCheck
  <2>2. ASSUME NEW label \in {"readUser", "revokeAll", "setVerified", "logReview"},
               Goto(p, label, loc[p])
        PROVE  \E other, l : other \notin PastCheck /\ Goto(p, other, l)
    BY <2>2 DEF PastCheck
  <2>3. QED
    BY <2>1, <2>2
    DEF WriteUser, SetVerified, QueueDeletion, SaveRefresh, RevokeFamily, MarkRefreshUsed,
        LogStatus, RevokeAllRefresh, CreateVerification, UpdateVerification, LogReview,
        AfterVerdict
<1>4. RowsKept
  <2> DEFINE u == loc[p].user
  <2>1. CASE UNCHANGED users
    BY <2>1, RowsRest
  <2>2. CASE WriteUser(p)
    <3>1. u \in Accounts /\ loc[p].row \in User
      BY <1>1, <2>2 DEF Ready, WriteUser, WithUser, Local
    <3>2. QED
      BY <1>1, <2>2, <3>1, UpdatedType, OneRowKept DEF WriteUser
  <2>3. CASE SetVerified(p)
    <3> DEFINE r == Badged(users[u])
    <3>1. u \in Accounts
      BY <1>1, <2>3 DEF Ready, SetVerified, WithUser, Local
    <3>2. r.row = users[u].row /\ r.status = users[u].status
      BY <1>1, <3>1 DEF Badged, User
    <3>3. users' = [users EXCEPT ![u] = r]
      BY <2>3 DEF SetVerified
    <3>4. QED
      BY <1>1, <3>2, <3>3, OneRowKept
  <2>4. CASE QueueDeletion(p)
    <3> DEFINE r == [users[u] EXCEPT !.deletion = IF Live(u) THEN "waiting" ELSE @]
    <3>1. u \in Accounts
      BY <1>1, <2>4 DEF Ready, QueueDeletion, WithUser, Local
    <3>2. r.row = users[u].row /\ r.status = users[u].status
      BY <1>1, <3>1 DEF User
    <3>3. users' = [users EXCEPT ![u] = r]
      BY <2>4 DEF QueueDeletion
    <3>4. QED
      BY <1>1, <3>2, <3>3, OneRowKept
  <2>5. QED
    BY <2>1, <2>2, <2>3, <2>4
    DEF SaveRefresh, RevokeFamily, MarkRefreshUsed, LogStatus, RevokeAllRefresh,
        CreateVerification, UpdateVerification, LogReview, rows
<1>5. QED
  BY <1>1, <1>2, <1>3, <1>4, BarPlain

(* The deletion worker shuts accounts, and opens none.                     *)
LEMMA WorkerBarInv ==
    ASSUME AccountInv, BarInv, WorkerStep PROVE BarInv'
<1>1. /\ TypeOK /\ Worker \in Procs /\ users \in [Accounts -> User]
      /\ loc[Worker] \in Local /\ loc[Worker].due \subseteq Accounts
  BY DEF AccountInv, Procs, TypeOK, Local
<1>2. UNCHANGED barred
  BY DEF WorkerStep, DueDeletions, Anonymize, RevokeErased
<1>3. \E label \in {"idle", "anonymize", "revokeErased"} : \E l : Goto(Worker, label, l)
  BY DEF WorkerStep, DueDeletions, Anonymize, RevokeErased, Return
<1>4. RowsKept
  <2>1. CASE UNCHANGED users
    BY <2>1, RowsRest
  <2>2. ASSUME NEW u \in Accounts, users' = [users EXCEPT ![u] = Erased(u)] PROVE RowsKept
    <3>1. Erased(u).row = "erased"
      BY <1>1 DEF Erased, User
    <3>2. QED
      BY <1>1, <2>2, <3>1, OneRowKept
  <2>3. QED
    BY <1>1, <2>1, <2>2 DEF WorkerStep, DueDeletions, Anonymize, RevokeErased, rows
<1>5. QED
  BY <1>1, <1>2, <1>3, <1>4, BarPlain DEF PastCheck

(* A statement fails.                                                      *)
LEMMA FailBarInv ==
    ASSUME AccountInv, BarInv, NEW p \in Procs, Fail(p) PROVE BarInv'
<1>1. \E label \in {"idle", "anonymize"} : \E l : Goto(p, label, l)
  BY DEF Fail, Return
<1>2. TypeOK /\ barred' \subseteq barred /\ RowsKept
  BY RowsRest DEF AccountInv, Fail, Leaves, rows
<1>3. QED
  BY <1>1, <1>2, BarPlain DEF PastCheck

(* The deletion is cancelled by the button, or becomes due.                *)
LEMMA ButtonBarInv ==
    ASSUME AccountInv, BarInv, NEW u \in Accounts, CancelDeletion(u) \/ GracePasses(u)
    PROVE  BarInv'
<1>1. TypeOK /\ users \in [Accounts -> User] /\ UNCHANGED <<pc, loc, barred>>
  BY DEF AccountInv, TypeOK, CancelDeletion, GracePasses
<1>2. ASSUME NEW d \in {"no", "due"}, users' = [users EXCEPT ![u].deletion = d]
      PROVE  RowsKept
  <2> DEFINE r == [users[u] EXCEPT !.deletion = d]
  <2>1. r.row = users[u].row /\ r.status = users[u].status
    BY <1>1 DEF User
  <2>2. users' = [users EXCEPT ![u] = r]
    BY <1>2
  <2>3. QED
    BY <1>1, <2>1, <2>2, OneRowKept
<1>3. RowsKept
  BY <1>2 DEF CancelDeletion, GracePasses
<1>4. QED
  BY <1>1, <1>3 DEF BarInv, RowsKept, Shut

(* Every step keeps the barred out.                                        *)
LEMMA NextBarInv == AccountInv /\ BarInv /\ [Next]_vars => BarInv'
<1> SUFFICES ASSUME AccountInv, BarInv, [Next]_vars PROVE BarInv'
  OBVIOUS
<1>1. CASE UNCHANGED vars
  BY <1>1 DEF vars, rows, BarInv, Shut
<1>2. ASSUME NEW p \in Requests, Begin(p) \/ Continue(p) PROVE BarInv'
  BY <1>2, BeginBarInv, CheckBarInv, PlainBarInv DEF Continue
<1>3. QED
  BY <1>1, <1>2, WorkerBarInv, FailBarInv, ButtonBarInv DEF Next

(***************************************************************************)
(* Whoever comes while his account is banned or erased, and it stays so,   *)
(* gets no session: not by VerifyOTP, whose ban check may stand on a copy  *)
(* of the row, and not by Refresh with a token saved after RevokeAll.      *)
(***************************************************************************)
THEOREM ShutAccountGetsNoSession == Spec => []BarredGetNothing
<1>1. Init => BarInv
  <2> SUFFICES ASSUME Init PROVE BarInv
    OBVIOUS
  <2>1. \A u \in Accounts : users[u] \in {NoUser, Registered}
    BY DEF Init
  <2>2. NoUser.status = "active" /\ Registered.status = "active"
    BY DEF NoUser, Registered
  <2>3. QED
    BY <2>1, <2>2 DEF Init, BarInv
<1>2. BarInv => BarredGetNothing
  BY DEF BarInv, BarredGetNothing
<1>3. QED
  BY <1>1, <1>2, NextBarInv, AccountsInductive, PTL DEF Spec

=============================================================================
