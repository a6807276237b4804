------------------------------ MODULE Accounts ------------------------------
(***************************************************************************)
(* The identity service for one telephone number: sign-in, refresh         *)
(* sessions, sanctions, the badge, and deletion with its grace period.     *)
(* As in the orders service a handler is a sequence of SQL statements      *)
(* without a transaction; one action is one statement with the local       *)
(* computation that follows it, and other requests and the deletion worker *)
(* run between any two of them.                                            *)
(*                                                                         *)
(* A number has at most one account at a time, but when an account is      *)
(* erased the number is free again and the next sign-in opens another one. *)
(* Texts are reduced to whether a name is filled in.  The one-time code    *)
(* and the times at which codes and tokens run out are the subject of      *)
(* Access; here they could only take moves away.  The moderators' journal  *)
(* is written and never read by a decision: its statements are steps, its  *)
(* content is left out.                                                    *)
(***************************************************************************)
EXTENDS Naturals, FiniteSets, TLC

CONSTANTS
    Requests,       \* HTTP requests that may be in flight at the same time
    Worker,         \* the goroutine of StartDeletionWorker
    MaxAccounts,    \* bound on the accounts the number ever has
    MaxTokens,      \* refresh tokens that are followed; later ones are issued and forgotten
    MaxApps,        \* bound on the applications for the badge
    Sanctions,      \* statuses a moderator gives; to be frozen is to be active here
    ModeratorPhone, \* whether the number is on the list of moderators
    Faults          \* whether statements may fail

ASSUME AccountBounds ==
    /\ MaxAccounts \in Nat /\ MaxTokens \in Nat /\ MaxApps \in Nat
ASSUME AccountProcs ==
    /\ {"active", "banned"} \subseteq Sanctions
    /\ Sanctions \subseteq {"active", "frozen", "banned"}
    /\ Worker \notin Requests
    /\ ModeratorPhone \in BOOLEAN /\ Faults \in BOOLEAN

Procs == Requests \cup {Worker}
Accounts == 1..MaxAccounts
Tokens == 1..MaxTokens
Apps == 1..MaxApps

(* Of the roles only the moderator's is told apart.                        *)
User == [row : {"none", "live", "erased"}, status : Sanctions, moderator : BOOLEAN,
         named : BOOLEAN, verified : BOOLEAN,
         deletion : {"no", "waiting", "due"}]
NoUser == [row |-> "none", status |-> "active", moderator |-> FALSE, named |-> FALSE,
           verified |-> FALSE, deletion |-> "no"]

(* An account from before the number came on the list of moderators.       *)
Registered == [NoUser EXCEPT !.row = "live"]

(* heirs is history: the sessions given in exchange for the token.         *)
Token == [user : Accounts \cup {0}, used : BOOLEAN, revoked : BOOLEAN, heirs : 0..2]
NoToken == [user |-> 0, used |-> FALSE, revoked |-> FALSE, heirs |-> 0]

App == [user : Accounts \cup {0}, status : {"none", "pending", "approved", "rejected"}]

VARIABLES
    users,     \* rows of the accounts
    tokens,    \* rows of the refresh sessions
    apps,      \* the applications for the badge: account and status
    pc,        \* the next statement of each request
    loc,       \* what each request carries from one statement to the next
    barred,    \* history: requests and accounts that were shut when they came, and still are
    earned     \* history: accounts a moderator has approved

rows == <<users, tokens, apps>>
vars == <<rows, pc, loc, barred, earned>>

NoLocal == [user |-> 0, row |-> NoUser, token |-> 0, app |-> 0, word |-> "none",
            due |-> {}]

Local == [user : Accounts \cup {0}, row : User, token : Tokens \cup {0},
          app : Apps \cup {0},
          word : {"none", "approved", "rejected"} \cup Sanctions, due : SUBSET Accounts]

Labels == {"idle", "findUser", "createUser", "cancelDeletion",
           "grantRole", "saveRefresh", "revokeFamily", "markUsed", "readUser",
           "writeUser", "logStatus", "revokeAll", "queueDeletion", "createApp",
           "writeApp", "setVerified", "logReview", "anonymize", "revokeErased"}

(* Rows, copies and labels keep their shape.                               *)
TypeOK ==
    /\ users \in [Accounts -> User]
    /\ tokens \in [Tokens -> Token]
    /\ apps \in [Apps -> App]
    /\ pc \in [Procs -> Labels]
    /\ loc \in [Procs -> Local]
    /\ barred \subseteq Requests \X Accounts /\ earned \subseteq Accounts

Init ==
    /\ users \in [Accounts -> {NoUser, Registered}]
    /\ \A u \in Accounts : u # 1 => users[u] = NoUser
    /\ tokens = [t \in Tokens |-> NoToken]
    /\ apps = [a \in Apps |-> [user |-> 0, status |-> "none"]]
    /\ pc = [p \in Procs |-> "idle"]
    /\ loc = [p \in Procs |-> NoLocal]
    /\ barred = {} /\ earned = {}

-----------------------------------------------------------------------------
(* Requests and rows.                                                      *)

Live(u) == users[u].row = "live"
Shut(u) == users[u].row = "erased" \/ users[u].status = "banned"
OfPhone == {u \in Accounts : Live(u)}

Goto(p, label, l) == pc' = [pc EXCEPT ![p] = label] /\ loc' = [loc EXCEPT ![p] = l]
Return(p) == Goto(p, "idle", NoLocal)

(* A request that arrives for accounts us, some of which may be shut; it   *)
(* is no longer counted when it ends or when the ban is lifted.            *)
Arrives(p, us) == barred' = barred \cup ({p} \X {u \in us : Shut(u)})
Leaves(p) == barred' = {b \in barred : b[1] # p}

-----------------------------------------------------------------------------
(* Sign-in: the account is found, brought back or made.                    *)

(* VerifyOTP once the code was right.                                      *)
VerifyOTP(p) ==
    /\ pc[p] = "idle"
    /\ Goto(p, "findUser", NoLocal)
    /\ Arrives(p, OfPhone)
    /\ UNCHANGED <<rows, earned>>

(* rolesFor, isModerator *)
isModerator == ModeratorPhone

(* What UpdateUser will write of a row that was read.                      *)
Copy(row) == [NoUser EXCEPT !.moderator = row.moderator, !.named = row.named,
                            !.verified = row.verified]

FindUser(p) ==
    /\ pc[p] = "findUser"
    /\ \/ /\ OfPhone = {}
          /\ Goto(p, "createUser", NoLocal)
          /\ UNCHANGED barred
       \/ \E u \in OfPhone :
            \/ /\ users[u].deletion # "no"
               /\ Goto(p, "cancelDeletion", [NoLocal EXCEPT !.user = u,
                                                             !.word = users[u].status])
               /\ UNCHANGED barred
            \/ /\ users[u].deletion = "no" /\ users[u].status = "banned"
               /\ Return(p) /\ Leaves(p)
            \/ /\ users[u].deletion = "no" /\ users[u].status # "banned"
               /\ IF isModerator /\ ~users[u].moderator
                  THEN Goto(p, "grantRole",
                            [NoLocal EXCEPT !.user = u,
                             !.row = [Copy(users[u]) EXCEPT !.moderator = TRUE]])
                  ELSE Goto(p, "saveRefresh", [NoLocal EXCEPT !.user = u])
               /\ UNCHANGED barred
    /\ UNCHANGED <<rows, earned>>

(* phone_hash is unique: the second of two first sign-ins gets an error.   *)
CreateUser(p) ==
    /\ pc[p] = "createUser"
    /\ \/ /\ OfPhone = {}
          /\ \E u \in Accounts :
               /\ users[u].row = "none"
               /\ \A w \in 1..(u - 1) : users[w].row # "none"
               /\ users' = [users EXCEPT ![u] = [NoUser EXCEPT !.row = "live",
                                                               !.moderator = isModerator]]
               /\ Goto(p, "saveRefresh", [NoLocal EXCEPT !.user = u])
          /\ UNCHANGED barred
       \/ /\ OfPhone # {} \/ \A u \in Accounts : users[u].row # "none"
          /\ Return(p) /\ Leaves(p)
          /\ UNCHANGED users
    /\ UNCHANGED <<tokens, apps, earned>>

(* Mutant: the ban is only looked at where no deletion was asked for.      *)
MayEnter_Returned(status) == TRUE

(* After CancelDeletion the ban is checked on the copy.                    *)
MayEnter(status) == status # "banned"

CancelOnSignIn(p) ==
    /\ pc[p] = "cancelDeletion"
    /\ LET u == loc[p].user IN
       IF users[u].row = "erased"
       THEN Return(p) /\ Leaves(p) /\ UNCHANGED users
       ELSE /\ users' = [users EXCEPT ![u].deletion = "no"]
            /\ IF MayEnter(loc[p].word)
               THEN Goto(p, "saveRefresh", [NoLocal EXCEPT !.user = u]) /\ UNCHANGED barred
               ELSE Return(p) /\ Leaves(p)
    /\ UNCHANGED <<tokens, apps, earned>>

-----------------------------------------------------------------------------
(* UpdateUser writes name, roles and badge of the copy; a row that was     *)
(* erased in the meantime is not found.                                    *)

(* Mutant: the condition on deleted_at is missing.                         *)
Updated_Any(now, copy) ==
    [now EXCEPT !.named = copy.named, !.moderator = copy.moderator, !.verified = copy.verified]

Updated(now, copy) ==
    IF now.row # "live" THEN now
    ELSE [now EXCEPT !.named = copy.named, !.moderator = copy.moderator,
                     !.verified = copy.verified]

GrantRole(p) ==
    /\ pc[p] = "grantRole"
    /\ LET u == loc[p].user IN
       /\ users' = [users EXCEPT ![u] = Updated(@, loc[p].row)]
       /\ IF Live(u) THEN Goto(p, "saveRefresh", [NoLocal EXCEPT !.user = u])
                          /\ UNCHANGED barred
                     ELSE Return(p) /\ Leaves(p)
    /\ UNCHANGED <<tokens, apps, earned>>

(* UpdateProfile: a name, possibly an empty one, or another active role.   *)
UpdateProfile(p, u, named) ==
    /\ pc[p] = "idle" /\ Live(u)
    /\ Goto(p, "writeUser",
            [NoLocal EXCEPT !.user = u,
                            !.row = [Copy(users[u]) EXCEPT !.named = named]])
    /\ UNCHANGED <<rows, barred, earned>>

WriteUser(p) ==
    /\ pc[p] = "writeUser"
    /\ users' = [users EXCEPT ![loc[p].user] = Updated(@, loc[p].row)]
    /\ Return(p)
    /\ UNCHANGED <<tokens, apps, barred, earned>>

-----------------------------------------------------------------------------
(* Sessions.                                                               *)

Exchanged(t) == IF t = 0 THEN tokens
                ELSE [tokens EXCEPT ![t].heirs = IF @ < 2 THEN @ + 1 ELSE @]

(* issue: the pair of tokens; a new family every time.                     *)
SaveRefresh(p) ==
    /\ pc[p] = "saveRefresh"
    /\ LET now == Exchanged(loc[p].token)
           free == {t \in Tokens : tokens[t].user = 0}
       IN tokens' = [t \in Tokens |->
                       IF t \in free /\ \A s \in free : t <= s
                       THEN [NoToken EXCEPT !.user = loc[p].user] ELSE now[t]]
    /\ Return(p) /\ Leaves(p)
    /\ UNCHANGED <<users, apps, earned>>

Refresh(p, t) ==
    /\ pc[p] = "idle"
    /\ tokens[t].user # 0 /\ ~tokens[t].revoked
    /\ Goto(p, IF tokens[t].used THEN "revokeFamily" ELSE "markUsed",
            [NoLocal EXCEPT !.token = t])
    /\ Arrives(p, {tokens[t].user})
    /\ UNCHANGED <<rows, earned>>

(* Every token is the only member of its family.                           *)
RevokeFamily(p) ==
    /\ pc[p] = "revokeFamily"
    /\ tokens' = [tokens EXCEPT ![loc[p].token].revoked = TRUE]
    /\ Return(p) /\ Leaves(p)
    /\ UNCHANGED <<users, apps, earned>>

(* Mutant: without the condition used = false, as in the memory store.     *)
AlreadyUsed_Never(t) == FALSE

(* The condition of the UPDATE: no row is found when the token is used.    *)
AlreadyUsed(t) == tokens[t].used

MarkRefreshUsed(p) ==
    /\ pc[p] = "markUsed"
    /\ LET t == loc[p].token IN
       IF AlreadyUsed(t)
       THEN Return(p) /\ Leaves(p) /\ UNCHANGED tokens
       ELSE /\ tokens' = [tokens EXCEPT ![t].used = TRUE]
            /\ Goto(p, "readUser", loc[p])
            /\ UNCHANGED barred
    /\ UNCHANGED <<users, apps, earned>>

ReadUser(p) ==
    /\ pc[p] = "readUser"
    /\ LET u == tokens[loc[p].token].user IN
       IF Live(u) /\ users[u].status # "banned"
       THEN Goto(p, "saveRefresh", [NoLocal EXCEPT !.user = u, !.token = loc[p].token])
            /\ UNCHANGED barred
       ELSE Return(p) /\ Leaves(p)
    /\ UNCHANGED <<rows, earned>>

-----------------------------------------------------------------------------
(* Sanctions.                                                              *)

(* SetStatus by a moderator who is somebody else, with a reason: the first *)
(* statement changes the row of a live account.                            *)
SetStatus(p, u, status) ==
    /\ pc[p] = "idle" /\ Live(u)
    /\ users' = [users EXCEPT ![u].status = status]
    /\ Goto(p, "logStatus", [NoLocal EXCEPT !.user = u, !.word = status])
    /\ barred' = IF status = "banned" THEN barred ELSE {b \in barred : b[2] # u}
    /\ UNCHANGED <<tokens, apps, earned>>

LogStatus(p) ==
    /\ pc[p] = "logStatus"
    /\ IF loc[p].word = "banned" THEN Goto(p, "revokeAll", loc[p]) ELSE Return(p)
    /\ UNCHANGED <<rows, barred, earned>>

RevokedAll(u) == [t \in Tokens |-> IF tokens[t].user = u
                                   THEN [tokens[t] EXCEPT !.revoked = TRUE]
                                   ELSE tokens[t]]

RevokeAllRefresh(p) ==
    /\ pc[p] = "revokeAll"
    /\ tokens' = RevokedAll(loc[p].user)
    /\ Return(p)
    /\ UNCHANGED <<users, apps, barred, earned>>

-----------------------------------------------------------------------------
(* The badge.                                                              *)

SubmitVerification(p, u) ==
    /\ pc[p] = "idle" /\ Live(u)
    /\ users[u].named /\ ~users[u].verified
    /\ Goto(p, "createApp", [NoLocal EXCEPT !.user = u])
    /\ UNCHANGED <<rows, barred, earned>>

(* The unique index allows one pending application per account.            *)
CreateVerification(p) ==
    /\ pc[p] = "createApp"
    /\ LET u == loc[p].user
           pending == \E a \in Apps : apps[a] = [user |-> u, status |-> "pending"]
       IN \/ /\ ~pending
             /\ \E a \in Apps :
                  /\ apps[a].user = 0
                  /\ \A b \in 1..(a - 1) : apps[b].user # 0
                  /\ apps' = [apps EXCEPT ![a] = [user |-> u, status |-> "pending"]]
          \/ /\ pending \/ \A a \in Apps : apps[a].user # 0
             /\ UNCHANGED apps
    /\ Return(p)
    /\ UNCHANGED <<users, tokens, barred, earned>>

Reviewable(a) == apps[a].status = "pending"

ReviewVerification(p, a, verdict) ==
    /\ pc[p] = "idle"
    /\ Reviewable(a)
    /\ Goto(p, "writeApp", [NoLocal EXCEPT !.app = a, !.word = verdict,
                                           !.user = apps[a].user])
    /\ UNCHANGED <<rows, barred, earned>>

(* Mutant: the badge is given with any verdict.                            *)
AfterVerdict_Badge(verdict) == "setVerified"

AfterVerdict(verdict) == IF verdict = "approved" THEN "setVerified" ELSE "logReview"

(* By id and without a condition: another moderator may have been faster.  *)
UpdateVerification(p) ==
    /\ pc[p] = "writeApp"
    /\ apps' = [apps EXCEPT ![loc[p].app].status = loc[p].word]
    /\ earned' = IF loc[p].word = "approved" THEN earned \cup {loc[p].user} ELSE earned
    /\ Goto(p, AfterVerdict(loc[p].word), loc[p])
    /\ UNCHANGED <<users, tokens, barred>>

(* SetVerified finds live rows only.                                       *)
Badged(now) == IF now.row = "live" THEN [now EXCEPT !.verified = TRUE] ELSE now

SetVerified(p) ==
    /\ pc[p] = "setVerified"
    /\ users' = [users EXCEPT ![loc[p].user] = Badged(@)]
    /\ IF Live(loc[p].user) THEN Goto(p, "logReview", loc[p]) ELSE Return(p)
    /\ UNCHANGED <<tokens, apps, barred, earned>>

LogReview(p) ==
    /\ pc[p] = "logReview"
    /\ Return(p)
    /\ UNCHANGED <<rows, barred, earned>>

-----------------------------------------------------------------------------
(* Deletion with a grace period.                                           *)

RequestDeletion(p, u) ==
    /\ pc[p] = "idle" /\ Live(u)
    /\ users[u].deletion = "no"
    /\ Goto(p, "queueDeletion", [NoLocal EXCEPT !.user = u])
    /\ UNCHANGED <<rows, barred, earned>>

QueueDeletion(p) ==
    /\ pc[p] = "queueDeletion"
    /\ users' = [users EXCEPT ![loc[p].user].deletion = IF Live(loc[p].user) THEN "waiting"
                                                                            ELSE @]
    /\ Return(p)
    /\ UNCHANGED <<tokens, apps, barred, earned>>

(* The button in the profile; one statement.                               *)
CancelDeletion(u) ==
    /\ Live(u) /\ users[u].deletion # "no"
    /\ users' = [users EXCEPT ![u].deletion = "no"]
    /\ UNCHANGED <<tokens, apps, pc, loc, barred, earned>>

(* DeleteGrace has passed.                                                 *)
GracePasses(u) ==
    /\ users[u].deletion = "waiting"
    /\ users' = [users EXCEPT ![u].deletion = "due"]
    /\ UNCHANGED <<tokens, apps, pc, loc, barred, earned>>

Due == {u \in Accounts : users[u].deletion = "due"}

(* RunDeletions: the list first, then one account after the other.         *)
DueDeletions ==
    /\ pc[Worker] = "idle" /\ Due # {}
    /\ Goto(Worker, "anonymize", [NoLocal EXCEPT !.due = Due])
    /\ UNCHANGED <<rows, barred, earned>>

Erased(u) == [users[u] EXCEPT !.row = "erased", !.named = FALSE, !.verified = FALSE,
                              !.deletion = "no"]

(* Whatever has happened to the account since the list was read, except    *)
(* that it was erased.                                                     *)
Anonymize ==
    /\ pc[Worker] = "anonymize"
    /\ \/ /\ loc[Worker].due = {}
          /\ Return(Worker)
          /\ UNCHANGED users
       \/ \E u \in loc[Worker].due :
            /\ users' = [users EXCEPT ![u] = Erased(u)]
            /\ Goto(Worker, "revokeErased", [loc[Worker] EXCEPT !.user = u])
    /\ UNCHANGED <<tokens, apps, barred, earned>>

RevokeErased ==
    /\ pc[Worker] = "revokeErased"
    /\ tokens' = RevokedAll(loc[Worker].user)
    /\ Goto(Worker, "anonymize",
            [NoLocal EXCEPT !.due = loc[Worker].due \ {loc[Worker].user}])
    /\ UNCHANGED <<users, apps, barred, earned>>

-----------------------------------------------------------------------------
(* A statement fails or the process stops; the worker goes on to the next  *)
(* account, a request is over.                                             *)
Fail(p) ==
    /\ Faults /\ pc[p] # "idle"
    /\ IF p = Worker
       THEN /\ loc[p].due # {}
            /\ \E u \in IF pc[p] = "anonymize" THEN loc[p].due ELSE {loc[p].user} :
                 Goto(p, "anonymize", [NoLocal EXCEPT !.due = loc[p].due \ {u}])
       ELSE Return(p)
    /\ Leaves(p)
    /\ UNCHANGED <<rows, earned>>

Begin(p) ==
    \/ VerifyOTP(p)
    \/ \E t \in Tokens : Refresh(p, t)
    \/ \E u \in Accounts :
         \/ \E named \in BOOLEAN : UpdateProfile(p, u, named)
         \/ \E status \in Sanctions : SetStatus(p, u, status)
         \/ SubmitVerification(p, u)
         \/ RequestDeletion(p, u)
    \/ \E a \in Apps, verdict \in {"approved", "rejected"} :
         ReviewVerification(p, a, verdict)

Continue(p) ==
    \/ FindUser(p) \/ CreateUser(p)
    \/ CancelOnSignIn(p) \/ GrantRole(p) \/ WriteUser(p)
    \/ SaveRefresh(p) \/ RevokeFamily(p) \/ MarkRefreshUsed(p) \/ ReadUser(p)
    \/ LogStatus(p) \/ RevokeAllRefresh(p)
    \/ CreateVerification(p) \/ UpdateVerification(p) \/ SetVerified(p) \/ LogReview(p)
    \/ QueueDeletion(p)

WorkerStep == DueDeletions \/ Anonymize \/ RevokeErased

Next ==
    \/ \E p \in Requests : Begin(p) \/ Continue(p)
    \/ WorkerStep
    \/ \E p \in Procs : Fail(p)
    \/ \E u \in Accounts : CancelDeletion(u) \/ GracePasses(u)

Spec == Init /\ [][Next]_vars

-----------------------------------------------------------------------------
(***************************************************************************)
(* A refresh token is exchanged once: two overlapping Refresh of one token *)
(* give one new session, because MarkRefreshUsed writes under a condition. *)
(***************************************************************************)
OneSuccessor == \A t \in Tokens : tokens[t].heirs <= 1

(***************************************************************************)
(* Whoever comes while his account is banned or erased, and it stays so,   *)
(* is not given a session: by no branch of VerifyOTP and by no Refresh,    *)
(* not even with a token that was saved after the tokens were revoked.     *)
(***************************************************************************)
BarredGetNothing ==
    \A p \in Requests : pc[p] = "saveRefresh" => <<p, loc[p].user>> \notin barred

(***************************************************************************)
(* What was erased stays erased: neither a profile saved from an older     *)
(* copy nor a verdict that comes late gives an erased account back its     *)
(* name or its badge.                                                      *)
(***************************************************************************)
ErasedForGood ==
    \A u \in Accounts :
        users[u].row = "erased" => ~users[u].named /\ ~users[u].verified
                                   /\ users[u].deletion = "no"

(***************************************************************************)
(* The badge is only ever given by a moderator's approval: UpdateUser      *)
(* writes the badge of a copy, so it can lose a badge but never make one.  *)
(***************************************************************************)
BadgeWasEarned == \A u \in Accounts : users[u].verified => u \in earned

-----------------------------------------------------------------------------
(* The inductive invariants of the proofs.                                 *)

(* A number has one live account at most.                                  *)
OneAccountPerNumber == \A u, v \in OfPhone : u = v

(* Labels at which a request writes to, or for, an account.                *)
WithUser == {"cancelDeletion", "grantRole", "saveRefresh", "writeUser", "createApp",
             "writeApp", "setVerified", "queueDeletion", "revokeErased", "logStatus",
             "revokeAll"}

(* The exchange of token t has begun and is not over.                      *)
Exchanging == {"readUser", "saveRefresh"}

(* What a process with local l may rely on at a label.                     *)
Ready(label, l) ==
    /\ label \in WithUser => l.user # 0
    /\ label \in {"revokeFamily", "markUsed", "readUser"} => l.token # 0
    /\ l.token # 0 => tokens[l.token].user # 0
    /\ label \in Exchanging /\ l.token # 0 => tokens[l.token].used /\ tokens[l.token].heirs = 0
    /\ label = "writeApp" => /\ l.app # 0 /\ apps[l.app].user # 0
                             /\ l.word \in {"approved", "rejected"}
    /\ label = "setVerified" \/ l.row.verified => l.user \in earned
    /\ label = "anonymize" => l.token = 0 /\ ~l.row.verified

(* Two processes never exchange one token.                                 *)
OneExchange ==
    \A p, q \in Procs :
        /\ p # q /\ loc[p].token = loc[q].token
        /\ pc[p] \in Exchanging /\ pc[q] \in Exchanging
        => loc[p].token = 0

(* A token is used before it is exchanged, and blank before it is saved.   *)
TokenRows ==
    \A t \in Tokens : /\ tokens[t].user = 0 => tokens[t] = NoToken
                      /\ ~tokens[t].used => tokens[t].heirs = 0

AccountInv ==
    /\ TypeOK
    /\ OneAccountPerNumber /\ ErasedForGood /\ BadgeWasEarned
    /\ TokenRows /\ OneSuccessor /\ OneExchange
    /\ \A a \in Apps : apps[a].status # "none" => apps[a].user # 0
    /\ \A p \in Procs : Ready(pc[p], loc[p])

(* Who is barred is barred by an account that is shut, and past the check  *)
(* only if a copy says so.                                                 *)
BarInv ==
    /\ \A p \in Requests, u \in Accounts : <<p, u>> \in barred => Shut(u)
    /\ \A u \in Accounts : users[u].row = "none" => users[u].status # "banned"
    /\ \A p \in Requests :
         <<p, loc[p].user>> \in barred =>
             /\ pc[p] \notin {"grantRole", "saveRefresh"}
             /\ pc[p] = "cancelDeletion" => loc[p].word = "banned"

=============================================================================
