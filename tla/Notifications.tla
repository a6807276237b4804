---------------------------- MODULE Notifications ----------------------------
(***************************************************************************)
(* The notifications service: the feed, the devices, and the settings that *)
(* decide whether a telephone rings.  A call of /internal/notify is        *)
(* several statements, then one request to the push provider per device;   *)
(* people change their settings and sign in and out on their telephones in *)
(* between.  A note is one call and the row it leaves in the feed.         *)
(*                                                                         *)
(* savePrefs is one action although it reads and writes: one person does   *)
(* not send two at a time here.  Cleanup is not called by anything and has *)
(* no action.                                                              *)
(***************************************************************************)
EXTENDS Naturals, Integers, FiniteSets

CONSTANTS
    People,        \* everybody who is notified
    NoOne,         \* nobody
    Choosers,      \* people who change their settings
    Tokens,        \* push tokens, one per telephone
    MaxNotes,      \* bound on the calls
    Day,           \* hours of a day
    Zone,          \* local time minus UTC, in hours
    DefaultFrom, DefaultTo,   \* the quiet hours nobody has changed
    HourInputs,    \* hours people enter, wrong ones included
    Switches       \* the groups people switch

ASSUME NotifyPeople == NoOne \notin People /\ Choosers \subseteq People
ASSUME NotifyTimes ==
    /\ Day \in Nat \ {0} /\ Zone \in Nat
    /\ DefaultFrom \in 0..(Day - 1) /\ DefaultTo \in 0..(Day - 1)
    /\ HourInputs \subseteq Int /\ MaxNotes \in Nat

Notes == 1..MaxNotes
Hours == 0..(Day - 1)
Groups == {"auctions", "deals", "message", "new_jobs", "marketing"}
Kinds == {"auction", "outbid", "deal", "offer", "review", "message", "job", "marketing", "system"}

ASSUME NotifySwitches == Switches \subseteq Groups

Prefs == [off : SUBSET Groups, quiet : BOOLEAN, from : Hours, to : Hours, outbid : BOOLEAN]
DefaultPrefs == [off |-> {"marketing"}, quiet |-> TRUE, from |-> DefaultFrom,
                 to |-> DefaultTo, outbid |-> FALSE]

VARIABLES
    feed,     \* the row of each note: not there, unread or read
    prefs,    \* the row of settings, or the default
    devices,  \* whose each token is, by the table
    hour,     \* the hour of the day in UTC
    notes,    \* the calls: next statement, person, kind, tokens still to be rung
    rung,     \* history: notes for which the provider was asked
    holder    \* history: who last signed in on each telephone and has not signed out

notifyVars == <<feed, prefs, devices, hour, notes, rung, holder>>

(* muted: the settings have forbidden this push ever since the call came.  *)
(* foreign: the telephones somebody else, or nobody, has held since then.  *)
NoNote == [at |-> "none", user |-> NoOne, kind |-> "system", left |-> {}, muted |-> FALSE,
           foreign |-> {}]
NoteLabels == {"none", "save", "prefs", "list", "send", "drop", "done"}

Note == [at : NoteLabels, user : People \cup {NoOne}, kind : Kinds, left : SUBSET Tokens,
         muted : BOOLEAN, foreign : SUBSET Tokens]

NotifyTypeOK ==
    /\ feed \in [Notes -> {"absent", "unread", "read"}]
    /\ prefs \in [People -> Prefs]
    /\ devices \in [Tokens -> People \cup {NoOne}]
    /\ hour \in Hours
    /\ notes \in [Notes -> Note]
    /\ rung \subseteq Notes
    /\ holder \in [Tokens -> People \cup {NoOne}]

NotifyInit ==
    /\ feed = [n \in Notes |-> "absent"]
    /\ prefs = [u \in People |-> DefaultPrefs]
    /\ devices = [t \in Tokens |-> NoOne]
    /\ hour \in Hours
    /\ notes = [n \in Notes |-> NoNote]
    /\ rung = {}
    /\ holder = [t \in Tokens |-> NoOne]

-----------------------------------------------------------------------------
(* The rules.                                                              *)

group(kind) ==
    CASE kind \in {"auction", "outbid"} -> "auctions"
      [] kind \in {"deal", "offer", "review"} -> "deals"
      [] kind = "message" -> "message"
      [] kind = "job" -> "new_jobs"
      [] kind = "marketing" -> "marketing"
      [] OTHER -> "system"

localHour(h) == (h + Zone) % Day

(* Mutant: an interval over midnight is taken for an ordinary one.         *)
inQuietHours_NoWrap(p, h) ==
    LET l == localHour(h) IN l >= p.from /\ l < p.to

inQuietHours(p, h) ==
    LET l == localHour(h) IN
    CASE p.from = p.to -> FALSE
      [] p.from < p.to -> l >= p.from /\ l < p.to
      [] OTHER -> l >= p.from \/ l < p.to

allowPush(p, kind, h) ==
    /\ group(kind) \notin p.off
    /\ p.quiet /\ inQuietHours(p, h) => kind = "outbid" /\ p.outbid

clampHour(h, fallback) == IF h < 0 \/ h > Day - 1 THEN fallback ELSE h

(***************************************************************************)
(* The reference: the clock is quiet at l when, going forward from p.from, *)
(* l comes before p.to.                                                    *)
(***************************************************************************)
Quiet(p, h) == (localHour(h) + Day - p.from) % Day < (p.to + Day - p.from) % Day

Forbidden(p, kind, h) ==
    \/ group(kind) \in p.off
    \/ p.quiet /\ Quiet(p, h) /\ ~(kind = "outbid" /\ p.outbid)

-----------------------------------------------------------------------------
(* A call.                                                                 *)

Move(n, label) == notes' = [notes EXCEPT ![n].at = label]

(* What the histories say after a change of settings, time or telephones.  *)
Refreshed(ps, h, held) ==
    [n \in Notes |->
       [notes[n] EXCEPT !.muted = @ /\ Forbidden(ps[notes[n].user], notes[n].kind, h),
                        !.foreign = {t \in @ : held[t] # notes[n].user}]]

(* notify: the request of another service arrives.                         *)
Arrive(n, u, kind) ==
    /\ notes[n].at = "none"
    /\ notes' = [notes EXCEPT ![n] =
         [NoNote EXCEPT !.at = "save", !.user = u, !.kind = kind,
                        !.muted = Forbidden(prefs[u], kind, hour),
                        !.foreign = {t \in Tokens : holder[t] # u}]]
    /\ UNCHANGED <<feed, prefs, devices, hour, rung, holder>>

saveToFeed(n) ==
    /\ notes[n].at = "save"
    /\ feed' = [feed EXCEPT ![n] = "unread"]
    /\ Move(n, "prefs")
    /\ UNCHANGED <<prefs, devices, hour, rung, holder>>

(* Mutant: the push goes out although nothing was saved.                   *)
AfterFailure_Goes(label) == IF label = "save" THEN "prefs" ELSE "done"

(* Every error of the store ends the call, also of the first statement.    *)
AfterFailure(label) == "done"

PrefsOf(n) ==
    /\ notes[n].at = "prefs"
    /\ Move(n, IF allowPush(prefs[notes[n].user], notes[n].kind, hour) THEN "list" ELSE "done")
    /\ UNCHANGED <<feed, prefs, devices, hour, rung, holder>>

ListDevicesByUser(n) ==
    /\ notes[n].at = "list"
    /\ LET mine == {t \in Tokens : devices[t] = notes[n].user} IN
       notes' = [notes EXCEPT ![n].at = IF mine = {} THEN "done" ELSE "send",
                              ![n].left = mine]
    /\ UNCHANGED <<feed, prefs, devices, hour, rung, holder>>

(* The provider takes the message, or fails, or says the token is dead.    *)
Send(n, t, answer) ==
    /\ notes[n].at = "send" /\ t \in notes[n].left
    /\ rung' = rung \cup {n}
    /\ LET rest == notes[n].left \ {t} IN
       IF answer = "dead"
       THEN Move(n, "drop")
       ELSE notes' = [notes EXCEPT ![n].left = rest,
                                   ![n].at = IF rest = {} THEN "done" ELSE "send"]
    /\ UNCHANGED <<feed, prefs, devices, hour, holder>>

(* The dead token is deleted whoever it belongs to by now; an error of     *)
(* this statement is ignored.                                              *)
DeleteDead(n, t, deleted) ==
    /\ notes[n].at = "drop" /\ t \in notes[n].left
    /\ LET rest == notes[n].left \ {t}
           held == IF deleted THEN [holder EXCEPT ![t] = NoOne] ELSE holder
       IN /\ notes' = [Refreshed(prefs, hour, held) EXCEPT
                         ![n].left = rest, ![n].at = IF rest = {} THEN "done" ELSE "send"]
          /\ holder' = held
          /\ devices' = IF deleted THEN [devices EXCEPT ![t] = NoOne] ELSE devices
    /\ UNCHANGED <<feed, prefs, hour, rung>>

(* The database or the process fails, or the caller has given up after     *)
(* three seconds and the context is cancelled.                             *)
NoteFails(n) ==
    /\ notes[n].at \notin {"none", "done"}
    /\ Move(n, AfterFailure(notes[n].at))
    /\ UNCHANGED <<feed, prefs, devices, hour, rung, holder>>

-----------------------------------------------------------------------------
(* People.                                                                 *)

(* Mutant: a known token keeps its owner.                                  *)
UpsertDevice_Keeps(t, u) == IF devices[t] = NoOne THEN u ELSE devices[t]

(* ON CONFLICT: the token changes its owner.                               *)
UpsertDevice(t, u) == u

RegisterDevice(t, u) ==
    /\ holder[t] # u
    /\ devices' = [devices EXCEPT ![t] = UpsertDevice(t, u)]
    /\ holder' = [holder EXCEPT ![t] = u]
    /\ notes' = Refreshed(prefs, hour, holder')
    /\ UNCHANGED <<feed, prefs, hour, rung>>

UnregisterDevice(t) ==
    /\ devices[t] # NoOne
    /\ devices' = [devices EXCEPT ![t] = NoOne]
    /\ holder' = [holder EXCEPT ![t] = NoOne]
    /\ notes' = Refreshed(prefs, hour, holder')
    /\ UNCHANGED <<feed, prefs, hour, rung>>

(* An empty list of notes means all of them.                               *)
MarkNotificationsRead(u, ids) ==
    /\ \E n \in Notes : feed[n] = "unread" /\ notes[n].user = u
    /\ feed' = [n \in Notes |-> IF notes[n].user = u /\ feed[n] = "unread"
                                   /\ (ids = {} \/ n \in ids)
                                THEN "read" ELSE feed[n]]
    /\ UNCHANGED <<prefs, devices, hour, notes, rung, holder>>

(* savePrefs with the one field that was changed.                          *)
Chosen(p) ==
    {[p EXCEPT !.off = IF g \in @ THEN @ \ {g} ELSE @ \cup {g}] : g \in Switches}
    \cup {[p EXCEPT !.quiet = ~@], [p EXCEPT !.outbid = ~@]}
    \cup {[p EXCEPT !.from = clampHour(h, DefaultFrom)] : h \in HourInputs}
    \cup {[p EXCEPT !.to = clampHour(h, DefaultTo)] : h \in HourInputs}

savePrefs(u) ==
    /\ \E p \in Chosen(prefs[u]) : prefs' = [prefs EXCEPT ![u] = p]
    /\ notes' = Refreshed(prefs', hour, holder)
    /\ UNCHANGED <<feed, devices, hour, rung, holder>>

HourPasses ==
    /\ hour' = (hour + 1) % Day
    /\ notes' = Refreshed(prefs, hour', holder)
    /\ UNCHANGED <<feed, prefs, devices, rung, holder>>

Progress(n) ==
    \/ saveToFeed(n) \/ PrefsOf(n) \/ ListDevicesByUser(n) \/ NoteFails(n)
    \/ \E t \in Tokens : \/ \E answer \in {"ok", "failed", "dead"} : Send(n, t, answer)
                         \/ \E deleted \in BOOLEAN : DeleteDead(n, t, deleted)

NoteStep == \E n \in Notes : Progress(n)

PeopleAct ==
    \/ \E t \in Tokens : UnregisterDevice(t) \/ \E u \in People : RegisterDevice(t, u)
    \/ \E u \in People, ids \in SUBSET Notes : MarkNotificationsRead(u, ids)
    \/ \E u \in Choosers : savePrefs(u)
    \/ HourPasses

-----------------------------------------------------------------------------
(***************************************************************************)
(* A telephone does not ring against its owner's will: if from the moment  *)
(* Notify was called the group was off or the hour was quiet, by the local *)
(* clock and over midnight too, and it still is, no push is sent.          *)
(***************************************************************************)
RestIsRespected == \A n \in Notes : notes[n].at \in {"list", "send"} => ~notes[n].muted

(***************************************************************************)
(* A telephone rings only for whoever uses it: a call that came after he   *)
(* has signed out, or somebody else has signed in, does not reach it.      *)
(***************************************************************************)
RingsForItsUser ==
    \A n \in Notes : notes[n].at = "send" => notes[n].left \cap notes[n].foreign = {}

(***************************************************************************)
(* The feed is the reliable channel: whatever has failed, nobody is rung   *)
(* for something the centre of notifications does not show.                *)
(***************************************************************************)
PushIsOnFile == \A n \in rung : feed[n] # "absent"

-----------------------------------------------------------------------------
(* The inductive invariant of the proofs.                                  *)

(* What is known of the call of note n.                                    *)
GoodNote(n) ==
    LET c == notes[n] IN
    /\ c.at # "none" => c.user \in People
    /\ c.at \in {"prefs", "list", "send", "drop"} => feed[n] # "absent"
    /\ c.muted => Forbidden(prefs[c.user], c.kind, hour)
    /\ c.at \in {"list", "send", "drop"} => ~c.muted
    /\ \A t \in c.foreign : holder[t] # c.user
    /\ c.at \in {"send", "drop"} => c.left \cap c.foreign = {}

(* The table knows who holds each telephone.                               *)
NoteInv ==
    /\ NotifyTypeOK
    /\ devices = holder
    /\ PushIsOnFile
    /\ \A n \in Notes : GoodNote(n)

=============================================================================
