-------------------------- MODULE Messaging_proofs --------------------------
(***************************************************************************)
(* Proofs about the chats and the notifications together.                  *)
(***************************************************************************)
EXTENDS Messaging, TLAPS

-----------------------------------------------------------------------------
(* The clock.                                                              *)

(* Every hour taken modulo the day is an hour of the day.                  *)
LEMMA HourOfDay == \A i \in Nat : i % Day \in Hours
BY NotifyTimes DEF Hours

(* The distance forward on the clock from y to x.                          *)
LEMMA Forward ==
    ASSUME NEW x \in Hours, NEW y \in Hours
    PROVE  (x + Day - y) % Day = IF x >= y THEN x - y ELSE x + Day - y
<1> Day \in Nat \ {0} /\ x \in 0..(Day - 1) /\ y \in 0..(Day - 1)
  BY NotifyTimes DEF Hours
<1>1. CASE x >= y
  <2>1. x - y \in 0..(Day - 1) /\ x + Day - y = (x - y) + Day
    BY <1>1
  <2>2. ((x - y) + Day) % Day = x - y
    BY <2>1, Z3
  <2> QED BY <1>1, <2>1, <2>2
<1>2. CASE ~(x >= y)
  <2>1. x + Day - y \in 0..(Day - 1)
    BY <1>2
  <2>2. (x + Day - y) % Day = x + Day - y
    BY <2>1, Z3
  <2> QED BY <1>2, <2>2
<1> QED BY <1>1, <1>2

(* localHour gives an hour of the day.                                     *)
LEMMA LocalHour == \A h \in Hours : localHour(h) \in Hours
BY HourOfDay, NotifyTimes DEF localHour, Hours

(* inQuietHours, with its three cases, covers every hour the reference     *)
(* calls quiet, over midnight too.                                         *)
LEMMA QuietIsCovered ==
    ASSUME NEW p \in Prefs, NEW h \in Hours, Quiet(p, h)
    PROVE  inQuietHours(p, h)
<1> DEFINE l == localHour(h)
<1>1. l \in Hours /\ p.from \in Hours /\ p.to \in Hours
  BY LocalHour DEF Prefs
<1>2. /\ (l + Day - p.from) % Day = IF l >= p.from THEN l - p.from ELSE l + Day - p.from
      /\ (p.to + Day - p.from) % Day
           = IF p.to >= p.from THEN p.to - p.from ELSE p.to + Day - p.from
  BY <1>1, Forward
<1>3. (l + Day - p.from) % Day < (p.to + Day - p.from) % Day
  BY DEF Quiet
<1> HIDE DEF l
<1>4. CASE p.from = p.to
  BY <1>1, <1>2, <1>3, <1>4, NotifyTimes DEF Hours
<1>5. CASE p.from < p.to
  <2>1. l >= p.from /\ l < p.to
    BY <1>1, <1>2, <1>3, <1>5, NotifyTimes DEF Hours
  <2> QED BY <2>1, <1>5, <1>1 DEF inQuietHours, l, Hours
<1>6. CASE p.from > p.to
  <2>1. l >= p.from \/ l < p.to
    BY <1>1, <1>2, <1>3, <1>6, NotifyTimes DEF Hours
  <2> QED BY <2>1, <1>6, <1>1 DEF inQuietHours, l, Hours
<1> QED BY <1>1, <1>4, <1>5, <1>6, NotifyTimes DEF Hours

(* What allowPush lets through, the settings do not forbid.                *)
LEMMA AllowedIsNotForbidden ==
    ASSUME NEW p \in Prefs, NEW h \in Hours, NEW kind, allowPush(p, kind, h)
    PROVE  ~Forbidden(p, kind, h)
BY QuietIsCovered DEF allowPush, Forbidden

-----------------------------------------------------------------------------
(* The calls of the notifications service.                                 *)

(* The steps of a call do not touch who is told.                           *)
CallsStay ==
    \A n \in Notes : /\ notes'[n].at = "none" <=> notes[n].at = "none"
                     /\ notes'[n].user = notes[n].user

(* One call has made a step and nobody else has done anything.             *)
OneCall(n) ==
    /\ \E c \in Note :
         /\ notes' = [notes EXCEPT ![n] = c]
         /\ c.user = notes[n].user /\ c.kind = notes[n].kind
         /\ c.muted => notes[n].muted
         /\ c.foreign = notes[n].foreign
         /\ c.at # "none"
         /\ c.at \in {"prefs", "list", "send", "drop"} => feed'[n] # "absent"
         /\ c.at \in {"list", "send", "drop"} => ~notes[n].muted
         /\ c.at \in {"send", "drop"} => c.left \cap c.foreign = {}
    /\ feed' \in [Notes -> {"absent", "unread", "read"}]
    /\ \A k \in Notes : feed[k] # "absent" => feed'[k] # "absent"
    /\ rung' \subseteq Notes
    /\ \A k \in rung' : k \in rung \/ feed'[k] # "absent"
    /\ UNCHANGED <<prefs, devices, hour, holder>>

(* A step of one call keeps the invariant of all.                          *)
LEMMA OneCallKeeps ==
    ASSUME NoteInv, NEW n \in Notes, OneCall(n), notes[n].at # "none"
    PROVE  NoteInv' /\ CallsStay
<1>1. PICK c \in Note :
         /\ notes' = [notes EXCEPT ![n] = c]
         /\ c.user = notes[n].user /\ c.kind = notes[n].kind
         /\ c.muted => notes[n].muted
         /\ c.foreign = notes[n].foreign
         /\ c.at # "none"
         /\ c.at \in {"prefs", "list", "send", "drop"} => feed'[n] # "absent"
         /\ c.at \in {"list", "send", "drop"} => ~notes[n].muted
         /\ c.at \in {"send", "drop"} => c.left \cap c.foreign = {}
  BY DEF OneCall
<1>2. /\ feed' \in [Notes -> {"absent", "unread", "read"}]
      /\ \A k \in Notes : feed[k] # "absent" => feed'[k] # "absent"
      /\ rung' \subseteq Notes
      /\ \A k \in rung' : k \in rung \/ feed'[k] # "absent"
      /\ UNCHANGED <<prefs, devices, hour, holder>>
  BY DEF OneCall
<1>3. NotifyTypeOK /\ devices = holder /\ PushIsOnFile /\ \A k \in Notes : GoodNote(k)
  BY DEF NoteInv
<1>4. notes' \in [Notes -> Note] /\ notes'[n] = c
      /\ \A k \in Notes : k # n => notes'[k] = notes[k]
  BY <1>1, <1>3 DEF NotifyTypeOK
<1>5. NotifyTypeOK'
  BY <1>2, <1>3, <1>4 DEF NotifyTypeOK
<1>6. PushIsOnFile'
  BY <1>2, <1>3 DEF PushIsOnFile, NotifyTypeOK
<1>7. ASSUME NEW k \in Notes, k # n
      PROVE  GoodNote(k)'
  BY <1>2, <1>3, <1>4, <1>7 DEF GoodNote
<1>8. GoodNote(n)'
  <2> GoodNote(n)
    BY <1>3
  <2> QED BY <1>1, <1>2, <1>4 DEF GoodNote
<1>9. CallsStay
  BY <1>1, <1>4 DEF CallsStay
<1> QED BY <1>2, <1>3, <1>5, <1>6, <1>7, <1>8, <1>9 DEF NoteInv

(* saveToFeed stores the row before anything else is done.                 *)
LEMMA SaveStep ==
    ASSUME NoteInv, NEW n \in Notes, saveToFeed(n)
    PROVE  OneCall(n)
<1> notes \in [Notes -> Note] /\ GoodNote(n) /\ NotifyTypeOK
  BY DEF NoteInv, NotifyTypeOK
<1> DEFINE c == [notes[n] EXCEPT !.at = "prefs"]
<1>1. c \in Note /\ c.at = "prefs" /\ c.user = notes[n].user /\ c.kind = notes[n].kind
      /\ c.foreign = notes[n].foreign /\ (c.muted => notes[n].muted)
  BY DEF Note, NoteLabels
<1>2. notes' = [notes EXCEPT ![n] = c]
  BY DEF saveToFeed, Move
<1> HIDE DEF c
<1>3. feed' = [feed EXCEPT ![n] = "unread"] /\ UNCHANGED <<prefs, devices, hour, rung, holder>>
  BY DEF saveToFeed
<1>4. feed'[n] # "absent" /\ feed' \in [Notes -> {"absent", "unread", "read"}]
      /\ \A k \in Notes : feed[k] # "absent" => feed'[k] # "absent"
  BY <1>3 DEF NotifyTypeOK
<1>5. rung' \subseteq Notes /\ \A k \in rung' : k \in rung \/ feed'[k] # "absent"
  BY <1>3 DEF NotifyTypeOK
<1> QED BY <1>1, <1>2, <1>3, <1>4, <1>5 DEF OneCall

(* PrefsOf goes on only when the settings have allowed the push.           *)
LEMMA PrefsStep ==
    ASSUME NoteInv, NEW n \in Notes, PrefsOf(n)
    PROVE  OneCall(n)
<1> notes \in [Notes -> Note] /\ GoodNote(n) /\ NotifyTypeOK
  BY DEF NoteInv, NotifyTypeOK
<1> DEFINE allowed == allowPush(prefs[notes[n].user], notes[n].kind, hour)
           label == IF allowed THEN "list" ELSE "done"
           c == [notes[n] EXCEPT !.at = label]
<1>1. c \in Note /\ c.at = label /\ c.user = notes[n].user /\ c.kind = notes[n].kind
      /\ c.foreign = notes[n].foreign /\ (c.muted => notes[n].muted)
  <2> label \in NoteLabels
    BY DEF NoteLabels
  <2> HIDE DEF label
  <2> QED BY DEF Note
<1>2. notes' = [notes EXCEPT ![n] = c]
  BY DEF PrefsOf, Move
<1>3. notes[n].at = "prefs" /\ UNCHANGED <<feed, prefs, devices, hour, rung, holder>>
  BY DEF PrefsOf
<1>4. feed[n] # "absent"
  BY <1>3 DEF GoodNote
<1>5. allowed => ~notes[n].muted
  <2> SUFFICES ASSUME allowed, notes[n].muted PROVE FALSE
    OBVIOUS
  <2>1. Forbidden(prefs[notes[n].user], notes[n].kind, hour)
    BY DEF GoodNote
  <2>2. notes[n].user \in People
    BY <1>3 DEF GoodNote
  <2>3. prefs[notes[n].user] \in Prefs /\ hour \in Hours
    BY <2>2 DEF NotifyTypeOK
  <2> QED BY <2>1, <2>3, AllowedIsNotForbidden
<1> HIDE DEF c
<1> QED BY <1>1, <1>2, <1>3, <1>4, <1>5 DEF OneCall, NotifyTypeOK

(* ListDevicesByUser finds only telephones its person holds now.           *)
LEMMA ListStep ==
    ASSUME NoteInv, NEW n \in Notes, ListDevicesByUser(n)
    PROVE  OneCall(n)
<1> notes \in [Notes -> Note] /\ GoodNote(n) /\ NotifyTypeOK /\ devices = holder
  BY DEF NoteInv, NotifyTypeOK
<1> DEFINE mine == {t \in Tokens : devices[t] = notes[n].user}
           label == IF mine = {} THEN "done" ELSE "send"
           c == [notes[n] EXCEPT !.at = label, !.left = mine]
<1>1. c \in Note /\ c.at = label /\ c.left = mine
      /\ c.user = notes[n].user /\ c.kind = notes[n].kind
      /\ c.foreign = notes[n].foreign /\ (c.muted => notes[n].muted)
  <2> label \in NoteLabels /\ mine \in SUBSET Tokens
    BY DEF NoteLabels
  <2> HIDE DEF label, mine
  <2> QED BY DEF Note
<1>2. notes' = [notes EXCEPT ![n] = c]
  BY DEF ListDevicesByUser
<1>3. notes[n].at = "list" /\ UNCHANGED <<feed, prefs, devices, hour, rung, holder>>
  BY DEF ListDevicesByUser
<1>4. feed[n] # "absent" /\ ~notes[n].muted
  BY <1>3 DEF GoodNote
<1>5. mine \cap notes[n].foreign = {}
  BY DEF GoodNote
<1>6. label \in {"done", "send"}
  OBVIOUS
<1> HIDE DEF c, label, mine
<1> QED BY <1>1, <1>2, <1>3, <1>4, <1>5, <1>6 DEF OneCall, NotifyTypeOK

(* Send rings the telephones it has found, and nobody else's.              *)
LEMMA SendStep ==
    ASSUME NoteInv, NEW n \in Notes, NEW t \in Tokens, NEW answer, Send(n, t, answer)
    PROVE  OneCall(n)
<1> notes \in [Notes -> Note] /\ GoodNote(n) /\ NotifyTypeOK
  BY DEF NoteInv, NotifyTypeOK
<1> DEFINE rest == notes[n].left \ {t}
           label == IF rest = {} THEN "done" ELSE "send"
<1>1. /\ notes[n].at = "send" /\ rung' = rung \cup {n}
      /\ UNCHANGED <<feed, prefs, devices, hour, holder>>
  BY DEF Send
<1>2. feed[n] # "absent" /\ ~notes[n].muted /\ notes[n].left \cap notes[n].foreign = {}
  BY <1>1 DEF GoodNote
<1>3. ASSUME answer = "dead"
      PROVE  OneCall(n)
  <2> DEFINE c == [notes[n] EXCEPT !.at = "drop"]
  <2>1. c \in Note /\ c.at = "drop" /\ c.left = notes[n].left
        /\ c.user = notes[n].user /\ c.kind = notes[n].kind
        /\ c.foreign = notes[n].foreign /\ (c.muted => notes[n].muted)
    BY DEF Note, NoteLabels
  <2>2. notes' = [notes EXCEPT ![n] = c]
    BY <1>3 DEF Send, Move
  <2> HIDE DEF c
  <2> QED BY <1>1, <1>2, <2>1, <2>2 DEF OneCall, NotifyTypeOK
<1>4. ASSUME answer # "dead"
      PROVE  OneCall(n)
  <2> DEFINE c == [notes[n] EXCEPT !.left = rest, !.at = label]
  <2>1. c \in Note /\ c.at = label /\ c.left = rest
        /\ c.user = notes[n].user /\ c.kind = notes[n].kind
        /\ c.foreign = notes[n].foreign /\ (c.muted => notes[n].muted)
    <3> label \in NoteLabels /\ rest \in SUBSET Tokens
      BY DEF NoteLabels, Note
    <3> HIDE DEF label, rest
    <3> QED BY DEF Note
  <2>2. notes' = [notes EXCEPT ![n] = c]
    BY <1>4 DEF Send
  <2>3. label \in {"done", "send"} /\ rest \cap notes[n].foreign = {}
    BY <1>2
  <2> HIDE DEF c, label, rest
  <2> QED BY <1>1, <1>2, <2>1, <2>2, <2>3 DEF OneCall, NotifyTypeOK
<1> QED BY <1>3, <1>4

(* A call that fails is over.                                              *)
LEMMA FailStep ==
    ASSUME NoteInv, NEW n \in Notes, NoteFails(n)
    PROVE  OneCall(n)
<1> notes \in [Notes -> Note] /\ GoodNote(n) /\ NotifyTypeOK
  BY DEF NoteInv, NotifyTypeOK
<1> DEFINE c == [notes[n] EXCEPT !.at = "done"]
<1>1. c \in Note /\ c.at = "done" /\ c.user = notes[n].user /\ c.kind = notes[n].kind
      /\ c.foreign = notes[n].foreign /\ (c.muted => notes[n].muted)
  BY DEF Note, NoteLabels
<1>2. notes' = [notes EXCEPT ![n] = c]
  BY DEF NoteFails, Move, AfterFailure
<1>3. UNCHANGED <<feed, prefs, devices, hour, rung, holder>>
  BY DEF NoteFails
<1> HIDE DEF c
<1> QED BY <1>1, <1>2, <1>3 DEF OneCall, NotifyTypeOK

(* What a change of settings, of the hour or of telephones does to the     *)
(* histories of one call.                                                  *)
LEMMA RefreshedCall ==
    ASSUME notes \in [Notes -> Note], NEW ps, NEW h, NEW held, NEW k \in Notes,
           NEW r, r = Refreshed(ps, h, held)[k]
    PROVE  /\ r \in Note
           /\ r.at = notes[k].at /\ r.user = notes[k].user /\ r.kind = notes[k].kind
           /\ r.left = notes[k].left
           /\ r.muted => notes[k].muted
           /\ r.muted => Forbidden(ps[notes[k].user], notes[k].kind, h)
           /\ r.foreign = {t \in notes[k].foreign : held[t] # notes[k].user}
<1> DEFINE still == notes[k].muted /\ Forbidden(ps[notes[k].user], notes[k].kind, h)
           others == {t \in notes[k].foreign : held[t] # notes[k].user}
<1>1. r = [notes[k] EXCEPT !.muted = still, !.foreign = others]
  BY DEF Refreshed
<1>2. still \in BOOLEAN /\ others \in SUBSET Tokens
  BY DEF Note
<1>3. still => notes[k].muted /\ Forbidden(ps[notes[k].user], notes[k].kind, h)
  OBVIOUS
<1> HIDE DEF still, others
<1>4. /\ r \in Note
      /\ r.at = notes[k].at /\ r.user = notes[k].user /\ r.kind = notes[k].kind
      /\ r.left = notes[k].left /\ r.foreign = others
      /\ r.muted => still
  BY <1>1, <1>2 DEF Note
<1> QED BY <1>3, <1>4 DEF others

(* Settings, hour or telephones have changed, and the table still knows    *)
(* who holds each telephone.                                               *)
Renewal ==
    /\ prefs' \in [People -> Prefs] /\ hour' \in Hours
    /\ holder' \in [Tokens -> People \cup {NoOne}] /\ devices' = holder'
    /\ notes' = Refreshed(prefs', hour', holder')
    /\ UNCHANGED <<feed, rung>>

(* Such a change keeps the invariant of all calls.                         *)
LEMMA RenewalKeeps ==
    ASSUME NoteInv, Renewal
    PROVE  NoteInv' /\ CallsStay
<1>1. NotifyTypeOK /\ PushIsOnFile /\ \A k \in Notes : GoodNote(k)
  BY DEF NoteInv
<1>2. notes \in [Notes -> Note]
  BY <1>1 DEF NotifyTypeOK
<1>3. /\ prefs' \in [People -> Prefs] /\ hour' \in Hours
      /\ holder' \in [Tokens -> People \cup {NoOne}] /\ devices' = holder'
      /\ feed' = feed /\ rung' = rung
  BY DEF Renewal
<1>4. ASSUME NEW k \in Notes
      PROVE  /\ notes'[k] \in Note
             /\ notes'[k].at = notes[k].at /\ notes'[k].user = notes[k].user
             /\ notes'[k].kind = notes[k].kind /\ notes'[k].left = notes[k].left
             /\ notes'[k].muted => notes[k].muted
             /\ notes'[k].muted => Forbidden(prefs'[notes[k].user], notes[k].kind, hour')
             /\ notes'[k].foreign = {t \in notes[k].foreign : holder'[t] # notes[k].user}
  <2>1. notes'[k] = Refreshed(prefs', hour', holder')[k]
    BY DEF Renewal
  <2> QED BY <1>2, <2>1, RefreshedCall
<1>5. notes' \in [Notes -> Note]
  <2>1. notes' = [k \in Notes |-> notes'[k]]
    BY DEF Renewal, Refreshed
  <2> QED BY <1>4, <2>1
<1>6. NotifyTypeOK' /\ PushIsOnFile' /\ (devices = holder)'
  BY <1>1, <1>3, <1>5 DEF NotifyTypeOK, PushIsOnFile
<1>7. ASSUME NEW k \in Notes
      PROVE  GoodNote(k)'
  <2> GoodNote(k)
    BY <1>1
  <2> QED BY <1>3, <1>4 DEF GoodNote
<1>8. CallsStay
  BY <1>4 DEF CallsStay
<1> QED BY <1>6, <1>7, <1>8 DEF NoteInv

(* RegisterDevice gives the telephone to whoever signs in.                 *)
LEMMA RegisterStep ==
    ASSUME NoteInv, NEW t \in Tokens, NEW u \in People, RegisterDevice(t, u)
    PROVE  Renewal
<1> NotifyTypeOK /\ devices = holder
  BY DEF NoteInv
<1>1. holder' = [holder EXCEPT ![t] = u] /\ devices' = holder'
  BY DEF RegisterDevice, UpsertDevice
<1>2. prefs' = prefs /\ hour' = hour /\ notes' = Refreshed(prefs', hour', holder')
      /\ UNCHANGED <<feed, rung>>
  BY DEF RegisterDevice, Refreshed
<1> QED BY <1>1, <1>2 DEF Renewal, NotifyTypeOK

(* UnregisterDevice takes it from everybody.                               *)
LEMMA UnregisterStep ==
    ASSUME NoteInv, NEW t \in Tokens, UnregisterDevice(t)
    PROVE  Renewal
<1> NotifyTypeOK /\ devices = holder
  BY DEF NoteInv
<1>1. holder' = [holder EXCEPT ![t] = NoOne] /\ devices' = holder'
  BY DEF UnregisterDevice
<1>2. prefs' = prefs /\ hour' = hour /\ notes' = Refreshed(prefs', hour', holder')
      /\ UNCHANGED <<feed, rung>>
  BY DEF UnregisterDevice, Refreshed
<1> QED BY <1>1, <1>2 DEF Renewal, NotifyTypeOK

(* Whatever people enter, the settings keep hours of the day.              *)
LEMMA ChosenPrefs ==
    ASSUME NEW p \in Prefs, NEW q \in Chosen(p)
    PROVE  q \in Prefs
<1>1. \A h \in HourInputs : clampHour(h, DefaultFrom) \in Hours
                            /\ clampHour(h, DefaultTo) \in Hours
  BY NotifyTimes DEF clampHour, Hours
<1>2. CASE \E g \in Switches : q = [p EXCEPT !.off = IF g \in @ THEN @ \ {g} ELSE @ \cup {g}]
  <2>1. PICK g \in Switches : q = [p EXCEPT !.off = IF g \in @ THEN @ \ {g} ELSE @ \cup {g}]
    BY <1>2
  <2> DEFINE now == IF g \in p.off THEN p.off \ {g} ELSE p.off \cup {g}
  <2>2. now \in SUBSET Groups /\ q = [p EXCEPT !.off = now]
    BY <2>1, NotifySwitches DEF Prefs
  <2> HIDE DEF now
  <2> QED BY <2>2 DEF Prefs
<1>3. CASE q = [p EXCEPT !.quiet = ~@]
  BY <1>3 DEF Prefs
<1>4. CASE q = [p EXCEPT !.outbid = ~@]
  BY <1>4 DEF Prefs
<1>5. CASE \E h \in HourInputs : q = [p EXCEPT !.from = clampHour(h, DefaultFrom)]
  BY <1>1, <1>5 DEF Prefs
<1>6. CASE \E h \in HourInputs : q = [p EXCEPT !.to = clampHour(h, DefaultTo)]
  BY <1>1, <1>6 DEF Prefs
<1> QED BY <1>2, <1>3, <1>4, <1>5, <1>6 DEF Chosen

(* savePrefs changes the settings of one person.                           *)
LEMMA SavePrefsStep ==
    ASSUME NoteInv, NEW u \in Choosers, savePrefs(u)
    PROVE  Renewal
<1> NotifyTypeOK /\ devices = holder /\ u \in People
  BY NotifyPeople DEF NoteInv
<1>1. PICK p \in Chosen(prefs[u]) : prefs' = [prefs EXCEPT ![u] = p]
  BY DEF savePrefs
<1>2. prefs[u] \in Prefs
  BY DEF NotifyTypeOK
<1>3. p \in Prefs
  BY <1>2, ChosenPrefs
<1>4. hour' = hour /\ holder' = holder /\ notes' = Refreshed(prefs', hour', holder')
      /\ UNCHANGED <<feed, rung, devices>>
  BY DEF savePrefs, Refreshed
<1> QED BY <1>1, <1>3, <1>4 DEF Renewal, NotifyTypeOK

(* An hour passes.                                                         *)
LEMMA HourStep ==
    ASSUME NoteInv, HourPasses
    PROVE  Renewal
<1> NotifyTypeOK /\ devices = holder
  BY DEF NoteInv
<1>1. hour' \in Hours
  BY HourOfDay, NotifyTimes DEF HourPasses, NotifyTypeOK, Hours
<1>2. prefs' = prefs /\ holder' = holder /\ notes' = Refreshed(prefs', hour', holder')
      /\ UNCHANGED <<feed, rung, devices>>
  BY DEF HourPasses, Refreshed
<1> QED BY <1>1, <1>2 DEF Renewal, NotifyTypeOK

(* MarkNotificationsRead changes rows that are there.                      *)
LEMMA MarkNotesStep ==
    ASSUME NoteInv, NEW u \in People, NEW ids, MarkNotificationsRead(u, ids)
    PROVE  NoteInv' /\ CallsStay
<1>1. NotifyTypeOK /\ PushIsOnFile /\ devices = holder /\ \A k \in Notes : GoodNote(k)
  BY DEF NoteInv
<1>2. UNCHANGED <<prefs, devices, hour, notes, rung, holder>>
  BY DEF MarkNotificationsRead
<1>3. feed' \in [Notes -> {"absent", "unread", "read"}]
      /\ \A k \in Notes : feed[k] # "absent" => feed'[k] # "absent"
  BY <1>1 DEF MarkNotificationsRead, NotifyTypeOK
<1>4. NotifyTypeOK' /\ PushIsOnFile'
  BY <1>1, <1>2, <1>3 DEF NotifyTypeOK, PushIsOnFile
<1>5. \A k \in Notes : GoodNote(k)'
  BY <1>1, <1>2, <1>3 DEF GoodNote
<1> QED BY <1>1, <1>2, <1>4, <1>5 DEF NoteInv, CallsStay

(* The dead token is taken from whoever holds it, and the call goes on     *)
(* with the telephones that are left.                                      *)
LEMMA DeleteDeadStep ==
    ASSUME NoteInv, NEW n \in Notes, NEW t \in Tokens, NEW deleted \in BOOLEAN,
           DeleteDead(n, t, deleted)
    PROVE  NoteInv' /\ CallsStay
<1> DEFINE rest == notes[n].left \ {t}
           label == IF rest = {} THEN "done" ELSE "send"
           held == IF deleted THEN [holder EXCEPT ![t] = NoOne] ELSE holder
           fresh == Refreshed(prefs, hour, held)
           c == [fresh[n] EXCEPT !.left = rest, !.at = label]
<1>1. NotifyTypeOK /\ PushIsOnFile /\ devices = holder /\ \A k \in Notes : GoodNote(k)
  BY DEF NoteInv
<1>2. notes \in [Notes -> Note]
  BY <1>1 DEF NotifyTypeOK
<1>3. /\ notes[n].at = "drop" /\ holder' = held /\ devices' = holder'
      /\ UNCHANGED <<feed, prefs, hour, rung>>
  BY <1>1 DEF DeleteDead
<1>4. held \in [Tokens -> People \cup {NoOne}]
  BY <1>1 DEF NotifyTypeOK
<1>5. notes' = [fresh EXCEPT ![n] = c]
  BY DEF DeleteDead
<1>6. label \in {"done", "send"} /\ label \in NoteLabels /\ rest \in SUBSET Tokens
  BY <1>2 DEF NoteLabels, Note
<1>7. rest \cap notes[n].foreign = {} /\ feed[n] # "absent" /\ ~notes[n].muted
  <2> GoodNote(n)
    BY <1>1
  <2> QED BY <1>3 DEF GoodNote
<1>8. ASSUME NEW k \in Notes
      PROVE
         /\ fresh[k] \in Note
         /\ fresh[k].at = notes[k].at /\ fresh[k].user = notes[k].user
         /\ fresh[k].kind = notes[k].kind /\ fresh[k].left = notes[k].left
         /\ fresh[k].muted => notes[k].muted
         /\ fresh[k].muted => Forbidden(prefs[notes[k].user], notes[k].kind, hour)
         /\ fresh[k].foreign = {x \in notes[k].foreign : held[x] # notes[k].user}
  <2>1. fresh[k] = Refreshed(prefs, hour, held)[k]
    OBVIOUS
  <2> HIDE DEF held, fresh
  <2> QED BY <1>2, <2>1, RefreshedCall
<1>9. fresh = [k \in Notes |-> fresh[k]]
  BY DEF Refreshed
<1> HIDE DEF rest, label, held, fresh
<1>10. /\ c \in Note /\ c.at = label /\ c.left = rest /\ c.user = notes[n].user
       /\ c.kind = notes[n].kind /\ c.foreign = fresh[n].foreign
       /\ c.muted => fresh[n].muted
  <2>1. ASSUME NEW f \in Note
        PROVE  LET d == [f EXCEPT !.left = rest, !.at = label] IN
               /\ d \in Note /\ d.at = label /\ d.left = rest /\ d.user = f.user
               /\ d.kind = f.kind /\ d.foreign = f.foreign
               /\ d.muted => f.muted
    BY <1>6 DEF Note
  <2> QED BY <2>1, <1>8
<1> HIDE DEF c
<1>11. notes' \in [Notes -> Note] /\ notes'[n] = c
       /\ \A k \in Notes : k # n => notes'[k] = fresh[k]
  BY <1>5, <1>8, <1>9, <1>10
<1>12. NotifyTypeOK' /\ PushIsOnFile' /\ (devices = holder)'
  BY <1>1, <1>3, <1>4, <1>11 DEF NotifyTypeOK, PushIsOnFile
<1>13. ASSUME NEW k \in Notes, k # n
       PROVE  GoodNote(k)'
  <2> GoodNote(k)
    BY <1>1
  <2> QED BY <1>3, <1>8, <1>11, <1>13 DEF GoodNote
<1>14. GoodNote(n)'
  <2> GoodNote(n)
    BY <1>1
  <2> QED BY <1>3, <1>6, <1>7, <1>8, <1>10, <1>11 DEF GoodNote
<1>15. CallsStay
  BY <1>3, <1>6, <1>8, <1>10, <1>11 DEF CallsStay
<1> QED BY <1>12, <1>13, <1>14, <1>15 DEF NoteInv

(* A request arrives, with the histories its settings and telephones give. *)
LEMMA ArriveStep ==
    ASSUME NoteInv, NEW n \in Notes, NEW u \in People, NEW kind \in Kinds,
           Arrive(n, u, kind)
    PROVE  /\ NoteInv'
           /\ notes[n].at = "none" /\ notes'[n].at # "none" /\ notes'[n].user = u
           /\ \A k \in Notes : k # n => notes'[k] = notes[k]
<1>1. NotifyTypeOK /\ PushIsOnFile /\ devices = holder /\ \A k \in Notes : GoodNote(k)
  BY DEF NoteInv
<1> DEFINE shut == Forbidden(prefs[u], kind, hour)
           others == {t \in Tokens : holder[t] # u}
           c == [NoNote EXCEPT !.at = "save", !.user = u, !.kind = kind, !.muted = shut,
                               !.foreign = others]
<1>2. notes[n].at = "none" /\ notes' = [notes EXCEPT ![n] = c]
      /\ UNCHANGED <<feed, prefs, devices, hour, rung, holder>>
  BY DEF Arrive
<1>3. shut \in BOOLEAN /\ others \in SUBSET Tokens
  BY DEF Forbidden
<1>4. \A t \in others : holder[t] # u
  OBVIOUS
<1>5. shut => Forbidden(prefs[u], kind, hour)
  OBVIOUS
<1> HIDE DEF shut, others
<1>6. /\ c \in Note /\ c.at = "save" /\ c.user = u /\ c.kind = kind /\ c.foreign = others
      /\ c.muted => shut
  BY <1>3 DEF NoNote, Note, NoteLabels
<1> HIDE DEF c
<1>7. notes' \in [Notes -> Note] /\ notes'[n] = c
      /\ \A k \in Notes : k # n => notes'[k] = notes[k]
  BY <1>1, <1>2, <1>6 DEF NotifyTypeOK
<1>8. NotifyTypeOK' /\ PushIsOnFile' /\ (devices = holder)'
  BY <1>1, <1>2, <1>7 DEF NotifyTypeOK, PushIsOnFile
<1>9. ASSUME NEW k \in Notes, k # n
      PROVE  GoodNote(k)'
  <2> GoodNote(k)
    BY <1>1
  <2> QED BY <1>2, <1>7, <1>9 DEF GoodNote
<1>10. GoodNote(n)'
  BY <1>2, <1>4, <1>5, <1>6, <1>7 DEF GoodNote
<1> QED BY <1>2, <1>6, <1>7, <1>8, <1>9, <1>10 DEF NoteInv

(* Every step of a call keeps the invariant of the notifications service.  *)
LEMMA NoteStepKeeps ==
    ASSUME NoteInv, NoteStep
    PROVE  NoteInv' /\ CallsStay
<1>1. PICK n \in Notes : Progress(n)
  BY DEF NoteStep
<1>2. CASE saveToFeed(n)
  BY <1>2, SaveStep, OneCallKeeps DEF saveToFeed
<1>3. CASE PrefsOf(n)
  BY <1>3, PrefsStep, OneCallKeeps DEF PrefsOf
<1>4. CASE ListDevicesByUser(n)
  BY <1>4, ListStep, OneCallKeeps DEF ListDevicesByUser
<1>5. CASE NoteFails(n)
  BY <1>5, FailStep, OneCallKeeps DEF NoteFails
<1>6. CASE \E t \in Tokens, answer \in {"ok", "failed", "dead"} : Send(n, t, answer)
  BY <1>6, SendStep, OneCallKeeps DEF Send
<1>7. CASE \E t \in Tokens, deleted \in BOOLEAN : DeleteDead(n, t, deleted)
  BY <1>7, DeleteDeadStep
<1> QED BY <1>1, <1>2, <1>3, <1>4, <1>5, <1>6, <1>7 DEF Progress

(* So does whatever people and the clock do.                               *)
LEMMA PeopleKeep ==
    ASSUME NoteInv, PeopleAct
    PROVE  NoteInv' /\ CallsStay
<1>1. CASE \E t \in Tokens : UnregisterDevice(t)
  BY <1>1, UnregisterStep, RenewalKeeps
<1>2. CASE \E t \in Tokens, u \in People : RegisterDevice(t, u)
  BY <1>2, RegisterStep, RenewalKeeps
<1>3. CASE \E u \in People, ids \in SUBSET Notes : MarkNotificationsRead(u, ids)
  BY <1>3, MarkNotesStep
<1>4. CASE \E u \in Choosers : savePrefs(u)
  BY <1>4, SavePrefsStep, RenewalKeeps
<1>5. CASE HourPasses
  BY <1>5, HourStep, RenewalKeeps
<1> QED BY <1>1, <1>2, <1>3, <1>4, <1>5 DEF PeopleAct

-----------------------------------------------------------------------------
(* The requests of the chats.                                              *)

(* What no step of a request takes away: the deal, who has written which   *)
(* message to whom, and the announcements that were prevented.             *)
ChatKeeps ==
    /\ closed' \in BOOLEAN /\ dealWith' \in Owners \cup {NoOwner}
    /\ dealWith # NoOwner => dealWith' = dealWith
    /\ chats' \in [Owners -> Chat]
    /\ \A o \in Owners : chats'[o].kind = "deal" => dealWith' = o
    /\ messages' \in [Messages -> Message]
    /\ \A m \in Messages :
         /\ Stored(m) => /\ messages'[m].owner = messages[m].owner
                         /\ messages'[m].from = messages[m].from
         /\ messages'[m].contact = "open" => /\ messages'[m].owner # NoOwner
                                             /\ messages'[m].owner = dealWith'
         /\ messages'[m].owner # NoOwner => messages'[m].from \in Party(messages'[m].owner)
    /\ lost \subseteq lost' /\ lost' \subseteq Messages

(* What a request may carry to its next statement.                         *)
Fits(label, l) ==
    /\ label \in ChatLabels /\ l \in ChatLocal
    /\ label # "idle" => l.owner \in Owners /\ l.user \in Party(l.owner)
    /\ l.chat.kind = "deal" => l.owner \in Owners /\ l.owner = dealWith'
    /\ label = "createMessage" => l.chat.kind # "none"
    /\ l.msg # 0 <=> label \in {"touchChat", "announce"}
    /\ l.msg # 0 => messages'[l.msg].owner = l.owner /\ messages'[l.msg].from = l.user

(* The message a request holds after its step: the same, or none because   *)
(* its announcement was prevented, or the one it has just stored.          *)
Holds(p, l) ==
    /\ \/ l.msg = cloc[p].msg
       \/ l.msg = 0 /\ cloc[p].msg \in lost'
       \/ cloc[p].msg = 0 /\ l.msg # 0 /\ ~Stored(l.msg)
    /\ \A m \in Messages : messages'[m].owner # NoOwner => Stored(m) \/ m = l.msg

ChatMove(p) == \E label, l : CGoto(p, label, l) /\ Fits(label, l) /\ Holds(p, l)

(* Messages pass from the requests to the announcements and nowhere else.  *)
HandsOn ==
    \A m \in Messages :
        /\ Held(m) => Held(m)' \/ m \in lost'
        /\ messages'[m].owner # NoOwner => Stored(m) \/ Held(m)'
        /\ Held(m)' => Held(m) \/ ~Stored(m)

(* The local state of a request that rests.                                *)
LEMMA BlankLocal ==
    /\ NoChatLocal \in ChatLocal /\ NoChatLocal.msg = 0 /\ NoChatLocal.chat.kind = "none"
    /\ NoChat \in Chat /\ NoChat.kind = "none"
BY ChatBound DEF NoChatLocal, ChatLocal, NoChat, Chat

(* A request that lands on a statement with a fitting local keeps the      *)
(* invariant of all requests.                                              *)
LEMMA LandingKeeps ==
    ASSUME ChatInv, ChatKeeps, NEW p \in ChatRequests, NEW label, NEW l,
           CGoto(p, label, l), Fits(label, l),
           l.msg = 0 \/ l.msg = cloc[p].msg \/ ~Stored(l.msg)
    PROVE  ChatInv'
<1>1. ChatTypeOK /\ OwnMessages /\ \A q \in ChatRequests : GoodCopy(cpc[q], cloc[q])
  BY DEF ChatInv
<1>2. /\ cpc' = [cpc EXCEPT ![p] = label] /\ cloc' = [cloc EXCEPT ![p] = l]
      /\ label \in ChatLabels /\ l \in ChatLocal
  BY DEF CGoto, Fits
<1>3. /\ cpc' \in [ChatRequests -> ChatLabels] /\ cloc' \in [ChatRequests -> ChatLocal]
      /\ cpc'[p] = label /\ cloc'[p] = l
      /\ \A q \in ChatRequests : q # p => cpc'[q] = cpc[q] /\ cloc'[q] = cloc[q]
  BY <1>1, <1>2 DEF ChatTypeOK
<1>4. ChatTypeOK'
  BY <1>3 DEF ChatTypeOK, ChatKeeps
<1>5. \A q \in ChatRequests :
         /\ cloc[q].msg # 0 => Stored(cloc[q].msg)
         /\ cloc[q] \in ChatLocal /\ cloc[q].msg \in 0..MaxMessages
  BY <1>1, ChatPeople DEF GoodCopy, ChatTypeOK, ChatLocal, Stored
<1>6. OwnMessages'
  BY <1>1, <1>3, <1>5 DEF OwnMessages
<1>7. GoodCopy(cpc[p], cloc[p])'
  BY <1>3 DEF Fits, GoodCopy
<1>8. ASSUME NEW q \in ChatRequests, q # p
      PROVE  GoodCopy(cpc[q], cloc[q])'
  <2>1. GoodCopy(cpc[q], cloc[q])
    BY <1>1
  <2>2. cloc[q].msg # 0 => /\ messages'[cloc[q].msg].owner = messages[cloc[q].msg].owner
                           /\ messages'[cloc[q].msg].from = messages[cloc[q].msg].from
    <3> SUFFICES ASSUME cloc[q].msg # 0
                 PROVE  /\ messages'[cloc[q].msg].owner = messages[cloc[q].msg].owner
                        /\ messages'[cloc[q].msg].from = messages[cloc[q].msg].from
      OBVIOUS
    <3> cloc[q].msg \in Messages /\ Stored(cloc[q].msg)
      BY <1>5, ChatBound DEF Messages
    <3> QED BY DEF ChatKeeps
  <2>3. cloc[q].chat.kind = "deal" => cloc[q].owner = dealWith'
    BY <2>1, ChatPeople DEF GoodCopy, ChatKeeps
  <2>4. cpc'[q] = cpc[q] /\ cloc'[q] = cloc[q]
    BY <1>3, <1>8
  <2> QED BY <2>1, <2>2, <2>3, <2>4 DEF GoodCopy
<1>9. \A q \in ChatRequests : GoodCopy(cpc[q], cloc[q])'
  BY <1>7, <1>8
<1>10. /\ \A o \in Owners : chats'[o].kind = "deal" => dealWith' = o
       /\ \A m \in Messages :
            /\ messages'[m].contact = "open" => /\ messages'[m].owner # NoOwner
                                                /\ messages'[m].owner = dealWith'
            /\ messages'[m].owner # NoOwner
                 => messages'[m].from \in Party(messages'[m].owner)
  BY DEF ChatKeeps
<1> QED BY <1>4, <1>6, <1>9, <1>10 DEF ChatInv, Stored, Party

(* A step of a request keeps the invariant, and no message gets lost.      *)
LEMMA MoveKeeps ==
    ASSUME ChatInv, ChatKeeps, NEW p \in ChatRequests, ChatMove(p)
    PROVE  ChatInv' /\ HandsOn
<1>1. PICK label, l : CGoto(p, label, l) /\ Fits(label, l) /\ Holds(p, l)
  BY DEF ChatMove
<1>2. ChatInv'
  BY <1>1, LandingKeeps DEF Holds
<1>3. ChatTypeOK
  BY DEF ChatInv
<1>4. /\ cloc'[p] = l
      /\ \A q \in ChatRequests : q # p => cloc'[q] = cloc[q]
  BY <1>1, <1>3 DEF CGoto, ChatTypeOK
<1>5. \A m \in Messages : m # 0
  BY DEF Messages
<1>6. ASSUME NEW m \in Messages, Held(m)
      PROVE  Held(m)' \/ m \in lost'
  <2>1. PICK q \in ChatRequests : cloc[q].msg = m
    BY <1>6 DEF Held
  <2>2. CASE q # p
    BY <1>4, <2>1, <2>2 DEF Held
  <2>3. CASE q = p
    <3>1. l.msg = m \/ m \in lost'
      BY <1>1, <1>5, <2>1, <2>3 DEF Holds
    <3> QED BY <1>4, <3>1 DEF Held
  <2> QED BY <2>2, <2>3
<1>7. ASSUME NEW m \in Messages, messages'[m].owner # NoOwner
      PROVE  Stored(m) \/ Held(m)'
  BY <1>1, <1>4, <1>7 DEF Holds, Held
<1>8. ASSUME NEW m \in Messages, Held(m)'
      PROVE  Held(m) \/ ~Stored(m)
  <2>1. PICK q \in ChatRequests : cloc'[q].msg = m
    BY <1>8 DEF Held
  <2>2. CASE q # p
    BY <1>4, <2>1, <2>2 DEF Held
  <2>3. CASE q = p
    <3>1. l.msg = m
      BY <1>4, <2>1, <2>3
    <3> QED BY <1>1, <1>5, <3>1 DEF Holds, Held
  <2> QED BY <2>2, <2>3
<1> QED BY <1>2, <1>6, <1>7, <1>8 DEF HandsOn

(* A step that only reads keeps every row.                                 *)
LEMMA ReadingKeeps ==
    ASSUME ChatInv, UNCHANGED <<closed, dealWith, chats, messages, lost>>
    PROVE  ChatKeeps
BY DEF ChatInv, ChatTypeOK, ChatKeeps, Stored

(* What is known of a request under way.                                   *)
LEMMA RequestFacts ==
    ASSUME ChatInv, NEW p \in ChatRequests
    PROVE  /\ cloc[p] \in ChatLocal /\ cloc[p].chat \in Chat /\ cloc[p].msg \in 0..MaxMessages
           /\ cpc[p] # "idle" => cloc[p].owner \in Owners
                                 /\ cloc[p].user \in Party(cloc[p].owner)
           /\ cpc[p] \notin {"touchChat", "announce"} => cloc[p].msg = 0
BY DEF ChatInv, ChatTypeOK, GoodCopy, ChatLocal

(* A request that holds no message may end at any time.                    *)
LEMMA ReturnMove ==
    ASSUME ChatInv, NEW p \in ChatRequests, CReturn(p),
           cloc[p].msg = 0 \/ cloc[p].msg \in lost',
           \A m \in Messages : messages'[m].owner # NoOwner => Stored(m)
    PROVE  ChatMove(p)
<1>1. Fits("idle", NoChatLocal)
  BY BlankLocal DEF Fits, ChatLabels
<1>2. Holds(p, NoChatLocal)
  BY BlankLocal DEF Holds
<1> QED BY <1>1, <1>2 DEF CReturn, ChatMove

(* Nothing is stored by a step that leaves the messages alone.             *)
LEMMA NothingNew ==
    ASSUME messages' = messages
    PROVE  \A m \in Messages : messages'[m].owner # NoOwner => Stored(m)
BY DEF Stored

(* OpenChat and Messages begin with the names they were given.             *)
LEMMA BeginMove ==
    ASSUME ChatInv, NEW p \in ChatRequests, NEW o \in Owners, NEW u \in Users,
           OpenChat(p, u, o) \/ ReadMessages(p, u, o)
    PROVE  ChatKeeps /\ ChatMove(p)
<1> DEFINE l == [NoChatLocal EXCEPT !.user = u, !.owner = o]
<1>1. /\ cpc[p] = "idle" /\ u \in Party(o)
      /\ CGoto(p, "findChat", l) \/ CGoto(p, "markRead", l)
      /\ UNCHANGED <<closed, dealWith, chats, messages, lost>>
  BY DEF OpenChat, ReadMessages, chatOfMine
<1>2. l \in ChatLocal /\ l.user = u /\ l.owner = o /\ l.msg = 0 /\ l.chat.kind = "none"
  BY BlankLocal DEF NoChatLocal, ChatLocal
<1> HIDE DEF l
<1>3. cloc[p].msg = 0
  BY <1>1, RequestFacts
<1>4. Fits("findChat", l) /\ Fits("markRead", l)
  BY <1>1, <1>2 DEF Fits, ChatLabels
<1>5. Holds(p, l)
  BY <1>1, <1>2, <1>3, NothingNew DEF Holds
<1>6. ChatKeeps
  BY <1>1, ReadingKeeps
<1> QED BY <1>1, <1>4, <1>5, <1>6 DEF ChatMove

(* SendMessage begins with a copy of the chat.                             *)
LEMMA SendMessageMove ==
    ASSUME ChatInv, NEW p \in ChatRequests, NEW o \in Owners, NEW u \in Users,
           NEW text \in {"none", "contact"}, SendMessage(p, u, o, text)
    PROVE  ChatKeeps /\ ChatMove(p)
<1> DEFINE l == [NoChatLocal EXCEPT !.user = u, !.owner = o, !.chat = chats[o], !.text = text]
<1>1. /\ cpc[p] = "idle" /\ u \in Party(o) /\ chats[o].kind # "none"
      /\ CGoto(p, "createMessage", l)
      /\ UNCHANGED <<closed, dealWith, chats, messages, lost>>
  BY DEF SendMessage, chatOfMine
<1>2. chats[o] \in Chat /\ (chats[o].kind = "deal" => dealWith = o)
  BY DEF ChatInv, ChatTypeOK
<1>3. l \in ChatLocal /\ l.user = u /\ l.owner = o /\ l.msg = 0 /\ l.chat = chats[o]
  BY <1>2, BlankLocal DEF NoChatLocal, ChatLocal
<1> HIDE DEF l
<1>4. cloc[p].msg = 0
  BY <1>1, RequestFacts
<1>5. Fits("createMessage", l)
  BY <1>1, <1>2, <1>3 DEF Fits, ChatLabels
<1>6. Holds(p, l)
  BY <1>1, <1>3, <1>4, NothingNew DEF Holds
<1>7. ChatKeeps
  BY <1>1, ReadingKeeps
<1> QED BY <1>1, <1>5, <1>6, <1>7 DEF ChatMove

(* ChatByJobOwner goes on with the chat it has found.                      *)
LEMMA FindChatMove ==
    ASSUME ChatInv, NEW p \in ChatRequests, ChatByJobOwner(p)
    PROVE  ChatKeeps /\ ChatMove(p)
<1> DEFINE o == cloc[p].owner
           l == [cloc[p] EXCEPT !.chat = chats[o]]
<1>1. /\ cpc[p] = "findChat" /\ UNCHANGED <<closed, dealWith, chats, messages, lost>>
      /\ \/ CGoto(p, "createChat", cloc[p])
         \/ CReturn(p)
         \/ chats[o].kind # "deal" /\ CGoto(p, "dealByJob", l)
  BY DEF ChatByJobOwner, WithKind
<1>2. cloc[p] \in ChatLocal /\ o \in Owners /\ cloc[p].user \in Party(o) /\ cloc[p].msg = 0
  BY <1>1, RequestFacts
<1>3. ChatKeeps
  BY <1>1, ReadingKeeps
<1>4. GoodCopy(cpc[p], cloc[p])
  BY DEF ChatInv
<1>5. ASSUME CGoto(p, "createChat", cloc[p])
      PROVE  ChatMove(p)
  <2>1. Fits("createChat", cloc[p])
    BY <1>1, <1>2, <1>4 DEF Fits, GoodCopy, ChatLabels
  <2>2. Holds(p, cloc[p])
    BY <1>1, NothingNew DEF Holds
  <2> QED BY <1>5, <2>1, <2>2 DEF ChatMove
<1>6. ASSUME CReturn(p)
      PROVE  ChatMove(p)
  BY <1>1, <1>2, <1>6, NothingNew, ReturnMove
<1>7. ASSUME chats[o].kind # "deal", CGoto(p, "dealByJob", l)
      PROVE  ChatMove(p)
  <2>1. chats[o] \in Chat
    BY <1>2 DEF ChatInv, ChatTypeOK
  <2>2. /\ l \in ChatLocal /\ l.user = cloc[p].user /\ l.owner = o /\ l.msg = 0
        /\ l.chat = chats[o]
    BY <1>2, <2>1 DEF ChatLocal
  <2> HIDE DEF l
  <2>3. Fits("dealByJob", l)
    BY <1>2, <1>7, <2>2 DEF Fits, ChatLabels
  <2>4. Holds(p, l)
    BY <1>1, <1>2, <2>2, NothingNew DEF Holds
  <2> QED BY <1>7, <2>3, <2>4 DEF ChatMove
<1> QED BY <1>1, <1>3, <1>5, <1>6, <1>7

(* CreateChat stores a chat before the deal, or meets another one's.       *)
LEMMA CreateChatMove ==
    ASSUME ChatInv, NEW p \in ChatRequests, CreateChat(p)
    PROVE  ChatKeeps /\ ChatMove(p)
<1> DEFINE o == cloc[p].owner
           new == [kind |-> "pre_deal", last |-> 0]
           l == [cloc[p] EXCEPT !.chat = new]
<1>1. /\ cpc[p] = "createChat" /\ UNCHANGED <<closed, dealWith, messages, lost>>
      /\ \/ CGoto(p, "findChat", cloc[p]) /\ UNCHANGED chats
         \/ chats' = [chats EXCEPT ![o] = new] /\ CGoto(p, "dealByJob", l)
  BY DEF CreateChat
<1>2. cloc[p] \in ChatLocal /\ o \in Owners /\ cloc[p].user \in Party(o) /\ cloc[p].msg = 0
  BY <1>1, RequestFacts
<1>3. GoodCopy(cpc[p], cloc[p])
  BY DEF ChatInv
<1>4. ASSUME CGoto(p, "findChat", cloc[p]), UNCHANGED chats
      PROVE  ChatKeeps /\ ChatMove(p)
  <2>1. Fits("findChat", cloc[p])
    BY <1>1, <1>2, <1>3 DEF Fits, GoodCopy, ChatLabels
  <2>2. Holds(p, cloc[p])
    BY <1>1, NothingNew DEF Holds
  <2> QED BY <1>1, <1>4, <2>1, <2>2, ReadingKeeps DEF ChatMove
<1>5. ASSUME chats' = [chats EXCEPT ![o] = new], CGoto(p, "dealByJob", l)
      PROVE  ChatKeeps /\ ChatMove(p)
  <2>1. new \in Chat /\ new.kind = "pre_deal"
    BY ChatBound DEF Chat
  <2> HIDE DEF new
  <2>2. l \in ChatLocal /\ l.user = cloc[p].user /\ l.owner = o /\ l.msg = 0 /\ l.chat = new
    BY <1>2, <2>1 DEF ChatLocal
  <2> HIDE DEF l
  <2>3. Fits("dealByJob", l)
    BY <1>2, <2>1, <2>2 DEF Fits, ChatLabels
  <2>4. Holds(p, l)
    BY <1>1, <1>2, <2>2, NothingNew DEF Holds
  <2>5. ChatKeeps
    BY <1>1, <1>2, <1>5, <2>1 DEF ChatInv, ChatTypeOK, ChatKeeps, Stored
  <2> QED BY <1>5, <2>3, <2>4, <2>5 DEF ChatMove
<1> QED BY <1>1, <1>4, <1>5

(* DealByJob turns only the copy of the executor's own chat into one of    *)
(* the deal.                                                               *)
LEMMA DealByJobMove ==
    ASSUME ChatInv, NEW p \in ChatRequests, DealByJob(p)
    PROVE  ChatKeeps /\ ChatMove(p)
<1> DEFINE o == cloc[p].owner
           copy == [cloc[p].chat EXCEPT !.kind = "deal"]
           l == [cloc[p] EXCEPT !.chat = copy]
<1>1. cpc[p] = "dealByJob" /\ UNCHANGED <<closed, dealWith, chats, messages, lost>>
  BY DEF DealByJob
<1>2. /\ cloc[p] \in ChatLocal /\ o \in Owners /\ cloc[p].user \in Party(o)
      /\ cloc[p].msg = 0 /\ cloc[p].chat \in Chat
  BY <1>1, RequestFacts
<1>3. \/ dealWith = o /\ CGoto(p, "writeKind", l)
      \/ CReturn(p)
  BY DEF DealByJob, DealOf
<1>4. ChatKeeps
  BY <1>1, ReadingKeeps
<1>5. ASSUME CReturn(p)
      PROVE  ChatMove(p)
  BY <1>1, <1>2, <1>5, NothingNew, ReturnMove
<1>6. ASSUME dealWith = o, CGoto(p, "writeKind", l)
      PROVE  ChatMove(p)
  <2>1. copy \in Chat
    BY <1>2 DEF Chat
  <2> HIDE DEF copy
  <2>2. l \in ChatLocal /\ l.user = cloc[p].user /\ l.owner = o /\ l.msg = 0
    BY <1>2, <2>1 DEF ChatLocal
  <2> HIDE DEF l
  <2>3. Fits("writeKind", l)
    BY <1>1, <1>2, <1>6, <2>2 DEF Fits, ChatLabels
  <2>4. Holds(p, l)
    BY <1>1, <1>2, <2>2, NothingNew DEF Holds
  <2> QED BY <1>6, <2>3, <2>4 DEF ChatMove
<1> QED BY <1>3, <1>4, <1>5, <1>6

(* A chat written back is of the deal only if it is the executor's.        *)
LEMMA UpdateChatKeeps ==
    ASSUME ChatInv, NEW p \in ChatRequests, cpc[p] # "idle",
           UpdateChat(cloc[p].owner, cloc[p].chat),
           UNCHANGED <<closed, dealWith, messages, lost>>
    PROVE  ChatKeeps
<1>1. cloc[p].owner \in Owners /\ cloc[p].chat \in Chat
  BY RequestFacts
<1>2. cloc[p].chat.kind = "deal" => dealWith = cloc[p].owner
  BY DEF ChatInv, GoodCopy
<1> QED BY <1>1, <1>2 DEF UpdateChat, ChatInv, ChatTypeOK, ChatKeeps, Stored

(* WriteKind writes the copy back and ends.                                *)
LEMMA WriteKindMove ==
    ASSUME ChatInv, NEW p \in ChatRequests, WriteKind(p)
    PROVE  ChatKeeps /\ ChatMove(p)
<1>1. ChatKeeps
  BY UpdateChatKeeps DEF WriteKind
<1>2. cloc[p].msg = 0
  BY RequestFacts DEF WriteKind
<1> QED BY <1>1, <1>2, ReturnMove, NothingNew DEF WriteKind

(* CreateMessage stores an open contact only from a copy of the deal.      *)
LEMMA CreateMessageMove ==
    ASSUME ChatInv, NEW p \in ChatRequests, CreateMessage(p)
    PROVE  ChatKeeps /\ ChatMove(p)
<1> DEFINE o == cloc[p].owner
           u == cloc[p].user
           contact == MaskContacts(cloc[p].chat.kind, cloc[p].text)
           row == [owner |-> o, from |-> u, contact |-> contact, read |-> FALSE]
<1>1. cpc[p] = "createMessage" /\ UNCHANGED <<closed, dealWith, chats, lost>>
  BY DEF CreateMessage
<1>2. PICK m \in Messages :
         /\ ~Stored(m) /\ messages' = [messages EXCEPT ![m] = row]
         /\ CGoto(p, "touchChat", [cloc[p] EXCEPT !.msg = m, !.chat.last = m, !.text = "none"])
  BY DEF CreateMessage
<1> DEFINE copy == [cloc[p].chat EXCEPT !.last = m]
           l == [cloc[p] EXCEPT !.msg = m, !.chat = copy, !.text = "none"]
<1>3. /\ cloc[p] \in ChatLocal /\ o \in Owners /\ u \in Party(o)
      /\ cloc[p].msg = 0 /\ cloc[p].chat \in Chat
  BY <1>1, RequestFacts
<1>4. /\ cloc[p].chat.kind = "deal" => o = dealWith
      /\ cloc[p].chat.kind # "none"
  BY <1>1 DEF ChatInv, GoodCopy
<1>5. m \in 0..MaxMessages /\ m # 0
  BY ChatBound DEF Messages
<1>6. contact \in {"none", "masked", "open"} /\ (contact = "open" => o = dealWith)
  BY <1>3, <1>4 DEF MaskContacts, Chat
<1>7. CGoto(p, "touchChat", l)
  BY <1>2
<1>8. copy \in Chat /\ copy.kind = cloc[p].chat.kind
  BY <1>3, <1>5 DEF Chat
<1> HIDE DEF copy
<1>9. l \in ChatLocal /\ l.user = u /\ l.owner = o /\ l.msg = m /\ l.chat = copy
  BY <1>3, <1>5, <1>8 DEF ChatLocal
<1> HIDE DEF l, contact
<1>10. row \in Message /\ row.owner = o /\ row.from = u /\ row.contact = contact
  BY <1>3, <1>6 DEF Message, Party, Users
<1> HIDE DEF row
<1>11. /\ messages' \in [Messages -> Message] /\ messages'[m] = row
       /\ \A k \in Messages : k # m => messages'[k] = messages[k]
  BY <1>2, <1>10 DEF ChatInv, ChatTypeOK
<1>12. Fits("touchChat", l)
  BY <1>1, <1>3, <1>4, <1>5, <1>8, <1>9, <1>10, <1>11 DEF Fits, ChatLabels
<1>13. Holds(p, l)
  BY <1>2, <1>3, <1>5, <1>9, <1>11 DEF Holds, Stored
<1>14. /\ closed' \in BOOLEAN /\ dealWith' \in Owners \cup {NoOwner} /\ dealWith' = dealWith
       /\ chats' \in [Owners -> Chat]
       /\ \A x \in Owners : chats'[x].kind = "deal" => dealWith' = x
       /\ lost \subseteq lost' /\ lost' \subseteq Messages
  BY <1>1 DEF ChatInv, ChatTypeOK
<1>15. ASSUME NEW k \in Messages
       PROVE  /\ Stored(k) => /\ messages'[k].owner = messages[k].owner
                              /\ messages'[k].from = messages[k].from
              /\ messages'[k].contact = "open" => /\ messages'[k].owner # NoOwner
                                                  /\ messages'[k].owner = dealWith'
              /\ messages'[k].owner # NoOwner
                   => messages'[k].from \in Party(messages'[k].owner)
  <2>1. CASE k = m
    BY <1>2, <1>3, <1>6, <1>10, <1>11, <1>14, <2>1, ChatPeople
  <2>2. CASE k # m
    BY <1>11, <1>14, <2>2 DEF ChatInv, Stored
  <2> QED BY <2>1, <2>2
<1>16. ChatKeeps
  BY <1>11, <1>14, <1>15 DEF ChatKeeps
<1> QED BY <1>7, <1>12, <1>13, <1>16 DEF ChatMove

(* TouchChat writes the copy back and keeps the message.                   *)
LEMMA TouchChatMove ==
    ASSUME ChatInv, NEW p \in ChatRequests, TouchChat(p)
    PROVE  ChatKeeps /\ ChatMove(p)
<1> DEFINE l == [cloc[p] EXCEPT !.chat = NoChat]
<1>1. /\ cpc[p] = "touchChat" /\ UNCHANGED <<closed, dealWith, messages, lost>>
      /\ UpdateChat(cloc[p].owner, cloc[p].chat) /\ CGoto(p, "announce", l)
  BY DEF TouchChat
<1>2. /\ cloc[p] \in ChatLocal /\ cloc[p].owner \in Owners
      /\ cloc[p].user \in Party(cloc[p].owner)
  BY <1>1, RequestFacts
<1>3. GoodCopy(cpc[p], cloc[p])
  BY DEF ChatInv
<1>4. /\ l \in ChatLocal /\ l.user = cloc[p].user /\ l.owner = cloc[p].owner
      /\ l.msg = cloc[p].msg /\ l.chat.kind = "none"
  BY <1>2, BlankLocal DEF ChatLocal
<1> HIDE DEF l
<1>5. Fits("announce", l)
  BY <1>1, <1>2, <1>3, <1>4 DEF Fits, GoodCopy, ChatLabels
<1>6. Holds(p, l)
  BY <1>1, <1>4, NothingNew DEF Holds
<1>7. ChatKeeps
  BY <1>1, UpdateChatKeeps
<1> QED BY <1>1, <1>5, <1>6, <1>7 DEF ChatMove

(* MarkRead changes only what has been read.                               *)
LEMMA MarkReadMove ==
    ASSUME ChatInv, NEW p \in ChatRequests, MarkRead(p)
    PROVE  ChatKeeps /\ ChatMove(p)
<1>1. cpc[p] = "markRead" /\ CReturn(p) /\ UNCHANGED <<closed, dealWith, chats, lost>>
  BY DEF MarkRead
<1>2. cloc[p].msg = 0
  BY <1>1, RequestFacts
<1>3. messages \in [Messages -> Message]
  BY DEF ChatInv, ChatTypeOK
<1>4. ASSUME NEW r \in Message
      PROVE  LET d == [r EXCEPT !.read = TRUE] IN
             /\ d \in Message /\ d.owner = r.owner /\ d.from = r.from
             /\ d.contact = r.contact
  BY DEF Message
<1>5. \A m \in Messages : /\ messages'[m] \in Message
                          /\ messages'[m].owner = messages[m].owner
                          /\ messages'[m].from = messages[m].from
                          /\ messages'[m].contact = messages[m].contact
  BY <1>3, <1>4 DEF MarkRead
<1>6. messages' \in [Messages -> Message]
  <2>1. messages' = [m \in Messages |-> messages'[m]]
    BY DEF MarkRead
  <2> QED BY <1>5, <2>1
<1>7. ChatKeeps
  BY <1>1, <1>5, <1>6 DEF ChatInv, ChatTypeOK, ChatKeeps, Stored
<1>8. \A m \in Messages : messages'[m].owner # NoOwner => Stored(m)
  BY <1>5 DEF Stored
<1> QED BY <1>1, <1>2, <1>7, <1>8, ReturnMove

(* A request that fails leaves its message on the list of the lost ones.   *)
LEMMA ChatFailsMove ==
    ASSUME ChatInv, NEW p \in ChatRequests, ChatFails(p)
    PROVE  ChatKeeps /\ ChatMove(p)
<1>1. /\ lost' = lost \cup ({cloc[p].msg} \ {0}) /\ CReturn(p)
      /\ UNCHANGED <<closed, dealWith, chats, messages>>
  BY DEF ChatFails
<1>2. cloc[p].msg \in 0..MaxMessages
  BY RequestFacts
<1>3. lost \subseteq lost' /\ lost' \subseteq Messages
      /\ (cloc[p].msg = 0 \/ cloc[p].msg \in lost')
  <2>1. lost \subseteq Messages
    BY DEF ChatInv, ChatTypeOK
  <2>2. cloc[p].msg = 0 \/ cloc[p].msg \in Messages
    BY <1>2, ChatBound DEF Messages
  <2> QED BY <1>1, <2>1, <2>2
<1>4. ChatKeeps
  BY <1>1, <1>3 DEF ChatInv, ChatTypeOK, ChatKeeps, Stored
<1> QED BY <1>1, <1>3, <1>4, NothingNew, ReturnMove

(* What happens to the job and its deal meanwhile.                         *)
LEMMA JobKeeps ==
    ASSUME ChatInv, ChatKeeps, UNCHANGED <<messages, cpc, cloc>>
    PROVE  ChatInv' /\ HandsOn
<1>1. /\ ChatTypeOK /\ OwnMessages
      /\ \A q \in ChatRequests : GoodCopy(cpc[q], cloc[q])
  BY DEF ChatInv
<1>2. ChatTypeOK' /\ OwnMessages'
  BY <1>1 DEF ChatTypeOK, OwnMessages, ChatKeeps
<1>3. ASSUME NEW q \in ChatRequests
      PROVE  GoodCopy(cpc[q], cloc[q])'
  <2>1. GoodCopy(cpc[q], cloc[q])
    BY <1>1
  <2>2. cloc[q].chat.kind = "deal" => cloc[q].owner = dealWith'
    BY <2>1, ChatPeople DEF GoodCopy, ChatKeeps
  <2> QED BY <2>1, <2>2 DEF GoodCopy
<1>4. HandsOn
  BY DEF HandsOn, Held, Stored
<1> QED BY <1>2, <1>3, <1>4 DEF ChatInv, ChatKeeps, Stored, Party

(* ConfirmDeal and the end of the job keep every row of the chats.         *)
LEMMA JobMove ==
    ASSUME ChatInv, (\E o \in Owners : DealMade(o)) \/ JobCloses
    PROVE  ChatKeeps /\ UNCHANGED <<messages, cpc, cloc>>
<1>1. CASE \E o \in Owners : DealMade(o)
  <2>1. PICK o \in Owners : DealMade(o)
    BY <1>1
  <2>2. /\ dealWith = NoOwner /\ dealWith' = o
        /\ UNCHANGED <<closed, chats, messages, cpc, cloc, lost>>
    BY <2>1 DEF DealMade
  <2>3. \A x \in Owners : chats[x].kind # "deal"
    BY <2>2, ChatPeople DEF ChatInv
  <2>4. \A m \in Messages : messages[m].contact # "open"
    BY <2>2 DEF ChatInv, Stored
  <2> QED BY <2>2, <2>3, <2>4 DEF ChatInv, ChatTypeOK, ChatKeeps, Stored
<1>2. CASE JobCloses
  BY <1>2 DEF JobCloses, ChatInv, ChatTypeOK, ChatKeeps, Stored
<1> QED BY <1>1, <1>2

(* Every step of the chats keeps their invariant, and no message is lost   *)
(* sight of.                                                               *)
LEMMA ChatStepsKeep ==
    ASSUME ChatInv, ChatAct \/ ChatStep
    PROVE  ChatInv' /\ ChatKeeps /\ HandsOn
<1>1. CASE \E p \in ChatRequests : ChatBegin(p)
  <2>1. PICK p \in ChatRequests : ChatBegin(p)
    BY <1>1
  <2>2. ChatKeeps /\ ChatMove(p)
    BY <2>1, BeginMove, SendMessageMove DEF ChatBegin
  <2> QED BY <2>2, MoveKeeps
<1>2. CASE (\E o \in Owners : DealMade(o)) \/ JobCloses
  BY <1>2, JobMove, JobKeeps
<1>3. CASE ChatStep
  <2>1. PICK p \in ChatRequests : ChatContinue(p) \/ ChatFails(p)
    BY <1>3 DEF ChatStep
  <2>2. ChatKeeps /\ ChatMove(p)
    BY <2>1, FindChatMove, CreateChatMove, DealByJobMove, WriteKindMove, CreateMessageMove,
       TouchChatMove, MarkReadMove, ChatFailsMove DEF ChatContinue
  <2> QED BY <2>2, MoveKeeps
<1> QED BY <1>1, <1>2, <1>3 DEF ChatAct

-----------------------------------------------------------------------------
(* Both services together.                                                 *)

(* Target names the one of the two parties who has not written.            *)
LEMMA TargetIsOther ==
    ASSUME NEW o \in Owners, NEW u \in Party(o)
    PROVE  (CHOOSE x \in Party(o) : x # u) = Target(u, o) /\ Target(u, o) \in Users
<1>1. Client # o
  BY ChatPeople
<1>2. Target(u, o) \in Party(o) /\ Target(u, o) # u
      /\ \A x \in Party(o) : x # u => x = Target(u, o)
  BY <1>1 DEF Party, Target
<1> QED BY <1>2 DEF Party, Users

(* A message that is there has been written by one of the two.             *)
LEMMA StoredParty ==
    ASSUME ChatInv, NEW m \in Messages, Stored(m)
    PROVE  messages[m].owner \in Owners /\ messages[m].from \in Party(messages[m].owner)
<1>1. messages[m] \in Message
  BY DEF ChatInv, ChatTypeOK
<1>2. messages[m].from \in Party(messages[m].owner)
  BY DEF ChatInv
<1> QED BY <1>1, <1>2 DEF Message, Stored

(* There is a note for every message.                                      *)
LEMMA NoteOfMessage == Messages \subseteq Notes
BY OneCrowd, NotifyTimes, ChatBound DEF Messages, Notes

(* Steps of the chats keep account of every message.                       *)
LEMMA ChatsAccount ==
    ASSUME ChatInv, ChatKeeps, HandsOn, notes' = notes, NEW m \in Messages, Accounted(m)
    PROVE  Accounted(m)'
<1>1. Stored(m) => Stored(m)' /\ OtherSide(m)' = OtherSide(m)
  BY DEF ChatKeeps, Stored, OtherSide
<1>2. m \in lost => m \in lost'
  BY DEF ChatKeeps
<1>3. /\ Held(m) => Held(m)' \/ m \in lost'
      /\ Stored(m)' => Stored(m) \/ Held(m)'
      /\ Held(m)' => Held(m) \/ ~Stored(m)
  BY DEF HandsOn, Stored
<1> QED BY <1>1, <1>2, <1>3 DEF Accounted

(* So do steps of the notifications service.                               *)
LEMMA CallsAccount ==
    ASSUME CallsStay, UNCHANGED chatVars, NEW m \in Messages, Accounted(m)
    PROVE  Accounted(m)'
<1>1. m \in Notes
  BY NoteOfMessage
<1>2. UNCHANGED <<messages, cloc, lost>>
  BY DEF chatVars
<1> QED BY <1>1, <1>2 DEF CallsStay, Accounted, Held, Stored, OtherSide

(* The announcement hands the message from the request to the call.        *)
LEMMA NoticeKeeps ==
    ASSUME MessagingInv, NEW p \in ChatRequests, SendNotice(p)
    PROVE  ChatInv' /\ NoteInv' /\ \A m \in Messages : Accounted(m)'
<1> DEFINE u == Target(cloc[p].user, cloc[p].owner)
<1>0. PICK m : m = cloc[p].msg
  OBVIOUS
<1>1. ChatInv /\ NoteInv /\ \A k \in Messages : Accounted(k)
  BY DEF MessagingInv
<1>2. /\ cpc[p] = "announce" /\ CGoto(p, "idle", NoChatLocal)
      /\ UNCHANGED <<closed, dealWith, chats, messages, lost>>
      /\ Arrive(m, u, "message")
  BY <1>0 DEF SendNotice, Announced, CReturn, kindOf
<1>3. /\ cloc[p].msg \in 0..MaxMessages /\ cloc[p].owner \in Owners
      /\ cloc[p].user \in Party(cloc[p].owner)
  BY <1>1, <1>2, RequestFacts
<1>4. m # 0 /\ messages[m].owner = cloc[p].owner /\ messages[m].from = cloc[p].user
  BY <1>0, <1>1, <1>2 DEF ChatInv, GoodCopy
<1>5. m \in Messages /\ m \in Notes
  BY <1>0, <1>3, <1>4, NoteOfMessage, ChatBound DEF Messages
<1>6. u \in People /\ OtherSide(m) = u
  BY <1>3, <1>4, TargetIsOther, OneCrowd DEF OtherSide
<1>7. /\ NoteInv'
      /\ notes'[m].at # "none" /\ notes'[m].user = u
      /\ \A k \in Notes : k # m => notes'[k] = notes[k]
  <2> "message" \in Kinds
    BY DEF Kinds
  <2> HIDE DEF u
  <2> QED BY <1>1, <1>2, <1>5, <1>6, ArriveStep
<1>8. ChatInv'
  <2>1. ChatKeeps
    BY <1>1, <1>2, ReadingKeeps
  <2>2. Fits("idle", NoChatLocal)
    BY BlankLocal DEF Fits, ChatLabels
  <2> QED BY <1>1, <1>2, <2>1, <2>2, BlankLocal, LandingKeeps
<1>9. /\ cloc'[p].msg = 0
      /\ \A q \in ChatRequests : q # p => cloc'[q] = cloc[q]
  BY <1>1, <1>2, BlankLocal DEF CGoto, ChatInv, ChatTypeOK
<1>10. Accounted(m)'
  <2>1. Stored(m)' /\ OtherSide(m)' = u
    BY <1>2, <1>3, <1>4, <1>6, ChatPeople DEF Stored, OtherSide
  <2>2. \A q \in ChatRequests : cloc'[q].msg # m
    BY <1>0, <1>1, <1>4, <1>9 DEF ChatInv, OwnMessages
  <2> QED BY <1>7, <2>1, <2>2 DEF Accounted, Held
<1>11. ASSUME NEW k \in Messages, k # m
       PROVE  Accounted(k)'
  <2>1. notes'[k] = notes[k] /\ messages' = messages /\ lost' = lost
    BY <1>2, <1>7, <1>11, NoteOfMessage
  <2>2. Held(k)' <=> Held(k)
    BY <1>0, <1>9, <1>11 DEF Held, Messages
  <2>3. Accounted(k)
    BY <1>1
  <2> QED BY <2>1, <2>2, <2>3 DEF Accounted, Stored, OtherSide
<1> QED BY <1>7, <1>8, <1>10, <1>11

(* Other events have notes of their own.                                   *)
LEMMA OtherEventKeeps ==
    ASSUME MessagingInv, NEW n \in Notes, NEW u \in People, NEW kind \in EventKinds,
           OtherEvent(n, u, kind)
    PROVE  ChatInv' /\ NoteInv' /\ \A m \in Messages : Accounted(m)'
<1>1. ChatInv /\ NoteInv /\ \A k \in Messages : Accounted(k)
  BY DEF MessagingInv
<1>2. n \notin Messages /\ Arrive(n, u, kind) /\ kind \in Kinds
  BY OneCrowd DEF OtherEvent
<1>3. UNCHANGED <<closed, dealWith, chats, messages, cpc, cloc, lost>>
  BY DEF OtherEvent, chatVars
<1>4. NoteInv' /\ \A k \in Notes : k # n => notes'[k] = notes[k]
  BY <1>1, <1>2, ArriveStep
<1>5. ChatInv'
  BY <1>1, <1>3, ReadingKeeps, JobKeeps
<1>6. ASSUME NEW m \in Messages
      PROVE  Accounted(m)'
  <2>1. notes'[m] = notes[m]
    BY <1>2, <1>4, NoteOfMessage
  <2> QED BY <1>1, <1>3, <2>1 DEF Accounted, Held, Stored, OtherSide
<1> QED BY <1>4, <1>5, <1>6

(* Nothing has happened yet.                                               *)
LEMMA InitInv == Init => MessagingInv
<1> SUFFICES ASSUME Init PROVE MessagingInv
  OBVIOUS
<1>1. acts \in 0..MaxActs
  BY OneCrowd DEF Init
<1>2. NoNote \in Note /\ NoNote.at = "none" /\ NoNote.foreign = {} /\ ~NoNote.muted
  BY DEF NoNote, Note, NoteLabels, Kinds
<1>3. DefaultPrefs \in Prefs
  BY NotifyTimes DEF DefaultPrefs, Prefs, Groups, Hours
<1>4. NotifyTypeOK /\ devices = holder /\ \A n \in Notes : notes[n] = NoNote
  BY <1>2, <1>3 DEF Init, NotifyInit, NotifyTypeOK
<1>5. NoteInv
  BY <1>2, <1>4 DEF Init, NotifyInit, NoteInv, GoodNote, PushIsOnFile
<1>6. NoMessage \in Message /\ NoMessage.owner = NoOwner /\ NoMessage.contact = "none"
  BY DEF NoMessage, Message
<1>7. /\ ChatTypeOK /\ \A m \in Messages : messages[m] = NoMessage
      /\ \A p \in ChatRequests : cpc[p] = "idle" /\ cloc[p] = NoChatLocal
      /\ \A o \in Owners : chats[o] = NoChat
  BY <1>6, BlankLocal DEF Init, ChatInit, ChatTypeOK, ChatLabels
<1>8. OwnMessages /\ \A p \in ChatRequests : GoodCopy(cpc[p], cloc[p])
  BY <1>7, BlankLocal DEF OwnMessages, GoodCopy
<1>9. ChatInv
  BY <1>6, <1>7, <1>8, BlankLocal DEF ChatInv, Stored
<1>10. \A m \in Messages : Accounted(m)
  BY <1>2, <1>4, <1>6, <1>7, NoteOfMessage DEF Accounted, Stored
<1> QED BY <1>1, <1>5, <1>9, <1>10 DEF MessagingInv

(* Every step of either service keeps the invariant of both.               *)
LEMMA NextInv == MessagingInv /\ [Next]_vars => MessagingInv'
<1> SUFFICES ASSUME MessagingInv, [Next]_vars PROVE MessagingInv'
  OBVIOUS
<1>1. ChatInv /\ NoteInv /\ acts \in 0..MaxActs /\ \A m \in Messages : Accounted(m)
  BY DEF MessagingInv
<1>2. CASE UNCHANGED vars
  <2>1. UNCHANGED <<closed, dealWith, chats, messages, cpc, cloc, lost>>
        /\ UNCHANGED <<feed, prefs, devices, hour, notes, rung, holder>> /\ acts' = acts
    BY <1>2 DEF vars, chatVars, notifyVars
  <2>2. ChatInv'
    BY <1>1, <2>1, ReadingKeeps, JobKeeps
  <2>3. NoteInv'
    BY <1>1, <2>1 DEF NoteInv, NotifyTypeOK, PushIsOnFile, GoodNote
  <2>4. \A m \in Messages : Accounted(m)'
    BY <1>1, <2>1 DEF Accounted, Held, Stored, OtherSide
  <2> QED BY <1>1, <2>1, <2>2, <2>3, <2>4 DEF MessagingInv
<1>3. CASE Next
  <2>1. acts' \in 0..MaxActs
    BY <1>1, <1>3, OneCrowd DEF Next, Begins, GoesOn
  <2>2. ASSUME ChatAct \/ ChatStep, UNCHANGED notifyVars
        PROVE  MessagingInv'
    <3>1. ChatInv' /\ ChatKeeps /\ HandsOn
      BY <1>1, <2>2, ChatStepsKeep
    <3>2. UNCHANGED <<feed, prefs, devices, hour, notes, rung, holder>>
      BY <2>2 DEF notifyVars
    <3>3. NoteInv'
      BY <1>1, <3>2 DEF NoteInv, NotifyTypeOK, PushIsOnFile, GoodNote
    <3>4. \A m \in Messages : Accounted(m)'
      BY <1>1, <3>1, <3>2, ChatsAccount
    <3> QED BY <2>1, <3>1, <3>3, <3>4 DEF MessagingInv
  <2>3. ASSUME PeopleAct \/ NoteStep, UNCHANGED chatVars
        PROVE  MessagingInv'
    <3>1. NoteInv' /\ CallsStay
      BY <1>1, <2>3, PeopleKeep, NoteStepKeeps
    <3>2. UNCHANGED <<closed, dealWith, chats, messages, cpc, cloc, lost>>
      BY <2>3 DEF chatVars
    <3>3. ChatInv'
      BY <1>1, <3>2, ReadingKeeps, JobKeeps
    <3>4. \A m \in Messages : Accounted(m)'
      BY <1>1, <2>3, <3>1, CallsAccount
    <3> QED BY <2>1, <3>1, <3>3, <3>4 DEF MessagingInv
  <2>4. ASSUME NEW n \in Notes, NEW u \in People, NEW kind \in EventKinds,
               OtherEvent(n, u, kind)
        PROVE  MessagingInv'
    BY <2>1, <2>4, OtherEventKeeps DEF MessagingInv
  <2>5. ASSUME NEW p \in ChatRequests, SendNotice(p)
        PROVE  MessagingInv'
    BY <2>1, <2>5, NoticeKeeps DEF MessagingInv
  <2> QED BY <1>3, <2>2, <2>3, <2>4, <2>5 DEF Next, Begins, GoesOn
<1> QED BY <1>2, <1>3

-----------------------------------------------------------------------------
(***************************************************************************)
(* The invariant of both services: copies of a chat of the deal belong to  *)
(* its executor, every message stored by SendMessage is held by its        *)
(* request, announced or given up, and every call of Notify obeys the      *)
(* settings and the table of devices it has read.                          *)
(***************************************************************************)
THEOREM MessagingInductive == Spec => []MessagingInv
BY InitInv, NextInv, PTL DEF Spec

(***************************************************************************)
(* Rows, copies of SendMessage and calls of Notify keep their shape.       *)
(***************************************************************************)
THEOREM TypeCorrect == Spec => []TypeOK
<1>1. MessagingInv => TypeOK
  BY DEF MessagingInv, ChatInv, NoteInv, TypeOK
<1> QED BY <1>1, MessagingInductive, PTL

(***************************************************************************)
(* A contact is stored unmasked only in the chat with the executor of the  *)
(* deal: MaskContacts decides on a copy that may be stale, never on one    *)
(* that claims a deal too early or with somebody else.                     *)
(***************************************************************************)
THEOREM NoEarlyContact == Spec => []NoContactBeforeDeal
<1>1. MessagingInv => NoContactBeforeDeal
  BY DEF MessagingInv, ChatInv, NoContactBeforeDeal
<1> QED BY <1>1, MessagingInductive, PTL

(***************************************************************************)
(* allowPush never lets a push through that the settings have forbidden    *)
(* ever since the call came, whatever the quiet hours, the zone and the    *)
(* length of the day.                                                      *)
(***************************************************************************)
THEOREM NoPushAgainstWill == Spec => []RestIsRespected
<1>1. MessagingInv => RestIsRespected
  BY DEF MessagingInv, NoteInv, GoodNote, RestIsRespected
<1> QED BY <1>1, MessagingInductive, PTL

(***************************************************************************)
(* ListDevicesByUser never finds a telephone that somebody else, or        *)
(* nobody, has held ever since the call came.                              *)
(***************************************************************************)
THEOREM NoForeignTelephone == Spec => []RingsForItsUser
<1>1. MessagingInv => RingsForItsUser
  BY DEF MessagingInv, NoteInv, GoodNote, RingsForItsUser
<1> QED BY <1>1, MessagingInductive, PTL

(***************************************************************************)
(* What SendMessage has stored gets into the feed of the other party       *)
(* unless a failure stops it, and nobody is rung for what is not in it.    *)
(***************************************************************************)
THEOREM FeedKeepsTheRecord == Spec => []FeedIsTheRecord
<1>1. MessagingInv => FeedIsTheRecord
  <2> SUFFICES ASSUME MessagingInv PROVE FeedIsTheRecord
    OBVIOUS
  <2>1. PushIsOnFile
    BY DEF MessagingInv, NoteInv
  <2>2. ASSUME NEW m \in Messages, Stored(m), ~UnderWay(m), m \notin lost
        PROVE  notes[m].user = OtherSide(m) /\ (feed[m] # "absent" \/ notes[m].at = "done")
    <3>1. notes[m].at # "save" /\ ~Held(m)
      BY <2>2 DEF UnderWay, Held
    <3>2. Accounted(m) /\ m \in Notes
      BY NoteOfMessage DEF MessagingInv
    <3>3. notes[m].at # "none" /\ notes[m].user = OtherSide(m)
      BY <2>2, <3>1, <3>2 DEF Accounted
    <3>4. notes[m].at \in NoteLabels /\ GoodNote(m)
      BY <3>2 DEF MessagingInv, NoteInv, NotifyTypeOK, Note
    <3> QED BY <3>1, <3>3, <3>4 DEF NoteLabels, GoodNote
  <2>3. MessageReachesFeed
    BY <2>2 DEF MessageReachesFeed
  <2> QED BY <2>1, <2>3 DEF FeedIsTheRecord
<1> QED BY <1>1, MessagingInductive, PTL

=============================================================================
