------------------------------- MODULE Chats --------------------------------
(***************************************************************************)
(* The conversations about one job, between its customer and each of the   *)
(* executors, statement by statement.  Before a deal contacts are masked   *)
(* in what is stored; the chat with the executor of the deal changes its   *)
(* kind when it is next opened.  SendMessage writes back the chat it has   *)
(* read.  Of a text it matters whether there are contacts in it.           *)
(*                                                                         *)
(* SystemMessage is not called by anything and has no action.              *)
(***************************************************************************)
EXTENDS Naturals, FiniteSets

CONSTANTS
    Client,        \* the customer
    Owners,        \* executors
    NoOwner,       \* nobody
    ChatRequests,  \* requests to the orders service in flight together
    MaxMessages    \* bound on the messages written

ASSUME ChatPeople == Client \notin Owners /\ NoOwner \notin Owners \cup {Client}
ASSUME ChatBound == MaxMessages \in Nat

Messages == 1..MaxMessages
Party(o) == {Client, o}
Users == Owners \cup {Client}

Chat == [kind : {"none", "pre_deal", "deal"}, last : 0..MaxMessages]
NoChat == [kind |-> "none", last |-> 0]
Message == [owner : Owners \cup {NoOwner}, from : Users \cup {NoOwner},
            contact : {"none", "masked", "open"}, read : BOOLEAN]
NoMessage == [owner |-> NoOwner, from |-> NoOwner, contact |-> "none", read |-> FALSE]

VARIABLES
    closed,    \* the job has a status in which nobody may chat
    dealWith,  \* the executor of the job's deal
    chats,     \* row of the chat with each executor
    messages,  \* the messages in the order in which they are stored
    cpc, cloc, \* next statement of each request and what it carries
    lost       \* history: messages whose announcement was prevented by a failure

chatVars == <<closed, dealWith, chats, messages, cpc, cloc, lost>>

NoChatLocal == [user |-> NoOwner, owner |-> NoOwner, chat |-> NoChat, text |-> "none",
                msg |-> 0]
ChatLabels == {"idle", "findChat", "createChat", "dealByJob", "writeKind",
               "createMessage", "touchChat", "announce", "markRead"}

ChatLocal == [user : Users \cup {NoOwner}, owner : Owners \cup {NoOwner}, chat : Chat,
              text : {"none", "contact"}, msg : 0..MaxMessages]

ChatTypeOK ==
    /\ closed \in BOOLEAN /\ dealWith \in Owners \cup {NoOwner}
    /\ chats \in [Owners -> Chat]
    /\ messages \in [Messages -> Message]
    /\ cpc \in [ChatRequests -> ChatLabels]
    /\ cloc \in [ChatRequests -> ChatLocal]
    /\ lost \subseteq Messages

ChatInit ==
    /\ closed = FALSE /\ dealWith = NoOwner
    /\ chats = [o \in Owners |-> NoChat]
    /\ messages = [m \in Messages |-> NoMessage]
    /\ cpc = [p \in ChatRequests |-> "idle"]
    /\ cloc = [p \in ChatRequests |-> NoChatLocal]
    /\ lost = {}

-----------------------------------------------------------------------------
CGoto(p, label, l) == cpc' = [cpc EXCEPT ![p] = label] /\ cloc' = [cloc EXCEPT ![p] = l]
CReturn(p) == CGoto(p, "idle", NoChatLocal)

Stored(m) == messages[m].owner # NoOwner

(* kind and last_message_at of the copy, by id.                            *)
UpdateChat(o, copy) == chats' = [chats EXCEPT ![o] = copy]

-----------------------------------------------------------------------------
(* OpenChat by the customer, who names an executor, or by an executor.     *)

CanChat == ~closed

OpenChat(p, u, o) ==
    /\ cpc[p] = "idle" /\ u \in Party(o)
    /\ CanChat
    /\ CGoto(p, "findChat", [NoChatLocal EXCEPT !.user = u, !.owner = o])
    /\ UNCHANGED <<closed, dealWith, chats, messages, lost>>

(* withKind, as far as the copy decides.                                   *)
WithKind(p, copy) ==
    IF copy.kind = "deal" THEN CReturn(p)
    ELSE CGoto(p, "dealByJob", [cloc[p] EXCEPT !.chat = copy])

ChatByJobOwner(p) ==
    /\ cpc[p] = "findChat"
    /\ LET c == chats[cloc[p].owner] IN
       IF c.kind = "none" THEN CGoto(p, "createChat", cloc[p]) ELSE WithKind(p, c)
    /\ UNCHANGED <<closed, dealWith, chats, messages, lost>>

(* One chat per job and executor: after a conflict the chat is read again. *)
CreateChat(p) ==
    /\ cpc[p] = "createChat"
    /\ LET o == cloc[p].owner
           new == [kind |-> "pre_deal", last |-> 0]
       IN IF chats[o].kind # "none"
          THEN CGoto(p, "findChat", cloc[p]) /\ UNCHANGED chats
          ELSE /\ chats' = [chats EXCEPT ![o] = new]
               /\ CGoto(p, "dealByJob", [cloc[p] EXCEPT !.chat = new])
    /\ UNCHANGED <<closed, dealWith, messages, lost>>

(* Mutant: any deal of the job opens the chat.                             *)
DealOf_Any(o) == dealWith # NoOwner

(* The deal of the job is with the executor of this chat.                  *)
DealOf(o) == dealWith = o

DealByJob(p) ==
    /\ cpc[p] = "dealByJob"
    /\ IF DealOf(cloc[p].owner)
       THEN CGoto(p, "writeKind", [cloc[p] EXCEPT !.chat.kind = "deal"])
       ELSE CReturn(p)
    /\ UNCHANGED <<closed, dealWith, chats, messages, lost>>

WriteKind(p) ==
    /\ cpc[p] = "writeKind"
    /\ UpdateChat(cloc[p].owner, cloc[p].chat)
    /\ CReturn(p)
    /\ UNCHANGED <<closed, dealWith, messages, lost>>

-----------------------------------------------------------------------------
(* SendMessage to a chat one belongs to; the job is not looked at.         *)

chatOfMine(u, o) == chats[o].kind # "none" /\ u \in Party(o)

SendMessage(p, u, o, text) ==
    /\ cpc[p] = "idle" /\ chatOfMine(u, o)
    /\ CGoto(p, "createMessage", [NoChatLocal EXCEPT !.user = u, !.owner = o,
                                                     !.chat = chats[o], !.text = text])
    /\ UNCHANGED <<closed, dealWith, chats, messages, lost>>

(* MaskContacts on the kind of the copy.                                   *)
MaskContacts(kind, text) ==
    CASE text = "none" -> "none"
      [] kind = "pre_deal" -> "masked"
      [] OTHER -> "open"

CreateMessage(p) ==
    /\ cpc[p] = "createMessage"
    /\ \E m \in Messages :
         /\ ~Stored(m) /\ \A k \in 1..(m - 1) : Stored(k)
         /\ messages' = [messages EXCEPT ![m] =
              [owner |-> cloc[p].owner, from |-> cloc[p].user,
               contact |-> MaskContacts(cloc[p].chat.kind, cloc[p].text), read |-> FALSE]]
         /\ CGoto(p, "touchChat", [cloc[p] EXCEPT !.msg = m, !.chat.last = m, !.text = "none"])
    /\ UNCHANGED <<closed, dealWith, chats, lost>>

TouchChat(p) ==
    /\ cpc[p] = "touchChat"
    /\ UpdateChat(cloc[p].owner, cloc[p].chat)
    /\ CGoto(p, "announce", [cloc[p] EXCEPT !.chat = NoChat])
    /\ UNCHANGED <<closed, dealWith, messages, lost>>

(* Mutant: the executor is told, whoever has written.                      *)
Target_Owner(u, o) == o

Target(u, o) == IF u = o THEN Client ELSE o

(* The request ends once notify.Send was called.                           *)
Announced(p) == cpc[p] = "announce" /\ CReturn(p)
                /\ UNCHANGED <<closed, dealWith, chats, messages, lost>>

-----------------------------------------------------------------------------
(* Messages: the list is read, then everything of the other side is marked *)
(* as read, what came in between included.                                 *)
ReadMessages(p, u, o) ==
    /\ cpc[p] = "idle" /\ chatOfMine(u, o)
    /\ CGoto(p, "markRead", [NoChatLocal EXCEPT !.user = u, !.owner = o])
    /\ UNCHANGED <<closed, dealWith, chats, messages, lost>>

MarkRead(p) ==
    /\ cpc[p] = "markRead"
    /\ messages' = [m \in Messages |->
         IF messages[m].owner = cloc[p].owner /\ messages[m].from # cloc[p].user
         THEN [messages[m] EXCEPT !.read = TRUE] ELSE messages[m]]
    /\ CReturn(p)
    /\ UNCHANGED <<closed, dealWith, chats, lost>>

-----------------------------------------------------------------------------
(* The job and its deal meanwhile: ConfirmDeal, and Cancel or an expiry.   *)
DealMade(o) ==
    /\ dealWith = NoOwner /\ ~closed
    /\ dealWith' = o
    /\ UNCHANGED <<closed, chats, messages, cpc, cloc, lost>>

JobCloses ==
    /\ ~closed /\ closed' = TRUE
    /\ UNCHANGED <<dealWith, chats, messages, cpc, cloc, lost>>

(* A statement or the process fails, or the call of notify.Send does not   *)
(* get through: a message already stored stays and is not announced.       *)
ChatFails(p) ==
    /\ cpc[p] # "idle"
    /\ lost' = lost \cup ({cloc[p].msg} \ {0})
    /\ CReturn(p)
    /\ UNCHANGED <<closed, dealWith, chats, messages>>

ChatBegin(p) ==
    \E o \in Owners, u \in Users :
        \/ OpenChat(p, u, o)
        \/ \E text \in {"none", "contact"} : SendMessage(p, u, o, text)
        \/ ReadMessages(p, u, o)

ChatContinue(p) ==
    \/ ChatByJobOwner(p) \/ CreateChat(p) \/ DealByJob(p) \/ WriteKind(p)
    \/ CreateMessage(p) \/ TouchChat(p) \/ MarkRead(p)

ChatAct ==
    \/ \E p \in ChatRequests : ChatBegin(p)
    \/ \E o \in Owners : DealMade(o)
    \/ JobCloses

ChatStep == \E p \in ChatRequests : ChatContinue(p) \/ ChatFails(p)

-----------------------------------------------------------------------------
(***************************************************************************)
(* No contact before the deal: a message keeps its telephone number only   *)
(* in the chat with the executor the deal is with, however OpenChat,       *)
(* SendMessage and the deal overlap and whatever stale chats are written.  *)
(***************************************************************************)
NoContactBeforeDeal ==
    \A m \in Messages : messages[m].contact = "open" => messages[m].owner = dealWith

-----------------------------------------------------------------------------
(* The inductive invariant of the proofs.                                  *)

(* What a request with local l carries at a label: the copy of a chat of   *)
(* the deal is of the chat with its executor, and the number of a message  *)
(* is the one it has stored.                                               *)
GoodCopy(label, l) ==
    /\ label # "idle" => l.owner \in Owners /\ l.user \in Party(l.owner)
    /\ l.chat.kind = "deal" => l.owner \in Owners /\ l.owner = dealWith
    /\ label = "createMessage" => l.chat.kind # "none"
    /\ l.msg # 0 <=> label \in {"touchChat", "announce"}
    /\ l.msg # 0 => messages[l.msg].owner = l.owner /\ messages[l.msg].from = l.user

(* Two requests never hold the same message.                               *)
OwnMessages ==
    \A p, q \in ChatRequests : p # q /\ cloc[p].msg # 0 => cloc[p].msg # cloc[q].msg

ChatInv ==
    /\ ChatTypeOK
    /\ \A o \in Owners : chats[o].kind = "deal" => dealWith = o
    /\ \A m \in Messages :
         /\ messages[m].contact = "open" => Stored(m) /\ messages[m].owner = dealWith
         /\ Stored(m) => messages[m].from \in Party(messages[m].owner)
    /\ OwnMessages
    /\ \A p \in ChatRequests : GoodCopy(cpc[p], cloc[p])

=============================================================================
