-------------------------- MODULE SponsorScan_proofs --------------------------
(***************************************************************************)
(* Theorems about SponsorScan, for any chats, lists, cap and bounds.       *)
(***************************************************************************)
EXTENDS SponsorScan, TLAPS

\* What a line may carry, and what is sent.
Shown == [chat : Chats \cup {NoChat}, marked : BOOLEAN]
Mail == [client : {"this", "old"},
         type : {"ok", "chats", "chat", "user", "chatMember", "error", "newChat", "update",
                 "malformed"},
         body : {"none"} \cup Lists \cup Shown \cup Statuses, extra : OptExtras]
SentType == [extra : Extras, chat : Chats \cup {NoChat}]

Typed ==
  /\ TypeOK
  /\ extra_counter \in Nat \ {0} /\ sent \subseteq SentType
  /\ inbox \in Seq(Mail) /\ answers \subseteq Mail
  /\ receiving => step \notin {"start", "returned"}

\* The number in its extra tells a request from all others.
Numbered ==
  /\ \A r \in sent : r.extra.n < extra_counter
  /\ \A r, q \in sent : r.extra.n = q.extra.n => r = q

\* Every answer is about the request it answers.
Answered ==
  \A a \in answers : \E r \in sent :
    /\ a.extra = r.extra
    /\ a.type = "chat" => /\ a.body \in Shown /\ a.body.chat = r.chat
                          /\ a.body.marked => r.chat \in told
    /\ a.type = "chats" => a.body \in Lists

\* What waits for this client was answered, or TDLib showed it a chat by itself.
Waiting == {inbox[i] : i \in DOMAIN inbox}
Delivered ==
  \A l \in Waiting : client_matches(l) =>
    /\ l.type = "newChat" => l.body \in Shown /\ (l.body.marked => l.body.chat \in told)
    /\ l.type \notin {"newChat", "update", "malformed"} => l \in answers

\* What was found was shown, and membership is asked about it.
Asking ==
  /\ found # NoChat => found \in told \cap Channels
  /\ step \in {"getMe", "getChatMember"} => found # NoChat
  /\ step = "getChatMember" =>
       \E r \in sent : r.extra = wanted /\ r.chat = found /\ wanted.req = "getChatMember"

\* Each chat of the list was shown unmarked or is still asked for.
AskedFor(c) == \E r \in sent : r.extra \in pending /\ r.chat = c
Scanning ==
  step = "scan" /\ found = NoChat =>
    \E l \in answers :
      /\ l.type = "chats"
      /\ \A i \in DOMAIN l.body : i <= SPONSOR_SCAN_GET_CHAT_MAX =>
           Unmarked(l.body[i]) \/ AskedFor(l.body[i])

\* Nothing is reported before the flow returns.
NoReportYet == step # "returned" => sponsored = "none" /\ joined = "none"

\* What is reported has its reason.
Reported == NoIsComplete /\ YesIsGenuine /\ UnknownHasCause /\ JoinedIsAboutSponsor

ScanInv == Typed /\ Numbered /\ Answered /\ Delivered /\ Asking /\ Scanning
           /\ NoReportYet /\ Reported

-----------------------------------------------------------------------------
(* What the shared steps do.                                               *)

\* Everything the flow does takes lines off the inbox at most, and leaves TDLib alone.
LEMMA FlowFrame ==
  ASSUME Typed, Flow
  PROVE  /\ UNCHANGED <<late, tdVars>>
         /\ inbox' \in Seq(Mail) /\ Waiting' \subseteq Waiting
  <1>same. ASSUME UNCHANGED inbox PROVE inbox' \in Seq(Mail) /\ Waiting' \subseteq Waiting
    BY <1>same DEF Typed, Waiting
  <1>take. ASSUME inbox # <<>>, inbox' = Tail(inbox)
           PROVE  inbox' \in Seq(Mail) /\ Waiting' \subseteq Waiting
    BY <1>take DEF Typed, Waiting
  <1>1. CASE LoadChats \/ EnterReceive \/ KeepWaiting \/ StopAsking \/ WaitTimeout \/ ScanDone \/ AskWhoAmI
    BY <1>1, <1>same DEF LoadChats, EnterReceive, KeepWaiting, StopAsking, WaitTimeout, ScanDone, AskWhoAmI
  <1>2. CASE \/ SkipLine \/ Refused \/ OnLoaded \/ OnEmptyList \/ OnList \/ ScanRefused
             \/ ScanLine \/ OnMe \/ OnMember \/ StopOnLine
    BY <1>2, <1>take
       DEF SkipLine, Refused, OnLoaded, OnEmptyList, OnList, ScanRefused, ScanLine, OnMe,
           OnMember, StopOnLine, Receive
  <1> QED
    BY <1>1, <1>2 DEF Flow, Wait, Scan, Join

\* A line that is received was waiting.
LEMMA ReceiveWaiting ==
  ASSUME Typed, NEW s, Receive(s)
  PROVE  Line \in Waiting /\ Line \in Mail /\ step = s /\ receiving
  BY DEF Typed, Receive, Line, Waiting

\* A line TDLib delivers joins those that wait.
LEMMA DeliverWaiting ==
  ASSUME Typed, NEW l \in Mail, Deliver(l)
  PROVE  inbox' \in Seq(Mail) /\ Waiting' \subseteq Waiting \cup {l}
  BY DEF Typed, Deliver, Waiting

\* A request of the flow has a number of its own.
LEMMA AskForSent ==
  ASSUME Typed, Numbered, NEW req \in Requests, NEW c \in Chats \cup {NoChat}, AskFor(req, c)
  PROVE  /\ sent' = sent \cup {[extra |-> Extra(req, extra_counter), chat |-> c]}
         /\ sent' \subseteq SentType /\ wanted' \in Extras
         /\ extra_counter' \in Nat \ {0}
         /\ Numbered'
  <1>1. Extra(req, extra_counter) \in Extras
    BY DEF Extra, Extras, Typed
  <1>2. sent' \subseteq SentType
    BY <1>1 DEF AskFor, Typed, SentType
  <1>3. \A r \in sent : r.extra.n \in Nat
    BY DEF Typed, SentType, Extras
  <1>4. Numbered'
    BY <1>3 DEF AskFor, Numbered, Extra, Typed
  <1> QED
    BY <1>1, <1>2, <1>4 DEF AskFor, Typed

\* The requests OnList sends, one for each chat of the list up to the cap.
Asked == IF Len(Line.body) <= SPONSOR_SCAN_GET_CHAT_MAX
         THEN Len(Line.body) ELSE SPONSOR_SCAN_GET_CHAT_MAX
GetChat(i) == [extra |-> Extra("getChat", extra_counter + i - 1), chat |-> Line.body[i]]

LEMMA OnListSent ==
  ASSUME Typed, Numbered, OnList, Line.body \in Lists
  PROVE  /\ sent' = sent \cup {GetChat(i) : i \in 1..Asked}
         /\ sent' \subseteq SentType
         /\ pending' = {GetChat(i).extra : i \in 1..Asked} /\ pending' \subseteq Extras
         /\ extra_counter' \in Nat \ {0}
         /\ Numbered'
         /\ \A i \in DOMAIN Line.body : i <= SPONSOR_SCAN_GET_CHAT_MAX =>
              \E r \in sent' : r.extra \in pending' /\ r.chat = Line.body[i]
  <1> USE CapAssumption
  <1>1. Line.body \in Seq(Chats) /\ Len(Line.body) \in Nat /\ Line.body # <<>>
    BY ChatsAssumption DEF OnList
  <1>2. Asked \in Nat \ {0} /\ Asked <= Len(Line.body)
    BY <1>1 DEF Asked
  <1>3. /\ sent' = sent \cup {GetChat(i) : i \in 1..Asked}
        /\ pending' = {GetChat(i).extra : i \in 1..Asked}
        /\ extra_counter' = extra_counter + Asked
    BY DEF OnList, Asked, GetChat
  <1>4. \A i \in 1..Asked : GetChat(i) \in SentType /\ GetChat(i).extra.n = extra_counter + i - 1
    BY <1>1, <1>2 DEF GetChat, SentType, Extra, Extras, Requests, Typed
  <1>5. pending' \subseteq Extras /\ sent' \subseteq SentType
    BY <1>3, <1>4 DEF Typed, SentType
  <1>6. \A r \in sent : r.extra.n \in Nat /\ r.extra.n < extra_counter
    BY DEF Typed, SentType, Extras, Numbered
  <1>7. extra_counter \in Nat /\ extra_counter' \in Nat \ {0}
    BY <1>2, <1>3 DEF Typed
  <1>8. Numbered'
    <2>1. ASSUME NEW r \in sent' PROVE r.extra.n < extra_counter'
      BY <1>2, <1>3, <1>4, <1>6, <1>7
    <2>2. ASSUME NEW r \in sent', NEW q \in sent', r.extra.n = q.extra.n PROVE r = q
      <3>1. CASE r \in sent /\ q \in sent
        BY <2>2, <3>1 DEF Numbered
      <3>2. CASE r \in sent /\ q \notin sent
        BY <2>2, <3>2, <1>3, <1>4, <1>6, <1>7
      <3>3. CASE r \notin sent /\ q \in sent
        BY <2>2, <3>3, <1>3, <1>4, <1>6, <1>7
      <3>4. CASE r \notin sent /\ q \notin sent
        <4>1. PICK i \in 1..Asked : r = GetChat(i)
          BY <3>4, <1>3
        <4>2. PICK j \in 1..Asked : q = GetChat(j)
          BY <3>4, <1>3
        <4>3. i = j
          BY <4>1, <4>2, <2>2, <1>4, <1>7, <1>2
        <4> QED
          BY <4>1, <4>2, <4>3
      <3> QED
        BY <3>1, <3>2, <3>3, <3>4
    <2> QED
      BY <2>1, <2>2 DEF Numbered
  <1>9. ASSUME NEW i \in DOMAIN Line.body, i <= SPONSOR_SCAN_GET_CHAT_MAX
        PROVE  \E r \in sent' : r.extra \in pending' /\ r.chat = Line.body[i]
    <2>1. i \in 1..Asked
      BY <1>1, <1>9 DEF Asked
    <2>2. GetChat(i) \in sent' /\ GetChat(i).extra \in pending'
      BY <2>1, <1>3
    <2>3. GetChat(i).chat = Line.body[i]
      BY DEF GetChat
    <2> QED
      BY <2>2, <2>3
  <1> QED
    BY <1>3, <1>5, <1>7, <1>8, <1>9

-----------------------------------------------------------------------------
(* Types: what TDLib answers and shows.                                    *)

\* What TDLib answers is about the request.
LEMMA AnswerTyped ==
  ASSUME Typed, NEW r \in sent, NEW l \in AnswerTo(r)
  PROVE  /\ l \in Mail /\ l.client = "this" /\ l.extra = r.extra
         /\ l.type \notin {"newChat", "update", "malformed"}
         /\ l.type = "chat" => l.body = Show(r.chat)
         /\ l.type = "chats" => l.body \in Lists
  <1>1. r.extra \in OptExtras /\ r.chat \in Chats \cup {NoChat}
    BY DEF Typed, SentType, OptExtras
  <1>2. Show(r.chat) \in Shown
    BY <1>1 DEF Show, Shown
  <1>3. CASE l = JsonLine("this", "error", "none", r.extra)
    BY <1>1, <1>3 DEF JsonLine, Mail
  <1>4. CASE l = JsonLine("this", "ok", "none", r.extra) \/ l = JsonLine("this", "user", "none", r.extra)
    BY <1>1, <1>4 DEF JsonLine, Mail
  <1>5. CASE l \in {JsonLine("this", "chats", b, r.extra) : b \in Lists}
    BY <1>1, <1>5 DEF JsonLine, Mail
  <1>6. CASE l = JsonLine("this", "chat", Show(r.chat), r.extra)
    BY <1>1, <1>2, <1>6 DEF JsonLine, Mail
  <1>7. CASE l \in {JsonLine("this", "chatMember", s, r.extra) : s \in Statuses}
    BY <1>1, <1>7 DEF JsonLine, Mail
  <1> QED
    BY <1>3, <1>4, <1>5, <1>6, <1>7 DEF AnswerTo

\* An update that shows a chat.
LEMMA UpdateTyped ==
  ASSUME Typed, NEW c \in Chats
  PROVE  JsonLine("this", "newChat", Show(c), None) \in Mail /\ Show(c) \in Shown
  <1>1. Show(c) \in Shown
    BY DEF Show, Shown
  <1> QED
    BY <1>1 DEF JsonLine, Mail, OptExtras

\* Lines of no use are lines.
LEMMA NoiseTyped ==
  ASSUME NEW l \in {JsonLine("this", "update", "none", None),
               JsonLine("this", "malformed", "none", None)}
              \cup {JsonLine("old", "newChat", [chat |-> c, marked |-> TRUE], None) : c \in Chats}
  PROVE  l \in Mail /\ (client_matches(l) => l.type \in {"update", "malformed"})
  <1>1. CASE l \in {JsonLine("this", "update", "none", None), JsonLine("this", "malformed", "none", None)}
    BY <1>1 DEF JsonLine, Mail, OptExtras
  <1>2. CASE l \in {JsonLine("old", "newChat", [chat |-> c, marked |-> TRUE], None) : c \in Chats}
    <2>1. PICK c \in Chats : l = JsonLine("old", "newChat", [chat |-> c, marked |-> TRUE], None)
      BY <1>2
    <2>2. [chat |-> c, marked |-> TRUE] \in Shown
      BY DEF Shown
    <2> QED
      BY <2>1, <2>2 DEF JsonLine, Mail, OptExtras, client_matches
  <1> QED
    BY <1>1, <1>2

\* A line of this client that the flow takes for an answer is one.
LEMMA ReceiveAnswer ==
  ASSUME Typed, Delivered, NEW s, Receive(s), Own, Line.type \notin {"newChat", "update", "malformed"}
  PROVE  Line \in answers
  BY ReceiveWaiting DEF Delivered, Own

\* The list OnList works with is one TDLib answered.
LEMMA ReceiveList ==
  ASSUME Typed, Answered, Delivered, OnList
  PROVE  Line \in answers /\ Line.body \in Lists /\ Line.type = "chats"
  <1>1. Line \in answers /\ Line.type = "chats"
    BY ReceiveAnswer DEF OnList, Answers
  <1> QED
    BY <1>1 DEF Answered

\* TDLib does not touch the flow.
LEMMA TdlibFrame ==
  ASSUME Typed, Tdlib
  PROVE  /\ UNCHANGED <<flowVars, late, extra_counter, sent>>
         /\ inbox' \in Seq(Mail) /\ answers \subseteq answers' /\ answers' \subseteq Mail
         /\ told \subseteq told' /\ told' \subseteq Chats /\ marked' \subseteq Chats
  <1> USE DEF TdIdle
  <1>0. answers \subseteq Mail /\ marked \subseteq Chats /\ told \subseteq Chats /\ inbox \in Seq(Mail)
    BY DEF Typed, TypeOK
  <1>1. CASE TdAnswer
    <2>1. PICK r \in sent : \E l \in AnswerTo(r) :
             /\ Deliver(l) /\ answers' = answers \cup {l}
             /\ told' = IF l.type = "chat" /\ l.body.marked THEN told \cup {r.chat} ELSE told
      BY <1>1 DEF TdAnswer
    <2>2. PICK l \in AnswerTo(r) :
             /\ Deliver(l) /\ answers' = answers \cup {l}
             /\ told' = IF l.type = "chat" /\ l.body.marked THEN told \cup {r.chat} ELSE told
      BY <2>1
    <2>3. l \in Mail /\ (l.type = "chat" => l.body = Show(r.chat))
      BY AnswerTyped
    <2>4. inbox' \in Seq(Mail)
      BY <2>2, <2>3, DeliverWaiting
    <2>5. ASSUME l.type = "chat", l.body.marked PROVE r.chat \in Chats
      <3>1. Show(r.chat).marked
        BY <2>3, <2>5
      <3>2. Show(r.chat).marked = (r.chat \in marked)
        BY DEF Show
      <3> QED
        BY <3>1, <3>2, <1>0
    <2>6. told \subseteq told' /\ told' \subseteq Chats
      BY <2>2, <2>5, <1>0
    <2> QED
      BY <1>0, <1>1, <2>2, <2>3, <2>4, <2>6 DEF TdAnswer
  <1>2. CASE TdMark
    BY <1>0, <1>2 DEF TdMark
  <1>3. CASE TdUpdate
    <2>1. PICK c \in Chats : Deliver(JsonLine("this", "newChat", Show(c), None))
                             /\ told' = IF c \in marked THEN told \cup {c} ELSE told
      BY <1>3 DEF TdUpdate
    <2>2. inbox' \in Seq(Mail)
      BY <2>1, UpdateTyped, DeliverWaiting
    <2> QED
      BY <1>0, <1>3, <2>1, <2>2 DEF TdUpdate
  <1>4. CASE TdNoise
    <2>1. inbox' \in Seq(Mail)
      BY <1>4, NoiseTyped, DeliverWaiting DEF TdNoise
    <2> QED
      BY <1>0, <1>4, <2>1 DEF TdNoise
  <1> QED
    BY <1>1, <1>2, <1>3, <1>4 DEF Tdlib

\* The flow starts with its types.
LEMMA TypedInit == Init => Typed
  <1> SUFFICES ASSUME Init PROVE Typed
    OBVIOUS
  <1>1. marked \subseteq Chats
    BY DEF Init
  <1>2. inbox \in Seq(Mail) /\ answers \subseteq Mail /\ sent \subseteq SentType
    BY DEF Init
  <1>3. receiving \in BOOLEAN /\ receiving = FALSE
    BY DEF Init
  <1>4. /\ step \in Steps /\ wanted \in OptExtras /\ pending \subseteq Extras
        /\ found \in Channels \cup {NoChat}
        /\ sponsored \in {"none", "yes", "no", "unknown"} /\ joined \in {"none", "yes", "no"}
        /\ extra_counter \in Nat \ {0} /\ told \subseteq Chats /\ sent = {}
    BY DEF Init, Steps, OptExtras
  <1> QED
    BY <1>1, <1>2, <1>3, <1>4 DEF Typed, TypeOK

\* Every step keeps the types.
LEMMA TypedStep ==
  ASSUME Typed, Numbered, Answered, Delivered, [Next]_vars
  PROVE  Typed'
  <1> USE DEF Typed, TypeOK
  <1>0. \A r \in sent : r.extra \in Extras /\ r.chat \in Chats \cup {NoChat}
    OBVIOUS
  <1>sent. ASSUME sent' \subseteq SentType
           PROVE  \A r \in sent' : r.extra \in Extras /\ r.chat \in Chats \cup {NoChat}
    BY <1>sent DEF SentType
  <1>1. CASE Flow
    <2>0. UNCHANGED <<answers, marked, told>> /\ inbox' \in Seq(Mail)
      BY <1>1, FlowFrame DEF tdVars
    <2>1. CASE EnterReceive \/ KeepWaiting
      BY <2>0, <2>1 DEF EnterReceive, KeepWaiting
    <2>2. CASE LoadChats \/ AskWhoAmI \/ OnLoaded
      <3>1. PICK req \in {"loadChats", "getMe", "getChats"} : AskFor(req, NoChat)
        BY <2>2 DEF LoadChats, AskWhoAmI, OnLoaded
      <3>2. sent' \subseteq SentType /\ wanted' \in Extras /\ extra_counter' \in Nat \ {0}
        BY <3>1, AskForSent DEF Requests
      <3>3. step' \in Steps /\ receiving' = FALSE
        BY <3>1 DEF AskFor, Steps
      <3>4. UNCHANGED <<pending, found, sponsored, joined>>
        BY <2>2 DEF LoadChats, AskWhoAmI, OnLoaded
      <3> QED
        BY <2>0, <3>2, <3>3, <3>4, <1>sent DEF OptExtras
    <2>3. CASE OnMe
      <3>0. AskFor("getChatMember", found) /\ found \in Chats \cup {NoChat}
        BY <2>3, ChatsAssumption DEF OnMe
      <3>2. sent' \subseteq SentType /\ wanted' \in Extras /\ extra_counter' \in Nat \ {0}
        BY <3>0, AskForSent DEF Requests
      <3>3. step' \in Steps /\ receiving' = FALSE
        BY <3>0 DEF AskFor, Steps
      <3>4. UNCHANGED <<pending, found, sponsored, joined>>
        BY <2>3 DEF OnMe
      <3> QED
        BY <2>0, <3>2, <3>3, <3>4, <1>sent DEF OptExtras
    <2>4. CASE \/ StopAsking \/ WaitTimeout \/ ScanDone \/ Refused \/ OnEmptyList \/ ScanRefused
               \/ OnMember \/ StopOnLine
      <3>1. PICK s \in {"yes", "no", "unknown"}, j \in {"none", "yes", "no"} : Return(s, j)
        BY <2>4 DEF StopAsking, WaitTimeout, ScanDone, Refused, OnEmptyList, ScanRefused,
             OnMember, StopOnLine, chat_member_is_joined
      <3>2. UNCHANGED found
        BY <2>4 DEF StopAsking, WaitTimeout, ScanDone, Refused, OnEmptyList, ScanRefused,
             OnMember, StopOnLine
      <3> QED
        BY <2>0, <3>1, <3>2 DEF Return, Steps
    <2>5. CASE SkipLine
      BY <2>0, <2>5 DEF SkipLine
    <2>6. CASE OnList
      <3>1. /\ sent' \subseteq SentType /\ pending' \subseteq Extras /\ extra_counter' \in Nat \ {0}
        BY <2>6, ReceiveList, OnListSent
      <3> QED
        BY <2>0, <2>6, <3>1, <1>sent DEF OnList, Steps
    <2>7. CASE ScanLine
      <3>1. found' \in Channels \cup {NoChat} /\ pending' \subseteq Extras
        BY <2>7 DEF ScanLine, ShowsSponsor
      <3> QED
        BY <2>0, <2>7, <3>1 DEF ScanLine
    <2> QED
      BY <1>1, <2>1, <2>2, <2>3, <2>4, <2>5, <2>6, <2>7 DEF Flow, Wait, Scan, Join
  <1>2. CASE PassDeadline
    BY <1>2 DEF PassDeadline, flowVars, tdVars
  <1>3. CASE Tdlib
    <2>1. /\ UNCHANGED <<flowVars, late, extra_counter, sent>>
         /\ inbox' \in Seq(Mail) /\ answers' \subseteq Mail
         /\ told' \subseteq Chats /\ marked' \subseteq Chats
      BY <1>3, TdlibFrame
    <2> QED
      BY <2>1 DEF flowVars
  <1>4. CASE UNCHANGED vars
    BY <1>4 DEF vars, flowVars, tdVars
  <1> QED
    BY <1>1, <1>2, <1>3, <1>4 DEF Next, Finished

-----------------------------------------------------------------------------
(* Numbers, answers and deliveries.                                        *)

\* Requests are never taken back.
LEMMA SentGrows == ASSUME Flow PROVE sent \subseteq sent'
  <1>1. CASE LoadChats \/ OnLoaded \/ AskWhoAmI \/ OnMe
    BY <1>1 DEF LoadChats, OnLoaded, AskWhoAmI, OnMe, AskFor
  <1>2. CASE OnList
    BY <1>2 DEF OnList
  <1>3. CASE \/ EnterReceive \/ KeepWaiting \/ SkipLine \/ ScanLine \/ StopAsking \/ WaitTimeout
             \/ ScanDone \/ Refused \/ OnEmptyList \/ ScanRefused \/ OnMember \/ StopOnLine
    BY <1>3 DEF EnterReceive, KeepWaiting, SkipLine, ScanLine, StopAsking, WaitTimeout, ScanDone,
         Refused, OnEmptyList, ScanRefused, OnMember, StopOnLine, Return
  <1> QED
    BY <1>1, <1>2, <1>3 DEF Flow, Wait, Scan, Join

\* Every step keeps the numbers of the requests apart.
LEMMA NumberedStep ==
  ASSUME Typed, Numbered, Answered, Delivered, [Next]_vars
  PROVE  Numbered'
  <1>0. ASSUME UNCHANGED <<sent, extra_counter>> PROVE Numbered'
    BY <1>0 DEF Numbered
  <1>1. CASE LoadChats \/ OnLoaded \/ AskWhoAmI
    <2>1. PICK req \in {"loadChats", "getMe", "getChats"} : AskFor(req, NoChat)
      BY <1>1 DEF LoadChats, AskWhoAmI, OnLoaded
    <2> QED
      BY <2>1, AskForSent DEF Requests
  <1>2. CASE OnMe
    <2>1. AskFor("getChatMember", found) /\ found \in Chats \cup {NoChat}
      BY <1>2, ChatsAssumption DEF OnMe, Typed, TypeOK
    <2> QED
      BY <2>1, AskForSent DEF Requests
  <1>3. CASE OnList
    BY <1>3, ReceiveList, OnListSent
  <1>4. CASE \/ EnterReceive \/ KeepWaiting \/ SkipLine \/ ScanLine \/ StopAsking \/ WaitTimeout
             \/ ScanDone \/ Refused \/ OnEmptyList \/ ScanRefused \/ OnMember \/ StopOnLine
    BY <1>0, <1>4 DEF EnterReceive, KeepWaiting, SkipLine, ScanLine, StopAsking, WaitTimeout,
         ScanDone, Refused, OnEmptyList, ScanRefused, OnMember, StopOnLine, Return
  <1>5. CASE Tdlib
    BY <1>0, <1>5, TdlibFrame
  <1>6. CASE PassDeadline \/ UNCHANGED vars
    BY <1>0, <1>6 DEF PassDeadline, vars
  <1> QED
    BY <1>1, <1>2, <1>3, <1>4, <1>5, <1>6 DEF Next, Flow, Wait, Scan, Join, Finished

\* An answer that was about its request still is.
LEMMA AnsweredKept ==
  ASSUME Answered, sent \subseteq sent', told \subseteq told'
  PROVE  \A a \in answers : \E r \in sent' :
           /\ a.extra = r.extra
           /\ a.type = "chat" => /\ a.body \in Shown /\ a.body.chat = r.chat
                                 /\ a.body.marked => r.chat \in told'
           /\ a.type = "chats" => a.body \in Lists
  BY DEF Answered

\* Every step keeps the answers about their requests.
LEMMA AnsweredStep ==
  ASSUME Typed, Numbered, Answered, Delivered, [Next]_vars
  PROVE  Answered'
  <1>0. ASSUME sent \subseteq sent', told \subseteq told', UNCHANGED answers PROVE Answered'
    BY <1>0, AnsweredKept DEF Answered
  <1>1. CASE Flow
    BY <1>0, <1>1, SentGrows, FlowFrame DEF tdVars
  <1>2. CASE PassDeadline \/ UNCHANGED vars
    BY <1>0, <1>2 DEF PassDeadline, vars, tdVars
  <1>3. CASE TdMark \/ TdUpdate \/ TdNoise
    <2>1. UNCHANGED <<sent, answers>> /\ told \subseteq told'
      BY <1>3 DEF TdMark, TdUpdate, TdNoise, TdIdle
    <2> QED
      BY <1>0, <2>1
  <1>4. CASE TdAnswer
    <2>1. PICK r \in sent : \E l \in AnswerTo(r) :
             /\ Deliver(l) /\ answers' = answers \cup {l}
             /\ told' = IF l.type = "chat" /\ l.body.marked THEN told \cup {r.chat} ELSE told
      BY <1>4 DEF TdAnswer
    <2>2. PICK l \in AnswerTo(r) :
             /\ Deliver(l) /\ answers' = answers \cup {l}
             /\ told' = IF l.type = "chat" /\ l.body.marked THEN told \cup {r.chat} ELSE told
      BY <2>1
    <2>3. sent' = sent /\ told \subseteq told'
      BY <1>4, <2>2 DEF TdAnswer, TdIdle
    <2>4. /\ l.extra = r.extra
          /\ l.type = "chat" => l.body = Show(r.chat)
          /\ l.type = "chats" => l.body \in Lists
      BY AnswerTyped
    <2>5. l.type = "chat" => l.body \in Shown /\ l.body.chat = r.chat
      <3>1. r.chat \in Chats \cup {NoChat}
        BY DEF Typed, SentType
      <3>2. Show(r.chat) \in Shown /\ Show(r.chat).chat = r.chat
        BY <3>1 DEF Show, Shown
      <3> QED
        BY <2>4, <3>2
    <2>6. l.type = "chat" /\ l.body.marked => r.chat \in told'
      BY <2>2
    <2>7. r \in sent'
      BY <2>3
    <2>8. ASSUME NEW a \in answers' PROVE \E q \in sent' :
             /\ a.extra = q.extra
             /\ a.type = "chat" => /\ a.body \in Shown /\ a.body.chat = q.chat
                                   /\ a.body.marked => q.chat \in told'
             /\ a.type = "chats" => a.body \in Lists
      <3>1. CASE a \in answers
        BY <3>1, <2>3, AnsweredKept
      <3>2. CASE a = l
        BY <3>2, <2>4, <2>5, <2>6, <2>7
      <3> QED
        BY <3>1, <3>2, <2>2
    <2> QED
      BY <2>8 DEF Answered
  <1> QED
    BY <1>1, <1>2, <1>3, <1>4 DEF Next, Tdlib, Finished

\* Every step keeps what waits genuine.
LEMMA DeliveredStep ==
  ASSUME Typed, Delivered, [Next]_vars
  PROVE  Delivered'
  <1>0. ASSUME Waiting' \subseteq Waiting, told \subseteq told', answers \subseteq answers'
        PROVE Delivered'
    BY <1>0 DEF Delivered, client_matches
  <1>1. CASE Flow
    BY <1>0, <1>1, FlowFrame DEF tdVars
  <1>2. CASE PassDeadline \/ UNCHANGED vars
    BY <1>0, <1>2 DEF PassDeadline, vars, tdVars, Waiting
  <1>3. CASE TdMark
    BY <1>0, <1>3 DEF TdMark, TdIdle, Waiting
  <1>4. ASSUME NEW l \in Mail, Deliver(l), told \subseteq told', answers \subseteq answers',
               client_matches(l) =>
                 /\ l.type = "newChat" => l.body \in Shown /\ (l.body.marked => l.body.chat \in told')
                 /\ l.type \notin {"newChat", "update", "malformed"} => l \in answers'
        PROVE  Delivered'
    <2>1. Waiting' \subseteq Waiting \cup {l}
      BY <1>4, DeliverWaiting
    <2> QED
      BY <1>4, <2>1 DEF Delivered, client_matches
  <1>5. CASE TdAnswer
    <2>0. PICK r \in sent : \E l \in AnswerTo(r) :
             /\ Deliver(l) /\ answers' = answers \cup {l}
             /\ told' = IF l.type = "chat" /\ l.body.marked THEN told \cup {r.chat} ELSE told
      BY <1>5 DEF TdAnswer
    <2>1. PICK l \in AnswerTo(r) :
             /\ Deliver(l) /\ answers' = answers \cup {l}
             /\ told' = IF l.type = "chat" /\ l.body.marked THEN told \cup {r.chat} ELSE told
      BY <2>0
    <2>2. l \in Mail /\ l.type # "newChat"
      BY AnswerTyped
    <2> QED
      BY <1>4, <2>1, <2>2
  <1>6. CASE TdUpdate
    <2>1. PICK c \in Chats : /\ Deliver(JsonLine("this", "newChat", Show(c), None))
                             /\ told' = IF c \in marked THEN told \cup {c} ELSE told
      BY <1>6 DEF TdUpdate
    <2> DEFINE l == JsonLine("this", "newChat", Show(c), None)
    <2>2. l \in Mail /\ Show(c) \in Shown
      BY UpdateTyped
    <2>3. l.type = "newChat" /\ l.body = Show(c) /\ l.body.chat = c /\ l.body.marked = (c \in marked)
      BY DEF JsonLine, Show
    <2>4. answers \subseteq answers' /\ told \subseteq told'
      BY <1>6, <2>1 DEF TdUpdate
    <2>5. l.body.marked => l.body.chat \in told'
      BY <2>1, <2>3
    <2> HIDE DEF l
    <2>6. Deliver(l)
      BY <2>1 DEF l
    <2> QED
      BY <1>4, <2>2, <2>3, <2>4, <2>5, <2>6
  <1>7. CASE TdNoise
    <2>1. PICK l \in {JsonLine("this", "update", "none", None),
               JsonLine("this", "malformed", "none", None)}
              \cup {JsonLine("old", "newChat", [chat |-> c, marked |-> TRUE], None) : c \in Chats} :
             Deliver(l)
      BY <1>7 DEF TdNoise
    <2>2. l \in Mail /\ (client_matches(l) => l.type \in {"update", "malformed"})
      BY NoiseTyped
    <2>3. UNCHANGED <<answers, told>>
      BY <1>7 DEF TdNoise
    <2> QED
      BY <1>4, <2>1, <2>2, <2>3
  <1> QED
    BY <1>1, <1>2, <1>3, <1>5, <1>6, <1>7 DEF Next, Tdlib, Finished

-----------------------------------------------------------------------------
(* What is asked and what the scan still waits for.                        *)

\* An answer that shows a marked channel, or such an update, means it was told.
LEMMA SponsorTold ==
  ASSUME Typed, Answered, Delivered, NEW s, Receive(s), Own, ShowsSponsor
  PROVE  Line.body.chat \in told \cap Channels
  <1>1. Line \in Waiting /\ client_matches(Line)
    BY ReceiveWaiting DEF Own
  <1>2. CASE Line.type = "newChat"
    <2>1. Line.body.marked => Line.body.chat \in told
      BY <1>1, <1>2 DEF Delivered
    <2> QED
      BY <2>1 DEF ShowsSponsor
  <1>3. CASE Line.type = "chat"
    <2>1. Line \in answers
      BY <1>3, ReceiveAnswer
    <2>2. PICK r \in sent : Line.body.chat = r.chat /\ (Line.body.marked => r.chat \in told)
      BY <1>3, <2>1 DEF Answered
    <2> QED
      BY <2>2 DEF ShowsSponsor
  <1> QED
    BY <1>2, <1>3 DEF ShowsSponsor

\* Every step keeps what was found genuine and asked about.
LEMMA AskingStep ==
  ASSUME Typed, Answered, Delivered, Asking, [Next]_vars
  PROVE  Asking'
  <1>0. ASSUME UNCHANGED <<found, step, wanted, sent>>, told \subseteq told' PROVE Asking'
    BY <1>0 DEF Asking
  <1>1. CASE Flow
    <2>0. UNCHANGED told
      BY <1>1, FlowFrame DEF tdVars
    <2>1. CASE EnterReceive \/ KeepWaiting \/ SkipLine
      <3>1. UNCHANGED <<found, step, wanted, sent>>
        BY <2>1 DEF EnterReceive, KeepWaiting, SkipLine
      <3> QED
        BY <1>0, <2>0, <3>1
    <2>2. CASE LoadChats \/ OnLoaded \/ OnList
      <3>1. step' \in {"loadChats", "getChats", "scan"} /\ UNCHANGED found
        BY <2>2 DEF LoadChats, OnLoaded, OnList, AskFor
      <3> QED
        BY <2>0, <3>1 DEF Asking
    <2>3. CASE AskWhoAmI
      <3>1. step' = "getMe" /\ UNCHANGED found /\ found # NoChat
        BY <2>3 DEF AskWhoAmI, AskFor
      <3> QED
        BY <2>0, <3>1 DEF Asking
    <2>4. CASE OnMe
      <3>1. step = "getMe" /\ step' = "getChatMember" /\ UNCHANGED found
        BY <2>4 DEF OnMe, AskFor, Receive
      <3>2. /\ [extra |-> wanted', chat |-> found'] \in sent'
            /\ wanted'.req = "getChatMember"
        BY <2>4 DEF OnMe, AskFor, Extra
      <3>3. \E r \in sent' : r.extra = wanted' /\ r.chat = found' /\ wanted'.req = "getChatMember"
        BY <3>2
      <3> QED
        BY <2>0, <3>1, <3>3 DEF Asking
    <2>5. CASE ScanLine
      <3>1. step' = "scan"
        BY <2>5 DEF ScanLine, Receive
      <3>2. found' # NoChat => found' \in told \cap Channels
        <4>1. CASE Own /\ ShowsSponsor
          BY <2>5, <4>1, SponsorTold DEF ScanLine
        <4>2. CASE ~(Own /\ ShowsSponsor)
          BY <2>5, <4>2 DEF ScanLine, Asking
        <4> QED
          BY <4>1, <4>2
      <3> QED
        BY <2>0, <3>1, <3>2 DEF Asking
    <2>6. CASE \/ StopAsking \/ WaitTimeout \/ ScanDone \/ Refused \/ OnEmptyList \/ ScanRefused
               \/ OnMember \/ StopOnLine
      <3>1. step' = "returned" /\ UNCHANGED found
        BY <2>6 DEF StopAsking, WaitTimeout, ScanDone, Refused, OnEmptyList, ScanRefused,
             OnMember, StopOnLine, Return
      <3> QED
        BY <2>0, <3>1 DEF Asking
    <2> QED
      BY <1>1, <2>1, <2>2, <2>3, <2>4, <2>5, <2>6 DEF Flow, Wait, Scan, Join
  <1>2. CASE PassDeadline \/ UNCHANGED vars
    BY <1>0, <1>2 DEF PassDeadline, vars, tdVars, flowVars
  <1>3. CASE Tdlib
    BY <1>0, <1>3, TdlibFrame DEF flowVars
  <1> QED
    BY <1>1, <1>2, <1>3 DEF Next, Finished

\* More answers and the same requests leave a scan as it was.
LEMMA ScanningKept ==
  ASSUME Scanning, answers \subseteq answers', UNCHANGED <<step, found, sent, pending>>
  PROVE  Scanning'
  <1>1. ASSUME NEW c, Unmarked(c) PROVE Unmarked(c)'
    BY <1>1 DEF Unmarked
  <1>2. ASSUME NEW c, AskedFor(c) PROVE AskedFor(c)'
    BY <1>2 DEF AskedFor
  <1> SUFFICES ASSUME step' = "scan", found' = NoChat
               PROVE  \E l \in answers' :
                        /\ l.type = "chats"
                        /\ \A i \in DOMAIN l.body : i <= SPONSOR_SCAN_GET_CHAT_MAX =>
                             (Unmarked(l.body[i]) \/ AskedFor(l.body[i]))'
    BY DEF Scanning
  <1>3. PICK l \in answers :
          /\ l.type = "chats"
          /\ \A i \in DOMAIN l.body : i <= SPONSOR_SCAN_GET_CHAT_MAX =>
               (Unmarked(l.body[i]) \/ AskedFor(l.body[i]))
    BY DEF Scanning
  <1>4. ASSUME NEW i \in DOMAIN l.body, i <= SPONSOR_SCAN_GET_CHAT_MAX
        PROVE  (Unmarked(l.body[i]) \/ AskedFor(l.body[i]))'
    BY <1>1, <1>2, <1>3, <1>4 DEF Unmarked, AskedFor
  <1> QED
    BY <1>3, <1>4

\* A line of the scan answers for its chat, or leaves its getChat pending.
LEMMA ScanningLine ==
  ASSUME Typed, Numbered, Answered, Delivered, Scanning, ScanLine
  PROVE  Scanning'
  <1> SUFFICES ASSUME found' = NoChat
               PROVE  \E l \in answers' :
                        /\ l.type = "chats"
                        /\ \A i \in DOMAIN l.body : i <= SPONSOR_SCAN_GET_CHAT_MAX =>
                             \/ \E a \in answers' : /\ a.type = "chat" /\ a.body.chat = l.body[i]
                                                    /\ ~(a.body.marked /\ l.body[i] \in Channels)
                             \/ \E r \in sent' : r.extra \in pending' /\ r.chat = l.body[i]
    BY DEF Scanning, Unmarked, AskedFor
  <1>1. ~(Own /\ ShowsSponsor) /\ found = NoChat
    BY ChatsAssumption DEF ScanLine, ShowsSponsor
  <1>2. step = "scan" /\ UNCHANGED <<sent, answers>>
    BY DEF ScanLine, Receive, tdVars
  <1>3. PICK l \in answers :
          /\ l.type = "chats"
          /\ \A i \in DOMAIN l.body : i <= SPONSOR_SCAN_GET_CHAT_MAX =>
               Unmarked(l.body[i]) \/ AskedFor(l.body[i])
    BY <1>1, <1>2 DEF Scanning
  <1>4. ASSUME NEW c, NEW r \in sent, r.extra \in pending, r.chat = c
        PROVE  \/ \E a \in answers : /\ a.type = "chat" /\ a.body.chat = c
                                     /\ ~(a.body.marked /\ c \in Channels)
               \/ r.extra \in pending'
    <2>1. CASE Own /\ Line.type = "chat" /\ Line.extra = r.extra
      <3>1. Line \in answers
        BY <2>1, ReceiveAnswer DEF ScanLine
      <3>2. PICK q \in sent : Line.extra = q.extra /\ Line.body.chat = q.chat
        BY <2>1, <3>1 DEF Answered
      <3>3. q = r
        BY <2>1, <3>2 DEF Numbered
      <3>4. Line.body.chat = c /\ ~(Line.body.marked /\ c \in Channels)
        BY <1>1, <1>4, <2>1, <3>2, <3>3 DEF ShowsSponsor
      <3> QED
        BY <2>1, <3>1, <3>4
    <2>2. CASE ~(Own /\ Line.type = "chat" /\ Line.extra = r.extra)
      BY <1>4, <2>2 DEF ScanLine
    <2> QED
      BY <2>1, <2>2
  <1>5. ASSUME NEW i \in DOMAIN l.body, i <= SPONSOR_SCAN_GET_CHAT_MAX
        PROVE  \/ \E a \in answers : /\ a.type = "chat" /\ a.body.chat = l.body[i]
                                     /\ ~(a.body.marked /\ l.body[i] \in Channels)
               \/ \E r \in sent : r.extra \in pending' /\ r.chat = l.body[i]
    <2>1. CASE Unmarked(l.body[i])
      BY <2>1 DEF Unmarked
    <2>2. CASE AskedFor(l.body[i])
      <3>1. PICK r \in sent : r.extra \in pending /\ r.chat = l.body[i]
        BY <2>2 DEF AskedFor
      <3> QED
        BY <1>4, <3>1
    <2> QED
      BY <1>3, <1>5, <2>1, <2>2
  <1> QED
    BY <1>2, <1>3, <1>5

-----------------------------------------------------------------------------
(* What is reported.                                                       *)

\* Every step keeps the scan complete.
LEMMA ScanningStep ==
  ASSUME Typed, Numbered, Answered, Delivered, Scanning, [Next]_vars
  PROVE  Scanning'
  <1>1. CASE Flow
    <2>0. UNCHANGED answers
      BY <1>1, FlowFrame DEF tdVars
    <2>1. CASE EnterReceive \/ KeepWaiting \/ SkipLine
      <3>1. UNCHANGED <<step, found, sent, pending>>
        BY <2>1 DEF EnterReceive, KeepWaiting, SkipLine
      <3> QED
        BY <2>0, <3>1, ScanningKept
    <2>2. CASE \/ LoadChats \/ OnLoaded \/ AskWhoAmI \/ OnMe
               \/ StopAsking \/ WaitTimeout \/ ScanDone \/ Refused \/ OnEmptyList \/ ScanRefused
               \/ OnMember \/ StopOnLine
      <3>1. step' # "scan"
        BY <2>2 DEF LoadChats, OnLoaded, AskWhoAmI, OnMe, AskFor, StopAsking, WaitTimeout,
             ScanDone, Refused, OnEmptyList, ScanRefused, OnMember, StopOnLine, Return
      <3> QED
        BY <3>1 DEF Scanning
    <2>3. CASE ScanLine
      BY <2>3, ScanningLine
    <2>4. CASE OnList
      <3>1. Line \in answers /\ Line.type = "chats" /\ Line.body \in Lists
        BY <2>4, ReceiveList
      <3>2. \A i \in DOMAIN Line.body : i <= SPONSOR_SCAN_GET_CHAT_MAX =>
              \E r \in sent' : r.extra \in pending' /\ r.chat = Line.body[i]
        BY <2>4, <3>1, OnListSent
      <3>3. \E l \in answers' :
              /\ l.type = "chats"
              /\ \A i \in DOMAIN l.body : i <= SPONSOR_SCAN_GET_CHAT_MAX =>
                   \E r \in sent' : r.extra \in pending' /\ r.chat = l.body[i]
        BY <2>0, <3>1, <3>2
      <3> QED
        BY <3>3 DEF Scanning, AskedFor
    <2> QED
      BY <1>1, <2>1, <2>2, <2>3, <2>4 DEF Flow, Wait, Scan, Join
  <1>2. CASE PassDeadline \/ UNCHANGED vars
    BY <1>2, ScanningKept DEF PassDeadline, vars, tdVars, flowVars
  <1>3. CASE Tdlib
    BY <1>3, TdlibFrame, ScanningKept DEF flowVars
  <1> QED
    BY <1>1, <1>2, <1>3 DEF Next, Finished

\* After the return the flow is at rest.
LEMMA FlowRuns == ASSUME Typed, Flow PROVE step # "returned"
  <1>1. CASE \/ LoadChats \/ EnterReceive \/ KeepWaiting \/ StopAsking \/ WaitTimeout \/ ScanDone
             \/ AskWhoAmI
    BY <1>1 DEF Typed, LoadChats, EnterReceive, KeepWaiting, StopAsking, WaitTimeout, ScanDone,
         AskWhoAmI, NothingReceived
  <1>2. CASE \/ SkipLine \/ Refused \/ OnLoaded \/ OnEmptyList \/ OnList \/ ScanRefused
             \/ ScanLine \/ OnMe \/ OnMember \/ StopOnLine
    BY <1>2 DEF Typed, SkipLine, Refused, OnLoaded, OnEmptyList, OnList, ScanRefused, ScanLine,
         OnMe, OnMember, StopOnLine, Receive
  <1> QED
    BY <1>1, <1>2 DEF Flow, Wait, Scan, Join

\* The steps with which the flow returns.
Returning == \/ StopAsking \/ WaitTimeout \/ ScanDone \/ Refused \/ OnEmptyList \/ ScanRefused
             \/ OnMember \/ StopOnLine

\* What is reported stays true when TDLib answers and shows more.
LEMMA ReportedKept ==
  ASSUME Reported, answers \subseteq answers', told \subseteq told', sent \subseteq sent',
         late => late', UNCHANGED <<found, sponsored, joined>>
  PROVE  Reported'
  <1>1. NoIsComplete'
    <2>1. ASSUME NEW c, Unmarked(c) PROVE Unmarked(c)'
      BY <2>1 DEF Unmarked
    <2> SUFFICES ASSUME sponsored' = "no"
                 PROVE  \E l \in answers' :
                          /\ l.type = "chats"
                          /\ \A i \in DOMAIN l.body : i <= SPONSOR_SCAN_GET_CHAT_MAX =>
                               Unmarked(l.body[i])'
      BY DEF NoIsComplete
    <2>2. PICK l \in answers :
            /\ l.type = "chats"
            /\ \A i \in DOMAIN l.body : i <= SPONSOR_SCAN_GET_CHAT_MAX => Unmarked(l.body[i])
      BY DEF Reported, NoIsComplete
    <2>3. \A i \in DOMAIN l.body : i <= SPONSOR_SCAN_GET_CHAT_MAX => Unmarked(l.body[i])'
      BY <2>2 DEF Unmarked
    <2> QED
      BY <2>2, <2>3
  <1>2. YesIsGenuine'
    BY DEF Reported, YesIsGenuine
  <1>3. UnknownHasCause'
    BY DEF Reported, UnknownHasCause, Refusal
  <1>4. JoinedIsAboutSponsor'
    BY DEF Reported, JoinedIsAboutSponsor
  <1> QED
    BY <1>1, <1>2, <1>3, <1>4 DEF Reported

\* What the flow returns has its reason.
LEMMA ReturnReported ==
  ASSUME Typed, Answered, Delivered, Asking, Scanning, Returning
  PROVE  Reported'
  <1>0. UNCHANGED <<answers, told, late, sent, found>>
    <2>1. UNCHANGED <<answers, told, late>>
      BY FlowFrame DEF Returning, Flow, Wait, Scan, Join, tdVars
    <2>2. UNCHANGED <<sent, found>>
      BY DEF Returning, StopAsking, WaitTimeout, ScanDone, Refused, OnEmptyList, ScanRefused,
         OnMember, StopOnLine, Return
    <2> QED
      BY <2>1, <2>2
  <1>yes. ASSUME step \in {"getMe", "getChatMember"}, sponsored' = "yes",
                 joined' = "none" PROVE Reported'
    <2>1. found' \in told' \cap Channels
      BY <1>0, <1>yes DEF Asking
    <2> QED
      BY <1>yes, <2>1 DEF Reported, NoIsComplete, YesIsGenuine, UnknownHasCause, JoinedIsAboutSponsor
  <1>unknown. ASSUME sponsored' = "unknown", joined' = "none", late \/ Refusal PROVE Reported'
    BY <1>0, <1>unknown
       DEF Reported, NoIsComplete, YesIsGenuine, UnknownHasCause, JoinedIsAboutSponsor, Refusal
  <1>no. ASSUME sponsored' = "no", joined' = "none",
                NEW l \in answers, l.type = "chats",
                \A i \in DOMAIN l.body : i <= SPONSOR_SCAN_GET_CHAT_MAX => Unmarked(l.body[i])
         PROVE  Reported'
    <2>1. NoIsComplete'
      BY <1>0, <1>no DEF NoIsComplete, Unmarked
    <2> QED
      BY <1>no, <2>1 DEF Reported, YesIsGenuine, UnknownHasCause, JoinedIsAboutSponsor
  <1>1. CASE StopAsking
    <2>1. step \in {"getMe", "getChatMember"}
      BY <1>1 DEF StopAsking, NothingReceived, Patient, Typed, TypeOK, Steps
    <2> QED
      BY <1>1, <1>yes, <2>1 DEF StopAsking, Return
  <1>2. CASE WaitTimeout
    <2>1. CASE step \in Patient
      BY <1>2, <1>unknown, <2>1 DEF WaitTimeout, Return
    <2>2. CASE step \notin Patient
      BY <1>2, <1>yes, <2>2 DEF WaitTimeout, Return, Patient
    <2> QED
      BY <2>1, <2>2
  <1>3. CASE ScanDone
    <2>1. CASE pending = {}
      <3>1. PICK l \in answers :
              /\ l.type = "chats"
              /\ \A i \in DOMAIN l.body : i <= SPONSOR_SCAN_GET_CHAT_MAX =>
                   Unmarked(l.body[i]) \/ AskedFor(l.body[i])
        BY <1>3 DEF ScanDone, Scanning
      <3>2. \A i \in DOMAIN l.body : i <= SPONSOR_SCAN_GET_CHAT_MAX => Unmarked(l.body[i])
        BY <2>1, <3>1 DEF AskedFor
      <3> QED
        BY <1>3, <2>1, <3>1, <3>2, <1>no DEF ScanDone, Return
    <2>2. CASE pending # {}
      BY <1>3, <1>unknown, <2>2 DEF ScanDone, Return
    <2> QED
      BY <2>1, <2>2
  <1>4. CASE Refused
    <2>1. Line \in answers /\ Line.type = "error"
      BY <1>4, ReceiveAnswer DEF Refused, Answers
    <2> QED
      BY <1>4, <1>unknown, <2>1 DEF Refused, Return, Refusal
  <1>5. CASE ScanRefused
    <2>1. Line \in answers /\ Line.type = "error"
      BY <1>5, ReceiveAnswer DEF ScanRefused
    <2> QED
      BY <1>5, <1>unknown, <2>1 DEF ScanRefused, Return, Refusal
  <1>6. CASE OnEmptyList
    <2>1. Line \in answers /\ Line.type = "chats" /\ Line.body = <<>>
      BY <1>6, ReceiveAnswer DEF OnEmptyList, Answers
    <2>2. \A i \in DOMAIN Line.body : i <= SPONSOR_SCAN_GET_CHAT_MAX => Unmarked(Line.body[i])
      BY <2>1
    <2>3. sponsored' = "no" /\ joined' = "none"
      BY <1>6 DEF OnEmptyList, Return
    <2> QED
      BY <1>no, <2>1, <2>2, <2>3
  <1>7. CASE StopOnLine
    <2>1. step \in {"getMe", "getChatMember"}
      BY <1>7 DEF StopOnLine, Receive
    <2> QED
      BY <1>7, <1>yes, <2>1 DEF StopOnLine, Return
  <1>8. CASE OnMember
    <2>1. Line \in answers /\ Line.type = "chatMember" /\ Line.extra = wanted
      BY <1>8, ReceiveAnswer DEF OnMember, Answers
    <2>2. step = "getChatMember"
      BY <1>8 DEF OnMember, Receive
    <2>3. PICK r \in sent : r.extra = wanted /\ r.chat = found /\ wanted.req = "getChatMember"
      BY <2>2 DEF Asking
    <2>4. sponsored' = "yes" /\ joined' = chat_member_is_joined(Line.body)
      BY <1>8 DEF OnMember, Return
    <2>5. joined' # "none" => (joined' = "yes") = (Line.body \in Members)
      BY <2>4 DEF chat_member_is_joined, Members
    <2>6. YesIsGenuine'
      BY <1>0, <2>2 DEF Asking, YesIsGenuine
    <2>7. JoinedIsAboutSponsor'
      BY <1>0, <2>1, <2>3, <2>4, <2>5 DEF JoinedIsAboutSponsor
    <2> QED
      BY <2>4, <2>6, <2>7 DEF Reported, NoIsComplete, UnknownHasCause
  <1> QED
    BY <1>1, <1>2, <1>3, <1>4, <1>5, <1>6, <1>7, <1>8 DEF Returning

\* Every step keeps the reports justified.
LEMMA ReportedStep ==
  ASSUME ScanInv, [Next]_vars
  PROVE  NoReportYet' /\ Reported'
  <1> USE DEF ScanInv
  <1>1. CASE Flow
    <2>1. CASE Returning
      <3>1. step' = "returned"
        BY <2>1 DEF Returning, StopAsking, WaitTimeout, ScanDone, Refused, OnEmptyList,
             ScanRefused, OnMember, StopOnLine, Return
      <3> QED
        BY <2>1, <3>1, ReturnReported DEF NoReportYet
    <2>2. CASE ~Returning
      <3>1. UNCHANGED <<sponsored, joined>>
        BY <1>1, <2>2 DEF Returning, Flow, Wait, Scan, Join, LoadChats, EnterReceive, KeepWaiting,
             SkipLine, OnLoaded, OnList, ScanLine, AskWhoAmI, OnMe
      <3>2. sponsored' = "none" /\ joined' = "none"
        BY <1>1, <3>1, FlowRuns DEF NoReportYet
      <3> QED
        BY <3>2 DEF NoReportYet, Reported, NoIsComplete, YesIsGenuine, UnknownHasCause,
                    JoinedIsAboutSponsor
    <2> QED
      BY <2>1, <2>2
  <1>2. CASE PassDeadline \/ UNCHANGED vars
    <2>1. UNCHANGED <<answers, told, sent, step, found, sponsored, joined>> /\ (late => late')
      BY <1>2 DEF PassDeadline, vars, flowVars, tdVars
    <2> QED
      BY <2>1, ReportedKept DEF NoReportYet
  <1>3. CASE Tdlib
    <2>1. /\ UNCHANGED <<late, sent, step, found, sponsored, joined>>
          /\ answers \subseteq answers' /\ told \subseteq told'
      BY <1>3, TdlibFrame DEF flowVars
    <2> QED
      BY <2>1, ReportedKept DEF NoReportYet
  <1> QED
    BY <1>1, <1>2, <1>3 DEF Next, Finished

\* The invariant of the scan.
LEMMA ScanCorrect == Spec => []ScanInv
  <1>1. Init => ScanInv
    <2> SUFFICES ASSUME Init PROVE ScanInv
      OBVIOUS
    <2>1. Typed
      BY TypedInit
    <2>2. Numbered /\ Answered /\ Delivered
      BY DEF Init, Numbered, Answered, Delivered, Waiting
    <2>3. Asking /\ Scanning /\ NoReportYet
      BY DEF Init, Asking, Scanning, NoReportYet
    <2>4. Reported
      BY DEF Init, Reported, NoIsComplete, YesIsGenuine, UnknownHasCause, JoinedIsAboutSponsor
    <2> QED
      BY <2>1, <2>2, <2>3, <2>4 DEF ScanInv
  <1>2. ScanInv /\ [Next]_vars => ScanInv'
    <2> SUFFICES ASSUME ScanInv, [Next]_vars PROVE ScanInv'
      OBVIOUS
    <2>1. Typed' /\ Numbered' /\ Answered' /\ Delivered'
      BY TypedStep, NumberedStep, AnsweredStep, DeliveredStep DEF ScanInv
    <2>2. Asking' /\ Scanning'
      BY AskingStep, ScanningStep DEF ScanInv
    <2>3. NoReportYet' /\ Reported'
      BY ReportedStep
    <2> QED
      BY <2>1, <2>2, <2>3 DEF ScanInv
  <1> QED
    BY <1>1, <1>2, PTL DEF Spec

\* The flow keeps its types, whatever TDLib answers and in whatever order.
THEOREM ScanTypes == Spec => []TypeOK
  <1>1. ScanInv => TypeOK
    BY DEF ScanInv, Typed
  <1> QED
    BY <1>1, ScanCorrect, PTL

\* "sponsored: no" (README.md: "If every getChat completes and none match"): every
\* listed chat up to the cap was shown, and none of them as a marked channel.
THEOREM NoIsWellFounded == Spec => []NoIsComplete
  <1>1. ScanInv => NoIsComplete
    BY DEF ScanInv, Reported
  <1> QED
    BY <1>1, ScanCorrect, PTL

\* A "yes" names a channel TDLib showed to this client as the sponsor.
THEOREM YesIsWellFounded == Spec => []YesIsGenuine
  <1>1. ScanInv => YesIsGenuine
    BY DEF ScanInv, Reported
  <1> QED
    BY <1>1, ScanCorrect, PTL

\* An "unknown" comes from a refusal or from the deadline.
THEOREM UnknownIsWellFounded == Spec => []UnknownHasCause
  <1>1. ScanInv => UnknownHasCause
    BY DEF ScanInv, Reported
  <1> QED
    BY <1>1, ScanCorrect, PTL

\* subscription.joined is what TDLib said about the channel that was found.
THEOREM JoinedIsWellFounded == Spec => []JoinedIsAboutSponsor
  <1>1. ScanInv => JoinedIsAboutSponsor
    BY DEF ScanInv, Reported
  <1> QED
    BY <1>1, ScanCorrect, PTL

==============================================================================
