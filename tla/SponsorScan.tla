---------------------------- MODULE SponsorScan ----------------------------
(***************************************************************************)
(* run_mtproto_sponsor_flow (src/tdlib_live.rs): after the ping of an      *)
(* MTProto proxy in a ready --auth-session, look for the channel the proxy *)
(* sponsors (loadChats, getChats, one getChat per listed chat) and ask     *)
(* whether the user has joined it (getMe, getChatMember).                  *)
(*                                                                         *)
(* TDLib is external: it may learn at any moment that a chat is sponsored, *)
(* answers a request at any time, with an error, or never, in any order.   *)
(***************************************************************************)
EXTENDS TdJson, Sequences, FiniteSets

CONSTANTS
  Chats,       \* the user's chats and the sponsored one
  NoChat,      \* Option<..> that holds no chat
  Channels,    \* those that are channels (chatTypeSupergroup with is_channel)
  Lists,       \* what getChats may answer
  SPONSOR_SCAN_GET_CHAT_MAX,
  MaxMarks,    \* bound: times TDLib marks or unmarks a chat
  MaxNoise,    \* bound: lines that are not about the scan
  MaxInbox     \* bound: lines waiting in td_receive

ASSUME ChatsAssumption ==
  Channels \subseteq Chats /\ Lists \subseteq Seq(Chats) /\ NoChat \notin Chats
ASSUME CapAssumption == SPONSOR_SCAN_GET_CHAT_MAX \in Nat \ {0}

VARIABLES
  step,       \* the request the flow waits for
  receiving,  \* inside td_receive
  wanted,     \* extra of that request
  pending,    \* extras of the getChat requests not yet answered
  found,      \* the sponsored channel, or NoChat
  sponsored, joined,  \* the reports (subscription.checked is always true here)
  late,       \* the probe's deadline has passed
  extra_counter, sent, inbox,
  answers,    \* the lines with which TDLib answered
  marked,     \* the chats whose position has source chatSourceMtprotoProxy
  told,       \* the chats TDLib ever showed this client as marked
  marks, noise

flowVars == <<step, receiving, wanted, pending, found, sponsored, joined>>
tdVars == <<answers, marked, told, marks, noise>>
vars == <<flowVars, late, extra_counter, sent, inbox, tdVars>>

Steps == {"start", "loadChats", "getChats", "scan", "getMe", "getChatMember", "returned"}
Members == {"Member", "Administrator", "Restricted", "Creator"}
Statuses == Members \cup {"Left", "Banned", "Unlisted"}

Init ==
  /\ step = "start" /\ receiving = FALSE
  /\ wanted = None /\ pending = {} /\ found = NoChat
  /\ sponsored = "none" /\ joined = "none"
  /\ late \in BOOLEAN
  /\ extra_counter = 1 /\ sent = {} /\ inbox = <<>> /\ answers = {}
  /\ marked \in {{}} \cup {{c} : c \in Chats}
  /\ told = {}
  /\ marks = 0 /\ noise = 0

-----------------------------------------------------------------------------
(* The flow.                                                               *)

\* Send the request the flow waits for next; chat is the one it is about.
AskFor(req, chat) ==
  /\ wanted' = Extra(req, extra_counter)
  /\ sent' = sent \cup {[extra |-> Extra(req, extra_counter), chat |-> chat]}
  /\ extra_counter' = extra_counter + 1
  /\ step' = req
  /\ receiving' = FALSE

Return(s, j) ==
  /\ step' = "returned" /\ receiving' = FALSE
  /\ sponsored' = s /\ joined' = j
  /\ UNCHANGED <<wanted, pending, extra_counter, sent>>

LoadChats ==
  /\ step = "start"
  /\ AskFor("loadChats", NoChat)
  /\ UNCHANGED <<pending, found, sponsored, joined, late, inbox, tdVars>>

\* Mutant of EnterReceive: the deadline is not looked at.
EnterReceiveForever ==
  /\ step \notin {"start", "returned"} /\ ~receiving
  /\ step = "scan" => pending # {} /\ found = NoChat
  /\ receiving' = TRUE
  /\ UNCHANGED <<step, wanted, pending, found, sponsored, joined, late,
                 extra_counter, sent, inbox, tdVars>>

\* Every wait: td_receive is entered only before the deadline ...
EnterReceive ==
  /\ step \notin {"start", "returned"} /\ ~receiving /\ ~late
  /\ step = "scan" => pending # {} /\ found = NoChat
  /\ receiving' = TRUE
  /\ UNCHANGED <<step, wanted, pending, found, sponsored, joined, late,
                 extra_counter, sent, inbox, tdVars>>

\* ... and comes back with nothing after the deadline or 500 ms of silence.
NothingReceived == receiving /\ (late \/ inbox = <<>>)
Patient == {"loadChats", "getChats", "scan"}

KeepWaiting ==
  /\ NothingReceived /\ step \in Patient
  /\ receiving' = FALSE
  /\ UNCHANGED <<step, wanted, pending, found, sponsored, joined, late,
                 extra_counter, sent, inbox, tdVars>>

\* fetch_my_user_id and fetch_am_i_member return on the first silence.
StopAsking ==
  /\ NothingReceived /\ step \notin Patient
  /\ Return("yes", "none")
  /\ UNCHANGED <<found, late, inbox, tdVars>>

\* The deadline ends a wait between two lines.
WaitTimeout ==
  /\ step \in {"loadChats", "getChats", "getMe", "getChatMember"} /\ ~receiving /\ late
  /\ Return(IF step \in Patient THEN "unknown" ELSE "yes", "none")
  /\ UNCHANGED <<found, late, inbox, tdVars>>

\* Mutants of ScanDone: missing answers count as "no"; the scan gives up early.
ScanDoneSaysNo ==
  /\ step = "scan" /\ ~receiving
  /\ found = NoChat /\ (late \/ pending = {})
  /\ Return("no", "none")
  /\ UNCHANGED <<found, late, inbox, tdVars>>

ScanDoneEarly ==
  /\ step = "scan" /\ ~receiving /\ found = NoChat
  /\ Return(IF pending = {} THEN "no" ELSE "unknown", "none")
  /\ UNCHANGED <<found, late, inbox, tdVars>>

\* The scan loop is left: a sponsor, everything answered, or the deadline.
ScanDone ==
  /\ step = "scan" /\ ~receiving
  /\ found = NoChat /\ (late \/ pending = {})
  /\ Return(IF pending = {} THEN "no" ELSE "unknown", "none")
  /\ UNCHANGED <<found, late, inbox, tdVars>>

AskWhoAmI ==
  /\ step = "scan" /\ ~receiving /\ found # NoChat
  /\ AskFor("getMe", NoChat)
  /\ UNCHANGED <<pending, found, sponsored, joined, late, inbox, tdVars>>

\* A line is taken off the inbox.
Line == Head(inbox)
Receive(s) == step = s /\ receiving /\ inbox # <<>> /\ inbox' = Tail(inbox)
Own == client_matches(Line) /\ Line.type # "malformed"
Answers(type) == Own /\ Line.type = type /\ Line.extra = wanted

\* A line the wait has no use for.  In getMe and getChatMember a line that is
\* not JSON ends the wait instead (StopOnLine below).
Useless ==
  CASE step \in {"loadChats", "getMe", "getChatMember"} ->
         LET type == CASE step = "loadChats" -> "ok" [] step = "getMe" -> "user"
                       [] OTHER -> "chatMember"
         IN ~Answers(type) /\ ~Answers("error")
    [] step = "getChats" -> ~Answers("chats") /\ ~Answers("error")
    [] OTHER -> FALSE

SkipLine ==
  /\ \E s \in Steps : Receive(s)
  /\ Useless
  /\ Line.type = "malformed" => step \in Patient
  /\ receiving' = FALSE
  /\ UNCHANGED <<step, wanted, pending, found, sponsored, joined, late,
                 extra_counter, sent, tdVars>>

\* wait_rpc_ok and wait_chats_ids
Refused ==
  /\ \E s \in {"loadChats", "getChats"} : Receive(s)
  /\ Answers("error")
  /\ Return("unknown", "none")
  /\ UNCHANGED <<found, late, tdVars>>

OnLoaded ==
  /\ Receive("loadChats") /\ Answers("ok")
  /\ AskFor("getChats", NoChat)
  /\ UNCHANGED <<pending, found, sponsored, joined, late, tdVars>>

OnEmptyList ==
  /\ Receive("getChats") /\ Answers("chats") /\ Line.body = <<>>
  /\ Return("no", "none")
  /\ UNCHANGED <<found, late, tdVars>>

\* One getChat for each of the first SPONSOR_SCAN_GET_CHAT_MAX listed chats.
OnList ==
  /\ Receive("getChats") /\ Answers("chats") /\ Line.body # <<>>
  /\ LET n == IF Len(Line.body) <= SPONSOR_SCAN_GET_CHAT_MAX
              THEN Len(Line.body) ELSE SPONSOR_SCAN_GET_CHAT_MAX
         extra(i) == Extra("getChat", extra_counter + i - 1)
     IN /\ sent' = sent \cup {[extra |-> extra(i), chat |-> Line.body[i]] : i \in 1..n}
        /\ pending' = {extra(i) : i \in 1..n}
        /\ extra_counter' = extra_counter + n
  /\ step' = "scan" /\ receiving' = FALSE
  /\ UNCHANGED <<wanted, found, sponsored, joined, late, tdVars>>

\* The scan loop: one refused getChat ends it ...
ScanRefused ==
  /\ Receive("scan") /\ Own
  /\ Line.type = "error" /\ Line.extra \in pending
  /\ Return("unknown", "none")
  /\ UNCHANGED <<found, late, tdVars>>

\* Mutant of ShowsSponsor: groups are taken for channels.
ShowsMarkedChat ==
  /\ \/ Line.type = "chat" /\ Line.extra \in pending
     \/ Line.type = "newChat"
  /\ Line.body.marked

\* ... an answer or an update that shows a marked channel is a sponsor.
ShowsSponsor ==
  /\ \/ Line.type = "chat" /\ Line.extra \in pending
     \/ Line.type = "newChat"
  /\ Line.body.marked /\ Line.body.chat \in Channels

ScanLine ==
  /\ Receive("scan")
  /\ ~(Own /\ Line.type = "error" /\ Line.extra \in pending)
  /\ pending' = IF Own /\ Line.type = "chat" THEN pending \ {Line.extra} ELSE pending
  /\ found' = IF Own /\ ShowsSponsor THEN Line.body.chat ELSE found
  /\ receiving' = FALSE
  /\ UNCHANGED <<step, wanted, sponsored, joined, late, extra_counter, sent,
                 tdVars>>

\* fetch_my_user_id, fetch_am_i_member
OnMe ==
  /\ Receive("getMe") /\ Answers("user")
  /\ AskFor("getChatMember", found)
  /\ UNCHANGED <<pending, found, sponsored, joined, late, tdVars>>

\* Mutant of chat_member_is_joined: whoever left still counts as a member.
left_is_joined(status) ==
  IF status \in Members \cup {"Left"} THEN "yes"
  ELSE IF status = "Banned" THEN "no" ELSE "none"

\* chat_member_is_joined
chat_member_is_joined(status) ==
  IF status \in Members THEN "yes"
  ELSE IF status \in {"Left", "Banned"} THEN "no" ELSE "none"

OnMember ==
  /\ Receive("getChatMember") /\ Answers("chatMember")
  /\ Return("yes", chat_member_is_joined(Line.body))
  /\ UNCHANGED <<found, late, tdVars>>

StopOnLine ==
  /\ \E s \in {"getMe", "getChatMember"} : Receive(s)
  /\ Answers("error") \/ Line.type = "malformed"
  /\ Return("yes", "none")
  /\ UNCHANGED <<found, late, tdVars>>

-----------------------------------------------------------------------------
(* The clock, and TDLib (external).                                        *)

PassDeadline ==
  /\ ~late
  /\ late' = TRUE
  /\ UNCHANGED <<flowVars, extra_counter, sent, inbox, tdVars>>

Deliver(l) == Len(inbox) < MaxInbox /\ inbox' = Append(inbox, l)
TdIdle == UNCHANGED <<flowVars, late, extra_counter, sent>>
Show(c) == [chat |-> c, marked |-> c \in marked]

\* What TDLib may answer to the request r.
AnswerTo(r) ==
  LET ok(t, b) == JsonLine("this", t, b, r.extra)
      success ==
        CASE r.extra.req = "loadChats" -> {ok("ok", "none")}
          [] r.extra.req = "getChats" -> {ok("chats", l) : l \in Lists}
          [] r.extra.req = "getChat" -> {ok("chat", Show(r.chat))}
          [] r.extra.req = "getMe" -> {ok("user", "none")}
          [] OTHER -> {ok("chatMember", s) : s \in Statuses}
  IN success \cup {ok("error", "none")}

\* An answer may come when the flow no longer waits for it.
TdAnswer ==
  /\ \E r \in sent : \E l \in AnswerTo(r) :
       /\ \A a \in answers : a.extra # r.extra
       /\ Deliver(l)
       /\ answers' = answers \cup {l}
       /\ told' = IF l.type = "chat" /\ l.body.marked THEN told \cup {r.chat} ELSE told
  /\ TdIdle /\ UNCHANGED <<marked, marks, noise>>

\* The proxy's sponsor becomes known, or changes.
TdMark ==
  /\ step # "returned" /\ marks < MaxMarks
  /\ \E c \in Chats : marked' \in {marked \cup {c}, marked \ {c}} \ {marked}
  /\ marks' = marks + 1
  /\ TdIdle /\ UNCHANGED <<inbox, answers, told, noise>>

\* Updates showing a chat, and lines of no use to the flow.
TdUpdate ==
  /\ step # "returned" /\ noise < MaxNoise
  /\ \E c \in Chats :
       /\ Deliver(JsonLine("this", "newChat", Show(c), None))
       /\ told' = IF c \in marked THEN told \cup {c} ELSE told
  /\ noise' = noise + 1
  /\ TdIdle /\ UNCHANGED <<answers, marked, marks>>

TdNoise ==
  /\ step # "returned" /\ noise < MaxNoise
  /\ \E l \in {JsonLine("this", "update", "none", None),
               JsonLine("this", "malformed", "none", None)}
              \cup {JsonLine("old", "newChat", [chat |-> c, marked |-> TRUE], None) : c \in Chats} :
       Deliver(l)
  /\ noise' = noise + 1
  /\ TdIdle /\ UNCHANGED <<answers, marked, told, marks>>

Finished == step = "returned" /\ UNCHANGED vars

-----------------------------------------------------------------------------
Wait == EnterReceive \/ KeepWaiting \/ StopAsking \/ WaitTimeout \/ SkipLine \/ Refused
Scan == OnLoaded \/ OnEmptyList \/ OnList \/ ScanRefused \/ ScanLine \/ ScanDone
Join == AskWhoAmI \/ OnMe \/ OnMember \/ StopOnLine
Flow == LoadChats \/ Wait \/ Scan \/ Join
Tdlib == TdAnswer \/ TdMark \/ TdUpdate \/ TdNoise
Next == Flow \/ PassDeadline \/ Tdlib \/ Finished
Spec == Init /\ [][Next]_vars

\* The thread is scheduled and time passes; TDLib need not answer.
FairSpec == Spec /\ WF_vars(Flow) /\ WF_vars(PassDeadline)

-----------------------------------------------------------------------------
(* Properties.                                                             *)

Refusal == \E a \in answers : a.type = "error"

TypeOK ==
  /\ step \in Steps /\ receiving \in BOOLEAN
  /\ wanted \in OptExtras
  /\ pending \subseteq Extras
  /\ found \in Channels \cup {NoChat}
  /\ sponsored \in {"none", "yes", "no", "unknown"}
  /\ joined \in {"none", "yes", "no"}
  /\ \A r \in sent : r.extra \in Extras /\ r.chat \in Chats \cup {NoChat}
  /\ marked \subseteq Chats /\ told \subseteq Chats

\* README.md: "If every getChat completes and none match, sponsored.no": a "no"
\* means TDLib answered the getChat of every chat it listed, up to the cap, and
\* showed none of them as a marked channel.
Unmarked(c) == \E a \in answers : /\ a.type = "chat" /\ a.body.chat = c
                                 /\ ~(a.body.marked /\ c \in Channels)
NoIsComplete ==
  sponsored = "no" =>
    \E l \in answers :
      /\ l.type = "chats"
      /\ \A i \in DOMAIN l.body : i <= SPONSOR_SCAN_GET_CHAT_MAX => Unmarked(l.body[i])

\* A "yes" names a channel that TDLib showed to this very client as the sponsor
\* of the proxy, never one of an earlier client or a marked group.
YesIsGenuine == sponsored = "yes" => found \in told \cap Channels

\* README.md: unknown is for requests that fail or are not answered in time.
UnknownHasCause == sponsored = "unknown" => late \/ Refusal

\* subscription.joined tells what TDLib answered about the sponsored channel.
JoinedIsAboutSponsor ==
  joined # "none" =>
    /\ sponsored = "yes"
    /\ \E r \in sent, a \in answers :
         /\ r.extra.req = "getChatMember" /\ a.extra = r.extra /\ r.chat = found
         /\ a.type = "chatMember" /\ (joined = "yes") = (a.body \in Members)

\* The flow returns once the deadline has passed, whatever TDLib does.
DeadlineEndsScan == late ~> (step = "returned")

\* README.md: "getMe + getChatMember set subscription.joined when TDLib returns
\* chatMember", as long as the deadline has not passed.
JoinedIsReported ==
  step = "returned" /\ ~late /\ joined = "none" =>
    ~\E a \in answers : a.type = "chatMember" /\ a.body \in Statuses \ {"Unlisted"}

=============================================================================
