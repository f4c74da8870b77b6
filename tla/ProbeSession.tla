---------------------------- MODULE ProbeSession ----------------------------
(***************************************************************************)
(* One call of probe_proxy (src/tdlib_live.rs): the probe's thread drives  *)
(* one TDLib client from getAuthorizationState to a verdict, then runs the *)
(* sponsor scan and closes the client.  The thread, TDLib's own threads,   *)
(* the user at stdin and the wall clock interleave; TDLib's lines reach    *)
(* the thread through one FIFO (td_receive).                               *)
(*                                                                         *)
(* TDLib is external: it may answer an open request at any time or never,  *)
(* with success or error, and report any change of its authorization state *)
(* once it has its parameters.                                             *)
(***************************************************************************)
EXTENDS TdJson, Sequences

CONSTANTS
  Settings,        \* the command lines probed: [interactive, mtproto : BOOLEAN]
  ReportedStates,  \* states TDLib may report to a client of a given command line
  MaxReports,      \* bound: authorization state changes TDLib reports
  MaxNoise,        \* bound: lines that are not about this client's requests, by command line
  MaxInbox         \* bound: lines waiting in td_receive

SettingsType == [interactive : BOOLEAN, mtproto : BOOLEAN]

ASSUME SettingsAssumption == Settings \subseteq SettingsType
ASSUME ReportsAssumption == ReportedStates \in [SettingsType -> SUBSET AuthStates]
ASSUME BoundsAssumption ==
  MaxReports \in Nat /\ MaxNoise \in [SettingsType -> Nat] /\ MaxInbox \in Nat

VARIABLES
  settings,             \* --auth-session given? MTProto link?
  pc,                   \* where the probe's thread is
  authorization_state,  \* the last state a line of this client told
  set_params_sent, extra_auth, add_proxy_extra, ping_extra, ping_result,
  interactive_proxy_registered,
  prompt,               \* the state the user is being asked about, at "stdin"
  promo_extra,          \* extra of the getAuthorizationState sent after the ping
  result,               \* what probe_proxy will return
  late,                 \* the probe's deadline has passed
  closeLate,            \* the 3 s of send_close have passed
  extra_counter,        \* EXTRA_COUNTER
  sent,                 \* extras of the requests sent to TDLib so far
  inbox,                \* lines td_receive has not returned yet
  answers,              \* the lines with which TDLib answered requests
  tdAuth,               \* TDLib's authorization state
  reports, noise        \* lines of either kind so far (bounded)

loopVars == <<set_params_sent, add_proxy_extra, ping_extra, ping_result,
              interactive_proxy_registered>>
fixedVars == <<settings, extra_auth, promo_extra>>
clockVars == <<late, closeLate>>
sendVars == <<extra_counter, sent>>
tdVars == <<answers, tdAuth, reports, noise>>
threadVars == <<pc, authorization_state, loopVars, fixedVars, prompt, result, sendVars>>
vars == <<threadVars, clockVars, inbox, tdVars>>

Pcs == {"start", "loop", "receiving", "stdin", "waitReady", "waitReadyReceiving",
        "scan", "scanning", "closing", "closeReceiving", "done"}
Verdicts == {"ok", "failed", "TdlibInit", "Internal", "Timeout"}

Init ==
  /\ settings \in Settings
  /\ pc = "start"
  /\ authorization_state = "none"
  /\ set_params_sent = FALSE
  /\ extra_auth = None /\ add_proxy_extra = None /\ ping_extra = None
  /\ ping_result = "none"
  /\ interactive_proxy_registered = FALSE
  /\ prompt = "none"
  /\ promo_extra = None
  /\ result = "none"
  /\ late = FALSE /\ closeLate = FALSE
  /\ extra_counter = 1 /\ sent = {}
  /\ inbox = <<>> /\ answers = {}
  /\ tdAuth = "WaitTdlibParameters"
  /\ reports = 0 /\ noise = 0

-----------------------------------------------------------------------------
(* Steps shared by the handlers of the probe's thread.                     *)

\* A step that moves the thread and, at most, takes a line off the inbox.
Goto(to) ==
  /\ pc' = to
  /\ UNCHANGED <<authorization_state, loopVars, fixedVars, prompt, result, sendVars,
                 clockVars, tdVars>>

\* send_raw of a request tagged by next_extra; td_send copies it and returns.
NewExtra(req) == Extra(req, extra_counter)
send_raw(req) ==
  /\ sent' = sent \cup {NewExtra(req)}
  /\ extra_counter' = extra_counter + 1

\* td_shutdown_session and the return of the verdict r, up to the wait for Closed.
td_shutdown_session(r) ==
  /\ send_raw("close")
  /\ result' = r
  /\ pc' = "closing"
  /\ UNCHANGED <<loopVars, fixedVars, prompt, clockVars, tdVars>>

\* receive_json_until: the thread enters td_receive only before the deadline; it
\* comes back with nothing if the deadline passed first or a slice went by with
\* no line; else td_receive returns the oldest line.
Enter(from, to, expired) == pc = from /\ ~expired /\ Goto(to) /\ UNCHANGED inbox
Idle(from, to, expired) ==
  pc = from /\ (expired \/ inbox = <<>>) /\ Goto(to) /\ UNCHANGED inbox
Receive(at) == pc = at /\ inbox # <<>> /\ inbox' = Tail(inbox)
line == Head(inbox)

-----------------------------------------------------------------------------
(* Set-up: log stream, directories, client id, first request.              *)

\* td_execute or a directory fails (Internal), or the client id is invalid
\* (TdlibInit): there is no client and nothing is closed.
SetupFails ==
  /\ pc = "start" /\ pc' = "done"
  /\ result' \in {"Internal", "TdlibInit"}
  /\ UNCHANGED <<authorization_state, loopVars, fixedVars, prompt, sendVars, clockVars,
                 inbox, tdVars>>

Setup ==
  /\ pc = "start" /\ pc' = "loop"
  /\ send_raw("getAuthorizationState")
  /\ extra_auth' = NewExtra("getAuthorizationState")
  /\ UNCHANGED <<authorization_state, loopVars, settings, promo_extra, prompt, result,
                 clockVars, inbox, tdVars>>

-----------------------------------------------------------------------------
(* The main loop of probe_proxy: one line per iteration.                   *)

EnterReceive == ping_result = "none" /\ Enter("loop", "receiving", late)
ReceiveIdle == Idle("receiving", "loop", late)

\* The loop is left without a ping result: the deadline passed.
LoopTimeout ==
  /\ pc = "loop" /\ late /\ ping_result = "none"
  /\ td_shutdown_session("Timeout")
  /\ UNCHANGED <<authorization_state, inbox>>

MalformedLine ==
  /\ Receive("receiving") /\ line.type = "malformed"
  /\ td_shutdown_session("Internal")
  /\ UNCHANGED authorization_state

\* A line of this client of one of the given types; note_auth_from_value has
\* recorded its state before any arm runs.
Own(types) ==
  /\ Receive("receiving")
  /\ client_matches(line) /\ line.type \in types
  /\ authorization_state' = note_auth_from_value(line, authorization_state)
OwnState(states, interactive) ==
  Own(AuthTypes) /\ line.body \in states /\ settings.interactive = interactive

\* An arm ends and the loop goes on.
Continue ==
  /\ pc' = "loop"
  /\ UNCHANGED <<fixedVars, prompt, result, clockVars, tdVars>>

\* Mutant of send_ping_with_proxy: no guard against an open ping.
send_ping_again == send_raw("pingProxy") /\ ping_extra' = NewExtra("pingProxy")

\* send_ping_with_proxy: nothing is sent once a ping is open or has a result.
send_ping_with_proxy ==
  IF ping_result = "none" /\ ping_extra = None
  THEN send_raw("pingProxy") /\ ping_extra' = NewExtra("pingProxy")
  ELSE UNCHANGED <<sendVars, ping_extra>>

\* Mutants of try_start_proxy_ping: no guard against an open addProxy; the extra
\* is not kept; the ping is sent in place of the registration.
try_start_again == send_raw("addProxy") /\ add_proxy_extra' = NewExtra("addProxy")
try_start_forgets == send_raw("addProxy") /\ UNCHANGED add_proxy_extra
try_start_pings == send_raw("pingProxy") /\ add_proxy_extra' = NewExtra("pingProxy")

\* try_start_proxy_ping: register the proxy unless that or a ping is under way.
try_start_proxy_ping ==
  IF ping_result = "none" /\ add_proxy_extra = None /\ ping_extra = None
  THEN send_raw("addProxy") /\ add_proxy_extra' = NewExtra("addProxy")
  ELSE UNCHANGED <<sendVars, add_proxy_extra>>

\* handle_auth_state, one action per arm.
SetParameters ==
  /\ Own(AuthTypes) /\ line.body = "WaitTdlibParameters" /\ ~set_params_sent
  /\ send_raw("setTdlibParameters") /\ set_params_sent' = TRUE
  /\ Continue
  /\ UNCHANGED <<add_proxy_extra, ping_extra, ping_result, interactive_proxy_registered>>

\* ensure_before_auth_prompt, then read_line blocks with no deadline.
Prompt ==
  /\ OwnState(LoginStates, TRUE) /\ ~late
  /\ prompt' = line.body
  /\ pc' = "stdin"
  /\ UNCHANGED <<loopVars, fixedVars, result, sendVars, clockVars, tdVars>>

PromptTooLate ==
  /\ OwnState(LoginStates, TRUE) /\ late
  /\ td_shutdown_session("Timeout")

\* Without --auth-session the proxy is tried before any login ...
StartBeforeLogin ==
  /\ OwnState({"WaitPhoneNumber"}, FALSE)
  /\ try_start_proxy_ping
  /\ Continue
  /\ UNCHANGED <<set_params_sent, ping_extra, ping_result, interactive_proxy_registered>>

\* ... with it only after Ready.
StartWhenReady ==
  /\ OwnState({"Ready"}, TRUE) /\ ~interactive_proxy_registered
  /\ try_start_proxy_ping
  /\ Continue
  /\ UNCHANGED <<set_params_sent, ping_extra, ping_result, interactive_proxy_registered>>

\* Mutant of PingWhenReady: the registration is not waited for.
PingOnReady ==
  /\ OwnState({"Ready"}, TRUE)
  /\ send_ping_with_proxy
  /\ Continue
  /\ UNCHANGED <<set_params_sent, add_proxy_extra, ping_result,
                 interactive_proxy_registered>>

PingWhenReady ==
  /\ OwnState({"Ready"}, TRUE) /\ interactive_proxy_registered
  /\ send_ping_with_proxy
  /\ Continue
  /\ UNCHANGED <<set_params_sent, add_proxy_extra, ping_result,
                 interactive_proxy_registered>>

IgnoreAuthState ==
  /\ \/ Own(AuthTypes) /\ line.body = "WaitTdlibParameters" /\ set_params_sent
     \/ Own(AuthTypes) /\ line.body \in {"Closed", "Other"}
     \/ OwnState((LoginStates \ {"WaitPhoneNumber"}) \cup {"Ready"}, FALSE)
  /\ Continue /\ UNCHANGED <<loopVars, sendVars>>

\* The user's line at the prompt; an empty one (or end of input) cancels.
EnterLine ==
  /\ pc = "stdin" /\ pc' = "loop"
  /\ send_raw(LoginRequest[prompt])
  /\ prompt' = "none"
  /\ UNCHANGED <<authorization_state, loopVars, fixedVars, result, clockVars, inbox,
                 tdVars>>

EmptyLine ==
  /\ pc = "stdin"
  /\ td_shutdown_session("Internal")
  /\ UNCHANGED <<authorization_state, inbox>>

\* An error answering the ping is a result; one answering any other request the
\* loop knows ends the probe; the rest (close, an old extra) are ignored.
AnswersPing == ping_extra # None /\ line.extra = ping_extra
Fatal ==
  \/ line.extra = extra_auth
  \/ add_proxy_extra # None /\ line.extra = add_proxy_extra
  \/ ~AnswersPing /\ line.extra.req \in LoginRequests \cup {"setTdlibParameters"}

OnFatalError ==
  /\ Own({"error"}) /\ Fatal
  /\ td_shutdown_session("TdlibInit")

\* The arms that record the ping's result and break.
PingResult(r) ==
  /\ ping_result' = r
  /\ Continue
  /\ UNCHANGED <<set_params_sent, add_proxy_extra, ping_extra,
                 interactive_proxy_registered, sendVars>>

\* Mutant of OnPingError: the outcome is recorded as a success.
PingErrorIsOk == Own({"error"}) /\ ~Fatal /\ AnswersPing /\ PingResult("ok")

OnPingError == Own({"error"}) /\ ~Fatal /\ AnswersPing /\ PingResult("err")

\* on_add_proxy_response; the ping follows at once if pingNow holds.
AddedProxy(pingNow) ==
  /\ Own({"proxy"}) /\ add_proxy_extra # None /\ line.extra = add_proxy_extra
  /\ add_proxy_extra' = None
  /\ interactive_proxy_registered' = (interactive_proxy_registered \/ settings.interactive)
  /\ IF pingNow THEN send_ping_with_proxy ELSE UNCHANGED <<sendVars, ping_extra>>
  /\ Continue
  /\ UNCHANGED <<set_params_sent, ping_result>>

\* Mutants of OnAddedProxy: never or always ping at once in a session.
AddedProxyLeavesPing == AddedProxy(~settings.interactive)
AddedProxyPings == AddedProxy(TRUE)

\* An interactive session pings at once only if the last recorded state is
\* Ready; otherwise PingWhenReady does.
OnAddedProxy == AddedProxy(settings.interactive => authorization_state = "Ready")

OnSeconds == Own({"seconds"}) /\ AnswersPing /\ line.body = "parsable" /\ PingResult("ok")
OnBadSeconds ==
  /\ Own({"seconds"}) /\ AnswersPing /\ line.body = "unparsable"
  /\ td_shutdown_session("Internal")

\* A line of another client, and a line no arm acts on.
Unneeded ==
  \/ ~client_matches(line)
  \/ line.type \in {"ok", "update"}
  \/ line.type = "error" /\ ~Fatal /\ ~AnswersPing
  \/ line.type = "proxy" /\ (add_proxy_extra = None \/ line.extra # add_proxy_extra)
  \/ line.type = "seconds" /\ ~AnswersPing

SkipLine ==
  /\ Receive("receiving") /\ line.type # "malformed" /\ Unneeded
  /\ Goto("loop")

-----------------------------------------------------------------------------
(* promo_and_subscription_after_ping, then the shutdown of the session.    *)

\* Mutant of PingVerdict: a failed ping is reported as a success.
AlwaysOk == "ok"

PingVerdict == IF ping_result = "ok" THEN "ok" ELSE "failed"
PingEnded == pc = "loop" /\ ping_result # "none"
ScanWanted == settings.interactive /\ settings.mtproto

NoPromo ==
  /\ PingEnded /\ ~ScanWanted
  /\ td_shutdown_session(PingVerdict)
  /\ UNCHANGED <<authorization_state, inbox>>

\* wait_for_authorization_ready: true at once, or ask again and wait.
PromoReady ==
  /\ PingEnded /\ ScanWanted /\ authorization_state = "Ready"
  /\ Goto("scan") /\ UNCHANGED inbox

PromoAsk ==
  /\ PingEnded /\ ScanWanted /\ authorization_state # "Ready"
  /\ send_raw("getAuthorizationState")
  /\ promo_extra' = NewExtra("getAuthorizationState")
  /\ pc' = "waitReady"
  /\ UNCHANGED <<authorization_state, loopVars, settings, extra_auth, prompt, result,
                 clockVars, inbox, tdVars>>

\* Mutant of EnterWaitReady: the wait does not look at the deadline.
EnterWaitReadyForever == Enter("waitReady", "waitReadyReceiving", FALSE)

EnterWaitReady == Enter("waitReady", "waitReadyReceiving", late)
WaitReadyIdle == Idle("waitReadyReceiving", "waitReady", late)

WaitReadyTimeout ==
  /\ pc = "waitReady" /\ late
  /\ td_shutdown_session(PingVerdict)
  /\ UNCHANGED <<authorization_state, inbox>>

Refused == client_matches(line) /\ line.type = "error" /\ line.extra = promo_extra

WaitReadyError ==
  /\ Receive("waitReadyReceiving") /\ Refused
  /\ td_shutdown_session(PingVerdict)
  /\ UNCHANGED authorization_state

WaitReadyLine ==
  /\ Receive("waitReadyReceiving") /\ ~Refused
  /\ authorization_state' = IF client_matches(line)
                            THEN note_auth_from_value(line, authorization_state)
                            ELSE authorization_state
  /\ pc' = IF authorization_state' = "Ready" THEN "scan" ELSE "waitReady"
  /\ UNCHANGED <<loopVars, fixedVars, prompt, result, sendVars, clockVars, tdVars>>

\* run_mtproto_sponsor_flow seen from here: it sends requests of its own, takes
\* lines off the inbox and comes back.  SponsorScan has its steps.
ScanStart ==
  /\ pc = "scan" /\ pc' = "scanning"
  /\ send_raw("loadChats")
  /\ UNCHANGED <<authorization_state, loopVars, fixedVars, prompt, result, clockVars,
                 inbox, tdVars>>

ScanEnd ==
  /\ pc = "scanning"
  /\ \E k \in 0..Len(inbox) : inbox' = SubSeq(inbox, k + 1, Len(inbox))
  /\ td_shutdown_session(PingVerdict)
  /\ UNCHANGED authorization_state

\* send_close: wait for this client's Closed, at most 3 s.
EnterClose == Enter("closing", "closeReceiving", closeLate)
CloseIdle == Idle("closeReceiving", "closing", closeLate)

\* Mutant of SaysClosed: any authorization state ends the wait.
SaysAnyState == client_matches(line) /\ line.type = "updateAuthorizationState"

SaysClosed ==
  /\ client_matches(line)
  /\ line.type = "updateAuthorizationState" /\ line.body = "Closed"

CloseLine ==
  /\ Receive("closeReceiving")
  /\ Goto(IF SaysClosed THEN "done" ELSE "closing")

CloseTimeout == pc = "closing" /\ closeLate /\ Goto("done") /\ UNCHANGED inbox

-----------------------------------------------------------------------------
(* The clock, and TDLib (external).                                        *)

PassDeadline ==
  /\ pc # "done" /\ ~late /\ late' = TRUE
  /\ UNCHANGED <<threadVars, closeLate, inbox, tdVars>>

PassCloseDeadline ==
  /\ pc \in {"closing", "closeReceiving"} /\ ~closeLate /\ closeLate' = TRUE
  /\ UNCHANGED <<threadVars, late, inbox, tdVars>>

\* A step of TDLib for a client that exists: a line joins the inbox.
Deliver(l) ==
  /\ pc \notin {"start", "done"}
  /\ Len(inbox) < MaxInbox /\ inbox' = Append(inbox, l)
  /\ UNCHANGED <<threadVars, clockVars>>

\* What TDLib may answer to a request.
AnswerTo(x) ==
  LET ok(t, b) == JsonLine("this", t, b, x)
      success ==
        CASE x.req = "getAuthorizationState" -> {ok("authorizationState", tdAuth)}
          [] x.req = "addProxy" -> {ok("proxy", "none")}
          [] x.req = "pingProxy" -> {ok("seconds", b) : b \in {"parsable", "unparsable"}}
          [] OTHER -> {ok("ok", "none")}
  IN success \cup {ok("error", "none")}

\* TDLib answers each request at most once, and refuses the parameters only
\* while it still waits for them.
TdAnswer ==
  /\ \E x \in sent : \E l \in AnswerTo(x) :
       /\ \A a \in answers : a.extra # x
       /\ x.req = "setTdlibParameters" /\ l.type = "error" => tdAuth = "WaitTdlibParameters"
       /\ Deliver(l)
       /\ answers' = answers \cup {l}
  /\ UNCHANGED <<tdAuth, reports, noise>>

ParametersTaken ==
  /\ \E x \in sent : x.req = "setTdlibParameters"
  /\ ~\E a \in answers : a.extra.req = "setTdlibParameters" /\ a.type = "error"
Closing == \E x \in sent : x.req = "close"

\* TDLib says it waits for its parameters, or moves to another authorization
\* state and says so; Closed is final.
TdReport ==
  /\ reports < MaxReports /\ reports' = reports + 1
  /\ \E s \in ReportedStates[settings] \cup {"WaitTdlibParameters"} :
       /\ IF s = "WaitTdlibParameters" THEN tdAuth = s
          ELSE (ParametersTaken \/ Closing) /\ tdAuth \notin {s, "Closed"}
       /\ tdAuth' = s
       /\ Deliver(JsonLine("this", "updateAuthorizationState", s, None))
  /\ UNCHANGED <<answers, noise>>

\* Lines of a client that an earlier probe of the process gave up closing, a line
\* the code has no use for, and bytes that are not JSON.
NoiseLines ==
  {JsonLine("old", "updateAuthorizationState", "Closed", None),
   JsonLine("old", "updateAuthorizationState", "Ready", None),
   JsonLine("old", "error", "none", Extra("setTdlibParameters", 0)),
   JsonLine("this", "update", "none", None),
   JsonLine("this", "malformed", "none", None)}

TdNoise ==
  /\ noise < MaxNoise[settings] /\ noise' = noise + 1
  /\ \E l \in NoiseLines : Deliver(l)
  /\ UNCHANGED <<answers, tdAuth, reports>>

Finished == pc = "done" /\ UNCHANGED vars

-----------------------------------------------------------------------------
OnAuthState ==
  \/ SetParameters \/ Prompt \/ PromptTooLate \/ StartBeforeLogin
  \/ PingWhenReady \/ StartWhenReady \/ IgnoreAuthState
OnLine ==
  \/ MalformedLine \/ SkipLine \/ OnAuthState
  \/ OnFatalError \/ OnPingError
  \/ OnAddedProxy \/ OnSeconds \/ OnBadSeconds
MainLoop == EnterReceive \/ ReceiveIdle \/ LoopTimeout \/ OnLine
Promo ==
  \/ NoPromo \/ PromoReady \/ PromoAsk \/ EnterWaitReady \/ WaitReadyIdle
  \/ WaitReadyTimeout \/ WaitReadyError \/ WaitReadyLine \/ ScanStart \/ ScanEnd
Close == EnterClose \/ CloseIdle \/ CloseLine \/ CloseTimeout

\* Steps of the probe's thread that need nobody else.
Thread == SetupFails \/ Setup \/ MainLoop \/ Promo \/ Close
User == EnterLine \/ EmptyLine
Clock == PassDeadline \/ PassCloseDeadline
Tdlib == TdAnswer \/ TdReport \/ TdNoise

Next == Thread \/ User \/ Clock \/ Tdlib \/ Finished
Spec == Init /\ [][Next]_vars

\* The thread is scheduled and time passes; neither the user nor TDLib need act.
FairSpec == Spec /\ WF_vars(Thread) /\ WF_vars(PassDeadline) /\ WF_vars(PassCloseDeadline)

-----------------------------------------------------------------------------
(* Properties.                                                             *)

Asked(req) == {x \in sent : x.req = req}
AnsweredWith(req, type) == \E a \in answers : a.extra.req = req /\ a.type = type

\* Every variable keeps its type: the options hold extras of the request they
\* are named for.
TypeOK ==
  /\ settings \in SettingsType
  /\ pc \in Pcs
  /\ authorization_state \in AuthStates \cup {"none"}
  /\ set_params_sent \in BOOLEAN /\ interactive_proxy_registered \in BOOLEAN
  /\ extra_auth \in OptExtras /\ promo_extra \in OptExtras
  /\ add_proxy_extra \in OptExtras /\ ping_extra \in OptExtras
  /\ ping_result \in {"none", "ok", "err"}
  /\ prompt \in LoginStates \cup {"none"}
  /\ pc = "stdin" => prompt # "none"
  /\ result \in Verdicts \cup {"none"}
  /\ late \in BOOLEAN /\ closeLate \in BOOLEAN
  /\ extra_counter \in Nat \ {0}
  /\ sent \subseteq Extras
  /\ inbox \in Seq(Lines) /\ answers \subseteq Lines
  /\ tdAuth \in AuthStates
  /\ reports \in Nat /\ noise \in Nat

\* Whatever TDLib reports, repeats or answers late, one probe sends at most one
\* setTdlibParameters, one addProxy and one pingProxy (the guards of
\* handle_auth_state, try_start_proxy_ping and send_ping_with_proxy together).
AtMostOnce ==
  \A req \in {"setTdlibParameters", "addProxy", "pingProxy"} :
    \A x, y \in Asked(req) : x = y

\* The ping is measured through the proxy: pingProxy is never sent before TDLib
\* has registered the proxy this probe asked it to add.
PingNeedsProxy == Asked("pingProxy") # {} => AnsweredWith("addProxy", "proxy")

\* No lost wake-up: a thread that goes back to waiting has already acted on the
\* state it has recorded.  A ready --auth-session is always being registered or
\* pinged, an anonymous probe past its parameters too, even when addProxy was
\* answered while TDLib had left Ready.
NoLostWakeUp ==
  pc \in {"loop", "receiving"} /\ ping_result = "none" =>
    /\ authorization_state = "WaitTdlibParameters" => set_params_sent
    /\ \/ authorization_state = "WaitPhoneNumber" /\ ~settings.interactive
       \/ authorization_state = "Ready" /\ settings.interactive
       => add_proxy_extra # None \/ ping_extra # None

\* Each verdict is due to what TDLib told this client, or to the clock: a report
\* to an answer of the ping, an init error to the refusal of a request that set
\* the session up, a timeout to the deadline.  Lines of an earlier client never
\* decide it.
VerdictJustified ==
  sent # {} =>
    /\ result = "ok" => \E a \in answers : /\ a.extra.req = "pingProxy"
                                           /\ a.type = "seconds" /\ a.body = "parsable"
    /\ result = "failed" => AnsweredWith("pingProxy", "error")
    /\ result = "TdlibInit" =>
         \E req \in LoginRequests \cup {"getAuthorizationState", "setTdlibParameters",
                                        "addProxy"} : AnsweredWith(req, "error")
    /\ result = "Timeout" => late

\* README.md "Design note": every exit path after td_create_client_id runs close.
\* The close is the last request of the session, and probe_proxy returns early
\* only when it heard this client's own Closed.
ClosedBeforeReturn ==
  /\ \A x \in Asked("close") : x.n = extra_counter - 1
  /\ pc = "done" /\ sent # {} =>
       Asked("close") # {} /\ (closeLate \/ tdAuth = "Closed")

\* With --auth-session nothing touches the proxy before the login is complete:
\* a step that sends addProxy or pingProxy leaves the recorded state at Ready.
ProxyOnlyWhenReady ==
  [][settings.interactive /\ (\E x \in sent' \ sent : x.req \in {"addProxy", "pingProxy"})
       => authorization_state' = "Ready"]_vars

\* Once the deadline has passed, a thread that is not blocked at a prompt
\* returns, whatever TDLib does: through the loop, the promo phase and the close.
DeadlineEndsProbe == (late /\ pc # "stdin") ~> (pc = "done")

\* README.md, flags: "--timeout SECONDS | Wall-clock limit for the whole probe".
TimeoutIsWallClockLimit == late ~> (pc = "done")

\* How far the probe got, read off the extras it keeps.
Stage ==
  IF result # "none" THEN "returned"
  ELSE IF ping_result # "none" THEN ping_result
  ELSE IF ping_extra # None THEN "pinging"
  ELSE IF interactive_proxy_registered THEN "added"
  ELSE IF add_proxy_extra # None THEN "adding"
  ELSE "idle"

Promise == INSTANCE ProbePromise WITH stage <- Stage, verdict <- result, expired <- late

\* The message loop keeps the promise made to the caller of probe_proxy: one
\* registration, then one ping, and the verdict is that ping's outcome even when
\* the deadline passes during the promo phase or the close.
KeepsPromise == Promise!Spec

=============================================================================
