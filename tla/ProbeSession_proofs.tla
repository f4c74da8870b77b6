------------------------ MODULE ProbeSession_proofs ------------------------
(***************************************************************************)
(* Theorems about ProbeSession, for any settings, any states TDLib may     *)
(* report and any bounds.                                                  *)
(***************************************************************************)
EXTENDS ProbeSession, TLAPS

States == AuthStates \cup {"none"}

-----------------------------------------------------------------------------
(* What the shared steps do to the types.                                  *)

\* A request tagged by next_extra is an extra, and the counter stays positive.
LEMMA SendRawType ==
  ASSUME NEW req \in Requests, TypeOK, send_raw(req)
  PROVE  /\ NewExtra(req) \in Extras
         /\ sent' \subseteq Extras
         /\ extra_counter' \in Nat \ {0}
  BY DEF TypeOK, send_raw, NewExtra, Extra, Extras

\* What td_receive returns is a line, and lines are what it leaves.
LEMMA ReceiveType ==
  ASSUME TypeOK, NEW at, Receive(at)
  PROVE  line \in Lines /\ inbox' \in Seq(Lines)
  BY DEF TypeOK, Receive, line

\* Recording the state a line tells keeps it a state.
LEMMA NoteType ==
  ASSUME TypeOK, NEW l \in Lines
  PROVE  note_auth_from_value(l, authorization_state) \in States
  BY DEF TypeOK, note_auth_from_value, Lines, States

\* A line of this client carries the state it tells into a typed variable.
LEMMA OwnType ==
  ASSUME TypeOK, NEW types, Own(types)
  PROVE  /\ line \in Lines /\ inbox' \in Seq(Lines)
         /\ authorization_state' \in States
  BY ReceiveType, NoteType DEF Own

\* The steps that only move the thread.
LEMMA GotoType ==
  ASSUME TypeOK, NEW to \in Pcs \ {"stdin"}, Goto(to), inbox' \in Seq(Lines)
  PROVE  TypeOK'
  BY DEF TypeOK, Goto, loopVars, fixedVars, sendVars, clockVars, tdVars

\* The exits of probe_proxy.
LEMMA ShutdownType ==
  ASSUME TypeOK, NEW r \in Verdicts, td_shutdown_session(r),
         authorization_state' \in States, inbox' \in Seq(Lines)
  PROVE  TypeOK'
  <1>1. sent' \subseteq Extras /\ extra_counter' \in Nat \ {0}
    BY SendRawType DEF td_shutdown_session, Requests
  <1> QED
    BY <1>1 DEF TypeOK, td_shutdown_session, States, Pcs, loopVars, fixedVars,
                clockVars, tdVars

\* A line TDLib delivers.
LEMMA DeliverType ==
  ASSUME TypeOK, NEW l \in Lines, Deliver(l)
  PROVE  inbox' \in Seq(Lines)
  BY DEF TypeOK, Deliver

-----------------------------------------------------------------------------
(* Types are preserved by the thread, the user, the clock and TDLib.       *)

\* The set-up keeps the types, failed or not.
LEMMA SetupType == TypeOK /\ (SetupFails \/ Setup) => TypeOK'
  <1> SUFFICES ASSUME TypeOK, SetupFails \/ Setup PROVE TypeOK'
    OBVIOUS
  <1>1. CASE SetupFails
    BY <1>1 DEF SetupFails, TypeOK, Verdicts, Pcs, loopVars, fixedVars, sendVars,
                clockVars, tdVars
  <1>2. CASE Setup
    <2>1. /\ NewExtra("getAuthorizationState") \in Extras
          /\ sent' \subseteq Extras /\ extra_counter' \in Nat \ {0}
      BY <1>2, SendRawType DEF Setup, Requests
    <2> QED
      BY <1>2, <2>1 DEF Setup, TypeOK, Pcs, OptExtras, loopVars, clockVars, tdVars
  <1> QED
    BY <1>1, <1>2

\* Every arm of handle_auth_state keeps the types.
LEMMA OnAuthStateType == TypeOK /\ OnAuthState => TypeOK'
  <1> SUFFICES ASSUME TypeOK, OnAuthState PROVE TypeOK'
    OBVIOUS
  <1> USE DEF OwnState
  <1>own. ASSUME NEW types, Own(types)
          PROVE  /\ line \in Lines /\ inbox' \in Seq(Lines)
                 /\ authorization_state' \in States
    BY <1>own, OwnType
  <1>new. ASSUME NEW req \in Requests, send_raw(req)
          PROVE  /\ NewExtra(req) \in OptExtras
                 /\ sent' \subseteq Extras /\ extra_counter' \in Nat \ {0}
    BY <1>new, SendRawType DEF OptExtras
  <1>ping. ASSUME send_ping_with_proxy
           PROVE  /\ ping_extra' \in OptExtras
                  /\ sent' \subseteq Extras /\ extra_counter' \in Nat \ {0}
    BY <1>ping, <1>new DEF send_ping_with_proxy, TypeOK, sendVars, Requests
  <1>add. ASSUME try_start_proxy_ping
          PROVE  /\ add_proxy_extra' \in OptExtras
                 /\ sent' \subseteq Extras /\ extra_counter' \in Nat \ {0}
    BY <1>add, <1>new DEF try_start_proxy_ping, TypeOK, sendVars, Requests
  <1>1. CASE SetParameters
    BY <1>1, <1>own, <1>new
       DEF SetParameters, Continue, TypeOK, States, Pcs, Requests, fixedVars, clockVars,
           tdVars
  <1>2. CASE Prompt
    BY <1>2, <1>own
       DEF Prompt, TypeOK, States, Pcs, LoginStates, loopVars, fixedVars, sendVars,
           clockVars, tdVars
  <1>3. CASE PromptTooLate
    BY <1>3, <1>own, ShutdownType DEF PromptTooLate, Verdicts
  <1>4. CASE StartBeforeLogin
    BY <1>4, <1>own, <1>add
       DEF StartBeforeLogin, Continue, TypeOK, States, Pcs, fixedVars, clockVars, tdVars
  <1>5. CASE StartWhenReady
    BY <1>5, <1>own, <1>add
       DEF StartWhenReady, Continue, TypeOK, States, Pcs, fixedVars, clockVars, tdVars
  <1>6. CASE PingWhenReady
    BY <1>6, <1>own, <1>ping
       DEF PingWhenReady, Continue, TypeOK, States, Pcs, fixedVars, clockVars, tdVars
  <1>7. CASE IgnoreAuthState
    <2>1. inbox' \in Seq(Lines) /\ authorization_state' \in States
      BY <1>7, <1>own DEF IgnoreAuthState
    <2> QED
      BY <1>7, <2>1
         DEF IgnoreAuthState, Continue, TypeOK, States, Pcs, loopVars, fixedVars,
             sendVars, clockVars, tdVars
  <1> QED
    BY <1>1, <1>2, <1>3, <1>4, <1>5, <1>6, <1>7 DEF OnAuthState

\* The arms for answers (errors, proxy, seconds) keep the types.
LEMMA OnAnswerType ==
  TypeOK /\ (OnFatalError \/ OnPingError \/ OnAddedProxy \/ OnSeconds \/ OnBadSeconds)
    => TypeOK'
  <1> SUFFICES ASSUME TypeOK,
                      OnFatalError \/ OnPingError \/ OnAddedProxy \/ OnSeconds \/ OnBadSeconds
               PROVE  TypeOK'
    OBVIOUS
  <1>own. ASSUME NEW types, Own(types)
          PROVE  inbox' \in Seq(Lines) /\ authorization_state' \in States
    BY <1>own, OwnType
  <1>result. ASSUME NEW types, Own(types), NEW r \in {"ok", "err"}, PingResult(r)
             PROVE  TypeOK'
    BY <1>result, <1>own
       DEF PingResult, Continue, TypeOK, States, Pcs, fixedVars, sendVars, clockVars,
           tdVars
  <1>1. CASE OnFatalError
    BY <1>1, <1>own, ShutdownType DEF OnFatalError, Verdicts
  <1>2. CASE OnPingError
    BY <1>2, <1>result DEF OnPingError
  <1>3. CASE OnAddedProxy
    <2>1. /\ ping_extra' \in OptExtras
          /\ sent' \subseteq Extras /\ extra_counter' \in Nat \ {0}
      BY <1>3, SendRawType
         DEF OnAddedProxy, AddedProxy, send_ping_with_proxy, TypeOK, sendVars, Requests,
             OptExtras
    <2>2. inbox' \in Seq(Lines) /\ authorization_state' \in States
      BY <1>3, <1>own DEF OnAddedProxy, AddedProxy
    <2>3. /\ add_proxy_extra' \in OptExtras
          /\ interactive_proxy_registered' \in BOOLEAN
      BY <1>3 DEF OnAddedProxy, AddedProxy, OptExtras, TypeOK, SettingsType
    <2> QED
      BY <1>3, <2>1, <2>2, <2>3
         DEF OnAddedProxy, AddedProxy, Continue, TypeOK, States, Pcs, fixedVars,
             clockVars, tdVars
  <1>4. CASE OnSeconds
    BY <1>4, <1>result DEF OnSeconds
  <1>5. CASE OnBadSeconds
    BY <1>5, <1>own, ShutdownType DEF OnBadSeconds, Verdicts
  <1> QED
    BY <1>1, <1>2, <1>3, <1>4, <1>5

\* So does the main loop of probe_proxy as a whole.
LEMMA MainLoopType == TypeOK /\ MainLoop => TypeOK'
  <1> SUFFICES ASSUME TypeOK, MainLoop PROVE TypeOK'
    OBVIOUS
  <1> authorization_state \in States /\ inbox \in Seq(Lines)
    BY DEF TypeOK, States
  <1>1. CASE EnterReceive
    BY <1>1, GotoType DEF EnterReceive, Enter, Pcs
  <1>2. CASE ReceiveIdle
    BY <1>2, GotoType DEF ReceiveIdle, Idle, Pcs
  <1>3. CASE LoopTimeout
    BY <1>3, ShutdownType DEF LoopTimeout, Verdicts
  <1>4. CASE MalformedLine
    BY <1>4, ShutdownType, ReceiveType DEF MalformedLine, Verdicts
  <1>5. CASE SkipLine
    BY <1>5, GotoType, ReceiveType DEF SkipLine, Pcs
  <1> QED
    BY <1>1, <1>2, <1>3, <1>4, <1>5, OnAuthStateType, OnAnswerType DEF MainLoop, OnLine

\* Entering a line at a prompt, or cancelling, keeps the types.
LEMMA UserType == TypeOK /\ User => TypeOK'
  <1> SUFFICES ASSUME TypeOK, User PROVE TypeOK'
    OBVIOUS
  <1>1. CASE EnterLine
    <2>1. LoginRequest[prompt] \in Requests
      BY <1>1 DEF EnterLine, TypeOK, LoginRequest, LoginRequests, LoginStates, Requests
    <2>2. sent' \subseteq Extras /\ extra_counter' \in Nat \ {0}
      BY <1>1, <2>1, SendRawType DEF EnterLine
    <2> QED
      BY <1>1, <2>2
         DEF EnterLine, TypeOK, Pcs, loopVars, fixedVars, clockVars, tdVars
  <1>2. CASE EmptyLine
    BY <1>2, ShutdownType DEF EmptyLine, TypeOK, States, Verdicts
  <1> QED
    BY <1>1, <1>2 DEF User

\* The promo phase keeps the types: wait_for_authorization_ready and the scan.
LEMMA PromoType == TypeOK /\ Promo => TypeOK'
  <1> SUFFICES ASSUME TypeOK, Promo PROVE TypeOK'
    OBVIOUS
  <1> authorization_state \in States /\ inbox \in Seq(Lines) /\ PingVerdict \in Verdicts
    BY DEF TypeOK, States, PingVerdict, Verdicts
  <1>1. CASE NoPromo
    BY <1>1, ShutdownType DEF NoPromo
  <1>2. CASE PromoReady
    BY <1>2, GotoType DEF PromoReady, Pcs
  <1>3. CASE PromoAsk
    <2>1. /\ NewExtra("getAuthorizationState") \in Extras
          /\ sent' \subseteq Extras /\ extra_counter' \in Nat \ {0}
      BY <1>3, SendRawType DEF PromoAsk, Requests
    <2> QED
      BY <1>3, <2>1 DEF PromoAsk, TypeOK, Pcs, OptExtras, loopVars, clockVars, tdVars
  <1>4. CASE EnterWaitReady
    BY <1>4, GotoType DEF EnterWaitReady, Enter, Pcs
  <1>5. CASE WaitReadyIdle
    BY <1>5, GotoType DEF WaitReadyIdle, Idle, Pcs
  <1>6. CASE WaitReadyTimeout
    BY <1>6, ShutdownType DEF WaitReadyTimeout
  <1>7. CASE WaitReadyError
    BY <1>7, ShutdownType, ReceiveType DEF WaitReadyError
  <1>8. CASE WaitReadyLine
    <2>1. inbox' \in Seq(Lines) /\ authorization_state' \in States
      BY <1>8, ReceiveType, NoteType DEF WaitReadyLine
    <2> QED
      BY <1>8, <2>1
         DEF WaitReadyLine, TypeOK, States, Pcs, loopVars, fixedVars, sendVars, clockVars,
             tdVars
  <1>9. CASE ScanStart
    <2>1. sent' \subseteq Extras /\ extra_counter' \in Nat \ {0}
      BY <1>9, SendRawType DEF ScanStart, Requests
    <2> QED
      BY <1>9, <2>1 DEF ScanStart, TypeOK, Pcs, loopVars, fixedVars, clockVars, tdVars
  <1>10. CASE ScanEnd
    <2>1. PICK k \in 0..Len(inbox) : inbox' = SubSeq(inbox, k + 1, Len(inbox))
      BY <1>10 DEF ScanEnd
    <2>2. inbox' \in Seq(Lines)
      BY <2>1
    <2> QED
      BY <1>10, <2>2, ShutdownType DEF ScanEnd
  <1> QED
    BY <1>1, <1>2, <1>3, <1>4, <1>5, <1>6, <1>7, <1>8, <1>9, <1>10 DEF Promo

\* send_close keeps the types.
LEMMA CloseType == TypeOK /\ Close => TypeOK'
  <1> SUFFICES ASSUME TypeOK, Close PROVE TypeOK'
    OBVIOUS
  <1> inbox \in Seq(Lines)
    BY DEF TypeOK
  <1>1. CASE EnterClose
    BY <1>1, GotoType DEF EnterClose, Enter, Pcs
  <1>2. CASE CloseIdle
    BY <1>2, GotoType DEF CloseIdle, Idle, Pcs
  <1>3. CASE CloseLine
    BY <1>3, GotoType, ReceiveType DEF CloseLine, Pcs
  <1>4. CASE CloseTimeout
    BY <1>4, GotoType DEF CloseTimeout, Pcs
  <1> QED
    BY <1>1, <1>2, <1>3, <1>4 DEF Close

\* The passing of either deadline keeps the types.
LEMMA ClockType == TypeOK /\ Clock => TypeOK'
  BY DEF Clock, PassDeadline, PassCloseDeadline, TypeOK, threadVars, loopVars, fixedVars,
         sendVars, tdVars

\* Every answer AnswerTo allows is a line of this client that carries the extra
\* it answers.
LEMMA AnswerToType ==
  ASSUME TypeOK, NEW x \in sent, NEW l \in AnswerTo(x)
  PROVE  l \in Lines /\ l.client = "this" /\ l.extra = x
  BY DEF TypeOK, AnswerTo, JsonLine, Lines, LineTypes, AuthTypes, Bodies, OptExtras

\* TDLib's answers, reports and other lines keep the types.
LEMMA TdlibType == TypeOK /\ Tdlib => TypeOK'
  <1> SUFFICES ASSUME TypeOK, Tdlib PROVE TypeOK'
    OBVIOUS
  <1>frame. ASSUME NEW l, Deliver(l)
            PROVE  UNCHANGED <<threadVars, clockVars>>
    BY <1>frame DEF Deliver
  <1>1. CASE TdAnswer
    <2>1. PICK x \in sent : \E l \in AnswerTo(x) : Deliver(l) /\ answers' = answers \cup {l}
      BY <1>1 DEF TdAnswer
    <2>2. PICK l \in AnswerTo(x) : Deliver(l) /\ answers' = answers \cup {l}
      BY <2>1
    <2>3. inbox' \in Seq(Lines) /\ answers' \subseteq Lines
      BY <2>2, AnswerToType, DeliverType DEF TypeOK
    <2> QED
      BY <1>1, <2>2, <2>3, <1>frame
         DEF TdAnswer, TypeOK, threadVars, loopVars, fixedVars, sendVars, clockVars
  <1>2. CASE TdReport
    <2>1. PICK s \in ReportedStates[settings] \cup {"WaitTdlibParameters"} :
             /\ tdAuth' = s
             /\ Deliver(JsonLine("this", "updateAuthorizationState", s, None))
      BY <1>2 DEF TdReport
    <2>2. s \in AuthStates
      BY <2>1, ReportsAssumption DEF TypeOK, AuthStates
    <2>3. JsonLine("this", "updateAuthorizationState", s, None) \in Lines
      BY <2>2 DEF JsonLine, Lines, LineTypes, AuthTypes, Bodies, OptExtras
    <2>4. inbox' \in Seq(Lines)
      BY <2>1, <2>3, DeliverType
    <2> QED
      BY <1>2, <2>1, <2>2, <2>4, <1>frame
         DEF TdReport, TypeOK, threadVars, loopVars, fixedVars, sendVars, clockVars
  <1>3. CASE TdNoise
    <2>1. PICK l \in NoiseLines : Deliver(l)
      BY <1>3 DEF TdNoise
    <2>2. l \in Lines
      BY DEF NoiseLines, JsonLine, Lines, LineTypes, AuthTypes, AuthStates, Bodies,
             OptExtras, Extras, Extra, Requests
    <2>3. inbox' \in Seq(Lines)
      BY <2>1, <2>2, DeliverType
    <2> QED
      BY <1>3, <2>1, <2>3, <1>frame
         DEF TdNoise, TypeOK, threadVars, loopVars, fixedVars, sendVars, clockVars
  <1> QED
    BY <1>1, <1>2, <1>3 DEF Tdlib

\* Every variable keeps its type, whatever TDLib answers or reports and whenever
\* the deadlines pass.
THEOREM TypeCorrect == Spec => []TypeOK
  <1>1. Init => TypeOK
    <2> SUFFICES ASSUME Init PROVE TypeOK
      OBVIOUS
    <2>1. settings \in SettingsType
      BY SettingsAssumption DEF Init
    <2>2. inbox \in Seq(Lines) /\ sent \subseteq Extras /\ answers \subseteq Lines
      BY DEF Init
    <2>3. /\ extra_auth \in OptExtras /\ promo_extra \in OptExtras
          /\ add_proxy_extra \in OptExtras /\ ping_extra \in OptExtras
      BY DEF Init, OptExtras
    <2>4. extra_counter \in Nat \ {0} /\ reports \in Nat /\ noise \in Nat
      BY DEF Init
    <2> QED
      BY <2>1, <2>2, <2>3, <2>4 DEF Init, TypeOK, Pcs, AuthStates
  <1>2. TypeOK /\ [Next]_vars => TypeOK'
    <2> SUFFICES ASSUME TypeOK, [Next]_vars PROVE TypeOK'
      OBVIOUS
    <2>1. CASE UNCHANGED vars
      BY <2>1 DEF vars, threadVars, loopVars, fixedVars, sendVars, clockVars, tdVars, TypeOK
    <2> QED
      BY <2>1, SetupType, MainLoopType, UserType, PromoType, CloseType, ClockType, TdlibType
         DEF Next, Thread, Finished
  <1> QED
    BY <1>1, <1>2, PTL DEF Spec

-----------------------------------------------------------------------------
(* The requests a probe sends: the inductive invariant.                    *)

Tracked == {"setTdlibParameters", "addProxy", "pingProxy"}
Waiting == {inbox[i] : i \in DOMAIN inbox}

\* The options hold extras of requests that were really sent.
Kept ==
  /\ add_proxy_extra # None => add_proxy_extra \in Asked("addProxy")
  /\ ping_extra # None => ping_extra \in Asked("pingProxy")

\* What the options and flags say was not sent was not sent.
NotYet ==
  /\ ~set_params_sent => Asked("setTdlibParameters") = {}
  /\ ping_extra = None => Asked("pingProxy") = {}
  /\ add_proxy_extra = None /\ ping_extra = None /\ ~interactive_proxy_registered
       => Asked("addProxy") = {}

\* The registration comes before the ping, and the ping before its result.
Progress ==
  /\ ping_result # "none" => ping_extra # None
  /\ add_proxy_extra # None => ping_extra = None /\ ~interactive_proxy_registered
  /\ interactive_proxy_registered =>
       settings.interactive /\ AnsweredWith("addProxy", "proxy")

\* A line that looks like an answer to this client is one.
Mail ==
  \A l \in Waiting : client_matches(l) /\ l.type \in {"proxy", "seconds", "error"}
                       => l \in answers

ReqInv == Kept /\ NotYet /\ Progress /\ Mail /\ AtMostOnce /\ PingNeedsProxy

\* What send_raw adds to the requests of each name.
LEMMA SendAsked ==
  ASSUME TypeOK, NEW req \in Requests, send_raw(req)
  PROVE  /\ sent \subseteq sent'
         /\ Asked(req)' = Asked(req) \cup {NewExtra(req)}
         /\ NewExtra(req) # None
         /\ \A q : q # req => Asked(q)' = Asked(q)
  BY DEF send_raw, Asked, NewExtra, Extra, None, Requests, LoginRequests, LoginRequest,
         LoginStates

\* What the ways of changing the inbox do to the lines that wait.
LEMMA ReceiveWaiting ==
  ASSUME TypeOK, NEW at, Receive(at)
  PROVE  line \in Waiting /\ Waiting' \subseteq Waiting
  BY DEF TypeOK, Receive, line, Waiting

\* A line delivered is the only one to join those that wait.
LEMMA DeliverWaiting ==
  ASSUME TypeOK, NEW l \in Lines, Deliver(l)
  PROVE  Waiting' \subseteq Waiting \cup {l}
  BY DEF TypeOK, Deliver, Waiting

\* An inbox left alone holds the lines it held.
LEMMA SameInboxWaiting ==
  ASSUME UNCHANGED inbox PROVE Waiting' = Waiting
  BY DEF Waiting

\* A step that sends none of the tracked requests and leaves the options alone
\* preserves the invariant.
LEMMA QuietStep ==
  ASSUME TypeOK, ReqInv, UNCHANGED <<loopVars, settings>>,
         \A q \in Tracked : Asked(q)' = Asked(q),
         answers \subseteq answers', Mail'
  PROVE  ReqInv'
  <1>1. \A req, type : AnsweredWith(req, type) => AnsweredWith(req, type)'
    BY DEF AnsweredWith
  <1> QED
    BY <1>1 DEF ReqInv, Kept, NotYet, Progress, AtMostOnce, PingNeedsProxy, Tracked, loopVars

\* Taking lines off the inbox leaves only answers in it.
LEMMA MailShrinks ==
  ASSUME Mail, Waiting' \subseteq Waiting, answers \subseteq answers'
  PROVE  Mail'
  BY DEF Mail

\* The steps that only move the thread preserve the invariant.
LEMMA GotoReq ==
  ASSUME TypeOK, ReqInv, NEW to, Goto(to), Waiting' \subseteq Waiting
  PROVE  ReqInv'
  <1>1. /\ UNCHANGED <<loopVars, settings>> /\ answers \subseteq answers'
        /\ \A q \in Tracked : Asked(q)' = Asked(q)
    BY DEF Goto, fixedVars, sendVars, tdVars, Asked
  <1> QED
    BY <1>1, QuietStep, MailShrinks DEF ReqInv

\* So do the exits of probe_proxy: close is not a tracked request.
LEMMA ShutdownReq ==
  ASSUME TypeOK, ReqInv, NEW r, td_shutdown_session(r), Waiting' \subseteq Waiting
  PROVE  ReqInv'
  <1>1. UNCHANGED <<loopVars, settings>> /\ answers \subseteq answers'
    BY DEF td_shutdown_session, fixedVars, tdVars
  <1>2. \A q \in Tracked : Asked(q)' = Asked(q)
    BY SendAsked DEF td_shutdown_session, Requests, Tracked
  <1> QED
    BY <1>1, <1>2, QuietStep, MailShrinks DEF ReqInv

\* The two steps that register and ping, and the frame they share.
LEMMA AddReq ==
  ASSUME TypeOK, ReqInv, try_start_proxy_ping, Waiting' \subseteq Waiting,
         ~interactive_proxy_registered,
         UNCHANGED <<settings, set_params_sent, ping_extra, ping_result,
                     interactive_proxy_registered, answers>>
  PROVE  ReqInv'
  <1>0. Mail'
    BY MailShrinks DEF ReqInv
  <1>1. CASE UNCHANGED <<sendVars, add_proxy_extra>>
    BY <1>0, <1>1, QuietStep DEF sendVars, loopVars, Asked
  <1>2. CASE /\ ping_result = "none" /\ add_proxy_extra = None /\ ping_extra = None
             /\ send_raw("addProxy") /\ add_proxy_extra' = NewExtra("addProxy")
    <2>1. /\ Asked("addProxy")' = {NewExtra("addProxy")}
          /\ NewExtra("addProxy") # None
          /\ Asked("pingProxy")' = Asked("pingProxy")
          /\ Asked("setTdlibParameters")' = Asked("setTdlibParameters")
      BY <1>2, SendAsked DEF ReqInv, NotYet, Requests
    <2>2. AnsweredWith("addProxy", "proxy")' = AnsweredWith("addProxy", "proxy")
      BY DEF AnsweredWith
    <2> QED
      BY <1>0, <1>2, <2>1, <2>2
         DEF ReqInv, Kept, NotYet, Progress, AtMostOnce, PingNeedsProxy
  <1> QED
    BY <1>1, <1>2 DEF try_start_proxy_ping

\* The ping is preceded by the answer that registers the proxy.
LEMMA PingReq ==
  ASSUME TypeOK, ReqInv, send_ping_with_proxy, Waiting' \subseteq Waiting,
         AnsweredWith("addProxy", "proxy"),
         add_proxy_extra' = None,
         \/ ~settings.interactive /\ UNCHANGED interactive_proxy_registered
         \/ settings.interactive /\ interactive_proxy_registered',
         UNCHANGED <<settings, set_params_sent, ping_result, answers>>
  PROVE  ReqInv'
  <1>0. Mail' /\ AnsweredWith("addProxy", "proxy")'
    BY MailShrinks DEF ReqInv, AnsweredWith
  <1>1. CASE UNCHANGED <<sendVars, ping_extra>> /\ ping_extra # None
    <2>1. \A q : Asked(q)' = Asked(q)
      BY <1>1 DEF Asked, sendVars
    <2> QED
      BY <1>0, <1>1, <2>1 DEF ReqInv, Kept, NotYet, Progress, AtMostOnce, PingNeedsProxy
  <1>2. CASE /\ ping_result = "none" /\ ping_extra = None
             /\ send_raw("pingProxy") /\ ping_extra' = NewExtra("pingProxy")
    <2>1. /\ Asked("pingProxy")' = {NewExtra("pingProxy")}
          /\ NewExtra("pingProxy") # None
          /\ Asked("addProxy")' = Asked("addProxy")
          /\ Asked("setTdlibParameters")' = Asked("setTdlibParameters")
      BY <1>2, SendAsked DEF ReqInv, NotYet, Requests
    <2> QED
      BY <1>0, <1>2, <2>1 DEF ReqInv, Kept, NotYet, Progress, AtMostOnce, PingNeedsProxy
  <1>3. ping_extra # None \/ (ping_result = "none" /\ ping_extra = None)
    BY DEF ReqInv, Progress
  <1> QED
    BY <1>1, <1>2, <1>3 DEF send_ping_with_proxy

\* The arms of handle_auth_state preserve the invariant.
LEMMA AuthStateReq == TypeOK /\ ReqInv /\ OnAuthState => ReqInv'
  <1> SUFFICES ASSUME TypeOK, ReqInv, OnAuthState PROVE ReqInv'
    OBVIOUS
  <1> USE DEF OwnState
  <1>own. ASSUME NEW types, Own(types)
          PROVE  Waiting' \subseteq Waiting
    BY <1>own, ReceiveWaiting DEF Own
  <1>1. CASE SetParameters
    <2>1. /\ Asked("setTdlibParameters")' = {NewExtra("setTdlibParameters")}
          /\ Asked("addProxy")' = Asked("addProxy")
          /\ Asked("pingProxy")' = Asked("pingProxy")
      BY <1>1, SendAsked DEF SetParameters, ReqInv, NotYet, Requests
    <2>2. Mail'
      BY <1>1, <1>own, MailShrinks DEF SetParameters, Continue, tdVars, ReqInv
    <2>3. AnsweredWith("addProxy", "proxy")' = AnsweredWith("addProxy", "proxy")
      BY <1>1 DEF SetParameters, Continue, tdVars, AnsweredWith
    <2> QED
      BY <1>1, <2>1, <2>2, <2>3
         DEF SetParameters, Continue, fixedVars, ReqInv, Kept, NotYet, Progress,
             AtMostOnce, PingNeedsProxy
  <1>2. CASE Prompt
    <2>1. /\ UNCHANGED <<loopVars, settings>> /\ answers \subseteq answers'
          /\ \A q \in Tracked : Asked(q)' = Asked(q)
      BY <1>2 DEF Prompt, fixedVars, sendVars, tdVars, Asked
    <2> QED
      BY <1>2, <2>1, <1>own, QuietStep, MailShrinks DEF Prompt, ReqInv
  <1>3. CASE PromptTooLate
    BY <1>3, <1>own, ShutdownReq DEF PromptTooLate
  <1>4. CASE StartBeforeLogin
    <2>1. ~interactive_proxy_registered
      BY <1>4 DEF StartBeforeLogin, ReqInv, Progress
    <2> QED
      BY <1>4, <2>1, <1>own, AddReq DEF StartBeforeLogin, Continue, fixedVars, tdVars
  <1>5. CASE StartWhenReady
    BY <1>5, <1>own, AddReq DEF StartWhenReady, Continue, fixedVars, tdVars
  <1>6. CASE PingWhenReady
    <2>1. AnsweredWith("addProxy", "proxy") /\ add_proxy_extra = None
      BY <1>6 DEF PingWhenReady, ReqInv, Progress
    <2> QED
      BY <1>6, <2>1, <1>own, PingReq DEF PingWhenReady, Continue, fixedVars, tdVars
  <1>7. CASE IgnoreAuthState
    <2>1. /\ UNCHANGED <<loopVars, settings>> /\ answers \subseteq answers'
          /\ \A q \in Tracked : Asked(q)' = Asked(q)
      BY <1>7 DEF IgnoreAuthState, Continue, fixedVars, sendVars, tdVars, Asked
    <2>2. Waiting' \subseteq Waiting
      BY <1>7, <1>own DEF IgnoreAuthState
    <2> QED
      BY <2>1, <2>2, QuietStep, MailShrinks DEF ReqInv
  <1> QED
    BY <1>1, <1>2, <1>3, <1>4, <1>5, <1>6, <1>7 DEF OnAuthState

\* The arms for answers preserve the invariant.
LEMMA AnswerReq ==
  /\ TypeOK /\ ReqInv
  /\ OnFatalError \/ OnPingError \/ OnAddedProxy \/ OnSeconds \/ OnBadSeconds
  => ReqInv'
  <1> SUFFICES ASSUME TypeOK, ReqInv,
                      OnFatalError \/ OnPingError \/ OnAddedProxy \/ OnSeconds \/ OnBadSeconds
               PROVE  ReqInv'
    OBVIOUS
  <1>own. ASSUME NEW types, Own(types)
          PROVE  line \in Waiting /\ Waiting' \subseteq Waiting
    BY <1>own, ReceiveWaiting DEF Own
  <1>result. ASSUME NEW types, Own(types), AnswersPing, NEW r, PingResult(r)
             PROVE  ReqInv'
    <2>1. \A q : Asked(q)' = Asked(q)
      BY <1>result DEF PingResult, sendVars, Asked
    <2>2. Mail' /\ AnsweredWith("addProxy", "proxy")' = AnsweredWith("addProxy", "proxy")
      BY <1>result, <1>own, MailShrinks
         DEF PingResult, Continue, tdVars, ReqInv, AnsweredWith
    <2> QED
      BY <1>result, <2>1, <2>2
         DEF PingResult, Continue, AnswersPing, fixedVars, ReqInv, Kept, NotYet, Progress,
             AtMostOnce, PingNeedsProxy
  <1>1. CASE OnFatalError
    BY <1>1, <1>own, ShutdownReq DEF OnFatalError
  <1>2. CASE OnPingError
    BY <1>2, <1>result DEF OnPingError
  <1>3. CASE OnAddedProxy
    <2>1. Own({"proxy"}) /\ line.extra = add_proxy_extra /\ add_proxy_extra # None
      BY <1>3 DEF OnAddedProxy, AddedProxy
    <2>2. AnsweredWith("addProxy", "proxy")
      <3>1. line \in answers /\ line.type = "proxy"
        BY <2>1, <1>own DEF ReqInv, Mail, Own
      <3>2. line.extra.req = "addProxy"
        BY <2>1 DEF ReqInv, Kept, Asked
      <3> QED
        BY <3>1, <3>2 DEF AnsweredWith
    <2>3. CASE send_ping_with_proxy
      <3>1. \/ ~settings.interactive /\ UNCHANGED interactive_proxy_registered
            \/ settings.interactive /\ interactive_proxy_registered'
        BY <1>3, <2>1 DEF OnAddedProxy, AddedProxy, ReqInv, Progress, TypeOK
      <3> QED
        BY <1>3, <2>1, <2>2, <2>3, <3>1, <1>own, PingReq
           DEF OnAddedProxy, AddedProxy, Continue, fixedVars, tdVars
    <2>4. CASE UNCHANGED <<sendVars, ping_extra>> /\ settings.interactive
      <3>1. \A q : Asked(q)' = Asked(q)
        BY <2>4 DEF sendVars, Asked
      <3>2. Mail' /\ AnsweredWith("addProxy", "proxy")'
        BY <1>3, <2>1, <2>2, <1>own, MailShrinks
           DEF OnAddedProxy, AddedProxy, Continue, tdVars, ReqInv, AnsweredWith
      <3>3. ping_extra = None /\ interactive_proxy_registered'
        BY <1>3, <2>1, <2>4 DEF OnAddedProxy, AddedProxy, ReqInv, Progress
      <3> QED
        BY <1>3, <2>4, <3>1, <3>2, <3>3
           DEF OnAddedProxy, AddedProxy, Continue, fixedVars, ReqInv, Kept, NotYet,
               Progress, AtMostOnce, PingNeedsProxy
    <2> QED
      BY <1>3, <2>3, <2>4 DEF OnAddedProxy, AddedProxy
  <1>4. CASE OnSeconds
    BY <1>4, <1>result DEF OnSeconds
  <1>5. CASE OnBadSeconds
    BY <1>5, <1>own, ShutdownReq DEF OnBadSeconds
  <1> QED
    BY <1>1, <1>2, <1>3, <1>4, <1>5

\* The other steps of the thread and of the user send requests that are not
\* tracked, or none.
LEMMA ThreadReq ==
  /\ TypeOK /\ ReqInv
  /\ SetupFails \/ Setup \/ MainLoop \/ User \/ Promo \/ Close
  => ReqInv'
  <1> SUFFICES ASSUME TypeOK, ReqInv,
                      SetupFails \/ Setup \/ MainLoop \/ User \/ Promo \/ Close
               PROVE  ReqInv'
    OBVIOUS
  <1>quiet. ASSUME NEW req \in Requests \ Tracked, send_raw(req),
                   UNCHANGED <<loopVars, settings, inbox, answers>>
            PROVE  ReqInv'
    <2>1. \A q \in Tracked : Asked(q)' = Asked(q)
      BY <1>quiet, SendAsked
    <2> QED
      BY <1>quiet, <2>1, SameInboxWaiting, QuietStep, MailShrinks DEF ReqInv
  <1>1. CASE SetupFails
    BY <1>1, QuietStep, SameInboxWaiting, MailShrinks
       DEF SetupFails, fixedVars, sendVars, tdVars, Asked, ReqInv
  <1>2. CASE Setup
    BY <1>2, <1>quiet DEF Setup, tdVars, Requests, Tracked
  <1>3. CASE EnterReceive \/ ReceiveIdle
    BY <1>3, GotoReq, SameInboxWaiting DEF EnterReceive, ReceiveIdle, Enter, Idle
  <1>4. CASE LoopTimeout
    BY <1>4, ShutdownReq, SameInboxWaiting DEF LoopTimeout
  <1>5. CASE MalformedLine
    BY <1>5, ShutdownReq, ReceiveWaiting DEF MalformedLine
  <1>6. CASE SkipLine
    BY <1>6, GotoReq, ReceiveWaiting DEF SkipLine
  <1>7. CASE EnterLine
    <2>1. LoginRequest[prompt] \in Requests \ Tracked
      BY <1>7
         DEF EnterLine, TypeOK, LoginRequest, LoginRequests, LoginStates, Requests, Tracked
    <2> QED
      BY <1>7, <2>1, <1>quiet DEF EnterLine, fixedVars, tdVars
  <1>8. CASE EmptyLine
    BY <1>8, ShutdownReq, SameInboxWaiting DEF EmptyLine
  <1>9. CASE NoPromo \/ WaitReadyTimeout
    BY <1>9, ShutdownReq, SameInboxWaiting DEF NoPromo, WaitReadyTimeout
  <1>10. CASE PromoReady \/ EnterWaitReady \/ WaitReadyIdle
    BY <1>10, GotoReq, SameInboxWaiting
       DEF PromoReady, EnterWaitReady, WaitReadyIdle, Enter, Idle
  <1>11. CASE PromoAsk
    BY <1>11, <1>quiet DEF PromoAsk, tdVars, Requests, Tracked
  <1>12. CASE WaitReadyError
    BY <1>12, ShutdownReq, ReceiveWaiting DEF WaitReadyError
  <1>13. CASE WaitReadyLine
    BY <1>13, QuietStep, ReceiveWaiting, MailShrinks
       DEF WaitReadyLine, fixedVars, sendVars, tdVars, Asked, ReqInv
  <1>14. CASE ScanStart
    BY <1>14, <1>quiet DEF ScanStart, fixedVars, tdVars, Requests, Tracked
  <1>15. CASE ScanEnd
    <2>1. PICK k \in 0..Len(inbox) : inbox' = SubSeq(inbox, k + 1, Len(inbox))
      BY <1>15 DEF ScanEnd
    <2>2. Waiting' \subseteq Waiting
      BY <2>1 DEF TypeOK, Waiting
    <2> QED
      BY <1>15, <2>2, ShutdownReq DEF ScanEnd
  <1>16. CASE EnterClose \/ CloseIdle \/ CloseTimeout
    BY <1>16, GotoReq, SameInboxWaiting DEF EnterClose, CloseIdle, CloseTimeout, Enter, Idle
  <1>17. CASE CloseLine
    BY <1>17, GotoReq, ReceiveWaiting DEF CloseLine
  <1> QED
    BY <1>1, <1>2, <1>3, <1>4, <1>5, <1>6, <1>7, <1>8, <1>9, <1>10, <1>11, <1>12, <1>13,
       <1>14, <1>15, <1>16, <1>17, AuthStateReq, AnswerReq
       DEF MainLoop, OnLine, User, Promo, Close

\* The clock and TDLib preserve the invariant: an answer is given once.
LEMMA EnvironmentReq == TypeOK /\ ReqInv /\ (Clock \/ Tdlib) => ReqInv'
  <1> SUFFICES ASSUME TypeOK, ReqInv, Clock \/ Tdlib PROVE ReqInv'
    OBVIOUS
  <1>frame. ASSUME UNCHANGED threadVars, answers \subseteq answers', Mail'
            PROVE  ReqInv'
    BY <1>frame, QuietStep DEF threadVars, fixedVars, sendVars, Asked
  <1>1. CASE Clock
    BY <1>1, <1>frame, SameInboxWaiting, MailShrinks
       DEF Clock, PassDeadline, PassCloseDeadline, tdVars, ReqInv
  <1>2. CASE TdAnswer
    <2>1. PICK x \in sent : \E l \in AnswerTo(x) : Deliver(l) /\ answers' = answers \cup {l}
      BY <1>2 DEF TdAnswer
    <2>2. PICK l \in AnswerTo(x) : Deliver(l) /\ answers' = answers \cup {l}
      BY <2>1
    <2>3. Waiting' \subseteq Waiting \cup {l}
      BY <2>2, AnswerToType, DeliverWaiting
    <2> QED
      BY <2>2, <2>3, <1>frame DEF Deliver, ReqInv, Mail
  <1>3. CASE TdReport
    <2>1. PICK s \in ReportedStates[settings] \cup {"WaitTdlibParameters"} :
             Deliver(JsonLine("this", "updateAuthorizationState", s, None))
      BY <1>3 DEF TdReport
    <2>2. s \in AuthStates
      BY ReportsAssumption DEF TypeOK, AuthStates
    <2>3. JsonLine("this", "updateAuthorizationState", s, None) \in Lines
      BY <2>2 DEF JsonLine, Lines, LineTypes, AuthTypes, Bodies, OptExtras
    <2>4. Waiting' \subseteq Waiting \cup {JsonLine("this", "updateAuthorizationState", s, None)}
      BY <2>1, <2>3, DeliverWaiting
    <2>5. JsonLine("this", "updateAuthorizationState", s, None).type
            \notin {"proxy", "seconds", "error"}
      BY DEF JsonLine
    <2>6. UNCHANGED answers
      BY <1>3 DEF TdReport
    <2> QED
      BY <2>1, <2>4, <2>5, <2>6, <1>frame DEF Deliver, ReqInv, Mail
  <1>4. CASE TdNoise
    <2>1. PICK l \in NoiseLines : Deliver(l)
      BY <1>4 DEF TdNoise
    <2>2. /\ l \in Lines
          /\ ~(client_matches(l) /\ l.type \in {"proxy", "seconds", "error"})
      BY DEF NoiseLines, JsonLine, client_matches, Lines, LineTypes, AuthTypes, AuthStates,
             Bodies, OptExtras, Extras, Extra, Requests
    <2>3. Waiting' \subseteq Waiting \cup {l}
      BY <2>1, <2>2, DeliverWaiting
    <2>4. UNCHANGED answers
      BY <1>4 DEF TdNoise
    <2> QED
      BY <2>1, <2>2, <2>3, <2>4, <1>frame DEF Deliver, ReqInv, Mail
  <1> QED
    BY <1>1, <1>2, <1>3, <1>4 DEF Tdlib

\* Nothing was sent in the initial state.
LEMMA ReqInit == Init => ReqInv
  BY DEF Init, ReqInv, Kept, NotYet, Progress, Mail, Waiting, AtMostOnce, PingNeedsProxy,
         Asked

\* Every step keeps the invariant of the requests.
LEMMA ReqStep == TypeOK /\ ReqInv /\ [Next]_vars => ReqInv'
  <1> SUFFICES ASSUME TypeOK, ReqInv, [Next]_vars PROVE ReqInv'
    OBVIOUS
  <1>1. CASE UNCHANGED vars
    BY <1>1, QuietStep, SameInboxWaiting, MailShrinks
       DEF vars, threadVars, fixedVars, sendVars, tdVars, Asked, ReqInv
  <1> QED
    BY <1>1, ThreadReq, EnvironmentReq DEF Next, Thread, Finished

\* One setTdlibParameters, one addProxy and one pingProxy at most, and the ping
\* only through a proxy that TDLib has registered for this probe, in every
\* interleaving of the thread, TDLib, the user and the clock.
THEOREM RequestsCorrect == Spec => [](AtMostOnce /\ PingNeedsProxy)
  <1>1. ReqInv => AtMostOnce /\ PingNeedsProxy
    BY DEF ReqInv
  <1> QED
    BY <1>1, ReqInit, ReqStep, TypeCorrect, PTL DEF Spec

-----------------------------------------------------------------------------
(* What the place of the thread says of the other variables.               *)

\* The session is open: nothing was returned yet.
Open == pc \notin {"closing", "closeReceiving", "done"}

Place ==
  /\ pc = "start" => sent = {} /\ authorization_state = "none"
  /\ pc \notin {"start", "done"} => extra_auth.req = "getAuthorizationState"
  /\ Open => result = "none"
  /\ pc \in {"start", "receiving", "stdin"} => ping_result = "none"
  /\ pc \in {"waitReady", "waitReadyReceiving", "scan", "scanning"} => ping_result # "none"
  /\ pc = "stdin" => settings.interactive /\ authorization_state \in LoginStates

\* The close is asked for when the session is left, and TDLib said Closed before
\* a line that says so can wait.
Farewell ==
  /\ Open => Asked("close") = {}
  /\ pc \in {"closing", "closeReceiving"} => Asked("close") # {}
  /\ \A l \in Waiting :
       client_matches(l) /\ l.type = "updateAuthorizationState" /\ l.body = "Closed"
         => tdAuth = "Closed"
  /\ ClosedBeforeReturn

\* The result of the ping was an answer to it.
Measured ==
  /\ ping_result = "ok" => \E a \in answers : /\ a.extra.req = "pingProxy"
                                              /\ a.type = "seconds" /\ a.body = "parsable"
  /\ ping_result = "err" => AnsweredWith("pingProxy", "error")

SessionInv == Place /\ NoLostWakeUp /\ Farewell /\ Measured /\ VerdictJustified

\* Every step keeps what the place of the thread says.
LEMMA PlaceStep == TypeOK /\ Place /\ [Next]_vars => Place'
  <1> SUFFICES ASSUME TypeOK, Place, [Next]_vars PROVE Place'
    OBVIOUS
  <1> USE DEF Place, Open
  <1>frame. ASSUME UNCHANGED threadVars PROVE Place'
    BY <1>frame DEF threadVars, loopVars, fixedVars, sendVars
  <1>exit. ASSUME NEW r, td_shutdown_session(r), pc \notin {"start", "done"} PROVE Place'
    BY <1>exit DEF td_shutdown_session, loopVars, fixedVars
  \* an iteration of the loop ends
  <1>loop. ASSUME pc \in {"receiving", "stdin"}, pc' = "loop",
                  UNCHANGED <<extra_auth, result>>
           PROVE  Place'
    BY <1>loop
  <1>1. CASE SetupFails
    BY <1>1 DEF SetupFails, fixedVars, sendVars
  <1>2. CASE Setup
    BY <1>2 DEF Setup, NewExtra, Extra
  <1>3. CASE EnterReceive
    BY <1>3 DEF EnterReceive, Enter, Goto, loopVars, fixedVars, sendVars
  <1>4. CASE ReceiveIdle
    BY <1>4, <1>loop DEF ReceiveIdle, Idle, Goto, fixedVars
  <1>5. CASE LoopTimeout \/ MalformedLine \/ PromptTooLate \/ OnFatalError \/ OnBadSeconds
    BY <1>5, <1>exit
       DEF LoopTimeout, MalformedLine, PromptTooLate, OnFatalError, OnBadSeconds, OwnState, Own,
           Receive
  <1>6. CASE SkipLine
    BY <1>6, <1>loop DEF SkipLine, Receive, Goto, fixedVars
  <1>7. CASE Prompt
    <2>1. authorization_state' \in LoginStates
      BY <1>7 DEF Prompt, OwnState, Own, note_auth_from_value
    <2> QED
      BY <1>7, <2>1 DEF Prompt, OwnState, Own, Receive, loopVars, fixedVars, sendVars
  <1>8. CASE \/ SetParameters \/ StartBeforeLogin \/ StartWhenReady \/ PingWhenReady
             \/ IgnoreAuthState \/ OnPingError \/ OnSeconds \/ OnAddedProxy
    <2>1. pc = "receiving" /\ Continue
      BY <1>8
         DEF SetParameters, StartBeforeLogin, StartWhenReady, PingWhenReady,
             IgnoreAuthState, OnPingError, OnSeconds, OnAddedProxy, AddedProxy, PingResult,
             OwnState, Own, Receive
    <2> QED
      BY <2>1, <1>loop DEF Continue, fixedVars
  <1>9. CASE EnterLine
    BY <1>9, <1>loop DEF EnterLine, fixedVars
  <1>10. CASE EmptyLine \/ NoPromo \/ WaitReadyTimeout \/ WaitReadyError \/ ScanEnd
    BY <1>10, <1>exit
       DEF EmptyLine, NoPromo, WaitReadyTimeout, WaitReadyError, ScanEnd, PingEnded, Receive
  <1>11. CASE PromoReady
    BY <1>11 DEF PromoReady, PingEnded, Goto, loopVars, fixedVars, sendVars
  <1>12. CASE PromoAsk
    BY <1>12 DEF PromoAsk, PingEnded, loopVars
  <1>13. CASE EnterWaitReady \/ WaitReadyIdle
    BY <1>13 DEF EnterWaitReady, WaitReadyIdle, Enter, Idle, Goto, loopVars, fixedVars, sendVars
  <1>14. CASE WaitReadyLine
    BY <1>14 DEF WaitReadyLine, Receive, loopVars, fixedVars
  <1>15. CASE ScanStart
    BY <1>15 DEF ScanStart, loopVars, fixedVars
  <1>16. CASE Close
    BY <1>16
       DEF Close, EnterClose, CloseIdle, CloseLine, CloseTimeout, Enter, Idle, Receive, Goto,
           loopVars, fixedVars, sendVars
  <1>17. CASE Clock \/ Tdlib \/ UNCHANGED vars
    BY <1>17, <1>frame
       DEF Clock, PassDeadline, PassCloseDeadline, Tdlib, TdAnswer, TdReport, TdNoise,
           Deliver, vars
  <1> QED
    BY <1>1, <1>2, <1>3, <1>4, <1>5, <1>6, <1>7, <1>8, <1>9, <1>10, <1>11, <1>12, <1>13,
       <1>14, <1>15, <1>16, <1>17
       DEF Next, Thread, MainLoop, OnLine, OnAuthState, User, Promo, Finished

\* A step that leaves the loop, or is none of the thread's, wakes nobody.
LEMMA WakeStep == TypeOK /\ Place /\ NoLostWakeUp /\ [Next]_vars => NoLostWakeUp'
  <1> SUFFICES ASSUME TypeOK, Place, NoLostWakeUp, [Next]_vars PROVE NoLostWakeUp'
    OBVIOUS
  <1> USE DEF NoLostWakeUp
  <1>away. ASSUME pc' \notin {"loop", "receiving"} PROVE NoLostWakeUp'
    BY <1>away
  <1>same. ASSUME pc \in {"loop", "receiving"}, UNCHANGED <<authorization_state, loopVars, fixedVars>>
           PROVE  NoLostWakeUp'
    BY <1>same DEF loopVars, fixedVars
  <1>frame. ASSUME UNCHANGED threadVars PROVE NoLostWakeUp'
    BY <1>frame DEF threadVars, loopVars, fixedVars
  <1>1. CASE SetupFails \/ Prompt
    BY <1>1, <1>away DEF SetupFails, Prompt
  <1>2. CASE Setup
    BY <1>2 DEF Setup, Place
  <1>3. CASE EnterReceive \/ ReceiveIdle \/ SkipLine
    BY <1>3, <1>same DEF EnterReceive, ReceiveIdle, SkipLine, Enter, Idle, Receive, Goto
  <1>4. CASE \/ LoopTimeout \/ MalformedLine \/ PromptTooLate \/ OnFatalError \/ OnBadSeconds
             \/ EmptyLine \/ NoPromo \/ WaitReadyTimeout \/ WaitReadyError \/ ScanEnd
    BY <1>4, <1>away
       DEF LoopTimeout, MalformedLine, PromptTooLate, OnFatalError, OnBadSeconds, EmptyLine,
           NoPromo, WaitReadyTimeout, WaitReadyError, ScanEnd, td_shutdown_session
  <1>5. CASE SetParameters
    BY <1>5 DEF SetParameters, Own, note_auth_from_value
  <1>ping. ASSUME send_ping_with_proxy, UNCHANGED <<ping_result>>
           PROVE  ping_result' # "none" \/ ping_extra' # None
    BY <1>ping, SendAsked DEF send_ping_with_proxy, Requests
  <1>6. CASE StartBeforeLogin
    <2>1. authorization_state' = "WaitPhoneNumber"
      BY <1>6 DEF StartBeforeLogin, OwnState, Own, note_auth_from_value
    <2>2. ping_result' # "none" \/ add_proxy_extra' # None \/ ping_extra' # None
      BY <1>6, SendAsked DEF StartBeforeLogin, try_start_proxy_ping, Requests
    <2> QED
      BY <2>1, <2>2
  <1>7. CASE StartWhenReady
    <2>1. authorization_state' = "Ready"
      BY <1>7 DEF StartWhenReady, OwnState, Own, note_auth_from_value
    <2>2. ping_result' # "none" \/ add_proxy_extra' # None \/ ping_extra' # None
      BY <1>7, SendAsked DEF StartWhenReady, try_start_proxy_ping, Requests
    <2> QED
      BY <2>1, <2>2
  <1>8. CASE PingWhenReady
    <2>1. authorization_state' = "Ready"
      BY <1>8 DEF PingWhenReady, OwnState, Own, note_auth_from_value
    <2>2. ping_result' # "none" \/ ping_extra' # None
      BY <1>8, <1>ping DEF PingWhenReady
    <2> QED
      BY <2>1, <2>2
  <1>9. CASE IgnoreAuthState
    <2>1. CASE Own(AuthTypes) /\ line.body = "WaitTdlibParameters" /\ set_params_sent
      BY <2>1, <1>9 DEF IgnoreAuthState, Own, note_auth_from_value, loopVars
    <2>2. CASE Own(AuthTypes) /\ line.body \in {"Closed", "Other"}
      BY <2>2 DEF Own, note_auth_from_value
    <2>3. CASE OwnState((LoginStates \ {"WaitPhoneNumber"}) \cup {"Ready"}, FALSE)
      BY <2>3, <1>9
         DEF IgnoreAuthState, Continue, fixedVars, LoginStates, OwnState, Own,
             note_auth_from_value
    <2> QED
      BY <2>1, <2>2, <2>3, <1>9 DEF IgnoreAuthState
  <1>10. CASE EnterLine
    BY <1>10 DEF EnterLine, Place, LoginStates, loopVars, fixedVars
  <1>11. CASE OnPingError \/ OnSeconds
    BY <1>11 DEF OnPingError, OnSeconds, PingResult
  <1>12. CASE OnAddedProxy
    <2>1. pc = "receiving" /\ authorization_state' = authorization_state
      BY <1>12 DEF OnAddedProxy, AddedProxy, Own, Receive, note_auth_from_value, AuthTypes
    <2>2. UNCHANGED <<settings, set_params_sent, ping_result>>
      BY <1>12 DEF OnAddedProxy, AddedProxy, Continue, fixedVars
    <2>3. CASE settings.interactive => authorization_state = "Ready"
      <3>1. ping_result' # "none" \/ ping_extra' # None
        BY <1>12, <2>2, <2>3, <1>ping DEF OnAddedProxy, AddedProxy
      <3> QED
        BY <2>1, <2>2, <3>1
    <2>4. CASE ~(settings.interactive => authorization_state = "Ready")
      BY <2>1, <2>2, <2>4
    <2> QED
      BY <2>3, <2>4
  <1>13. CASE \/ PromoReady \/ PromoAsk \/ EnterWaitReady \/ WaitReadyIdle \/ WaitReadyLine
              \/ ScanStart \/ Close
    BY <1>13, <1>away
       DEF PromoReady, PromoAsk, EnterWaitReady, WaitReadyIdle, WaitReadyLine, ScanStart,
           Close, EnterClose, CloseIdle, CloseLine, CloseTimeout, Enter, Idle, Goto
  <1>14. CASE Clock \/ Tdlib \/ UNCHANGED vars
    BY <1>14, <1>frame
       DEF Clock, PassDeadline, PassCloseDeadline, Tdlib, TdAnswer, TdReport, TdNoise,
           Deliver, vars
  <1> QED
    BY <1>1, <1>2, <1>3, <1>4, <1>5, <1>6, <1>7, <1>8, <1>9, <1>10, <1>11, <1>12, <1>13, <1>14
       DEF Next, Thread, MainLoop, OnLine, OnAuthState, User, Promo, Finished

-----------------------------------------------------------------------------
(* The close and the verdict.                                              *)

\* A step of the thread or the user in an open session goes on, without asking for
\* the close, or leaves the session by td_shutdown_session.
LEMMA OpenStep ==
  ASSUME TypeOK, Place, Setup \/ MainLoop \/ User \/ Promo
  PROVE  /\ Open /\ Waiting' \subseteq Waiting /\ UNCHANGED <<clockVars, tdVars>>
         /\ \/ Open' /\ UNCHANGED result /\ Asked("close")' = Asked("close")
            \/ \E r : td_shutdown_session(r)
  <1> DEFINE Frame == Open /\ Waiting' \subseteq Waiting /\ UNCHANGED <<clockVars, tdVars>>
             Goes == Open' /\ UNCHANGED result /\ Asked("close")' = Asked("close")
             Leaves == \E r : td_shutdown_session(r)
  <1>quiet. ASSUME UNCHANGED sendVars PROVE Asked("close")' = Asked("close")
    BY <1>quiet DEF sendVars, Asked
  <1>send. ASSUME NEW req \in Requests \ {"close"}, send_raw(req)
           PROVE  Asked("close")' = Asked("close")
    BY <1>send, SendAsked
  <1>same. ASSUME UNCHANGED inbox PROVE Waiting' \subseteq Waiting
    BY <1>same, SameInboxWaiting
  <1>goto. ASSUME NEW to, Goto(to), to \notin {"closing", "closeReceiving", "done"}
           PROVE  Goes /\ UNCHANGED <<clockVars, tdVars>>
    BY <1>goto, <1>quiet DEF Goto, Open
  <1>exit. ASSUME NEW r, td_shutdown_session(r)
           PROVE  Leaves /\ UNCHANGED <<clockVars, tdVars>>
    BY <1>exit DEF td_shutdown_session
  <1>own. ASSUME NEW types, Own(types) PROVE Open /\ Waiting' \subseteq Waiting
    BY <1>own, ReceiveWaiting DEF Own, Receive, Open
  <1>1. CASE Setup
    BY <1>1, <1>send, <1>same DEF Setup, Open, Requests
  <1>2. CASE EnterReceive \/ ReceiveIdle
    BY <1>2, <1>goto, <1>same DEF EnterReceive, ReceiveIdle, Enter, Idle, Open
  <1>3. CASE LoopTimeout
    BY <1>3, <1>exit, <1>same DEF LoopTimeout, Open
  <1>4. CASE MalformedLine
    BY <1>4, <1>exit, ReceiveWaiting DEF MalformedLine, Receive, Open
  <1>5. CASE SkipLine
    BY <1>5, <1>goto, ReceiveWaiting DEF SkipLine, Receive, Open
  <1>6. CASE PromptTooLate \/ OnFatalError \/ OnBadSeconds
    BY <1>6, <1>exit, <1>own DEF PromptTooLate, OnFatalError, OnBadSeconds, OwnState
  <1>7. CASE Prompt
    BY <1>7, <1>own, <1>quiet DEF Prompt, OwnState, Open
  <1>8. CASE \/ SetParameters \/ StartBeforeLogin \/ StartWhenReady \/ PingWhenReady
             \/ IgnoreAuthState \/ OnPingError \/ OnSeconds \/ OnAddedProxy
    <2>1. (\E types : Own(types)) /\ Continue
      BY <1>8
         DEF SetParameters, StartBeforeLogin, StartWhenReady, PingWhenReady,
             IgnoreAuthState, OnPingError, OnSeconds, OnAddedProxy, AddedProxy, PingResult,
             OwnState
    <2>2. \/ UNCHANGED sendVars
          \/ \E req \in Tracked : send_raw(req)
      BY <1>8
         DEF SetParameters, StartBeforeLogin, StartWhenReady, PingWhenReady,
             IgnoreAuthState, OnPingError, OnSeconds, OnAddedProxy, AddedProxy, PingResult,
             send_ping_with_proxy, try_start_proxy_ping, Tracked
    <2>3. Asked("close")' = Asked("close")
      BY <2>2, <1>quiet, <1>send DEF Tracked, Requests
    <2> QED
      BY <2>1, <2>3, <1>own DEF Continue, Open
  <1>9. CASE EnterLine
    <2>1. LoginRequest[prompt] \in Requests \ {"close"}
      BY <1>9
         DEF EnterLine, TypeOK, LoginRequest, LoginRequests, LoginStates, Requests
    <2> QED
      BY <1>9, <2>1, <1>send, <1>same DEF EnterLine, Open
  <1>10. CASE EmptyLine \/ NoPromo \/ WaitReadyTimeout
    BY <1>10, <1>exit, <1>same DEF EmptyLine, NoPromo, PingEnded, WaitReadyTimeout, Open
  <1>11. CASE PromoReady \/ EnterWaitReady \/ WaitReadyIdle
    BY <1>11, <1>goto, <1>same
       DEF PromoReady, PingEnded, EnterWaitReady, WaitReadyIdle, Enter, Idle, Open
  <1>12. CASE PromoAsk \/ ScanStart
    BY <1>12, <1>send, <1>same DEF PromoAsk, PingEnded, ScanStart, Open, Requests
  <1>13. CASE WaitReadyError
    BY <1>13, <1>exit, ReceiveWaiting DEF WaitReadyError, Receive, Open
  <1>14. CASE WaitReadyLine
    BY <1>14, <1>quiet, ReceiveWaiting DEF WaitReadyLine, Receive, Open
  <1>15. CASE ScanEnd
    <2>1. PICK k \in 0..Len(inbox) : inbox' = SubSeq(inbox, k + 1, Len(inbox))
      BY <1>15 DEF ScanEnd
    <2>2. Waiting' \subseteq Waiting
      BY <2>1 DEF TypeOK, Waiting
    <2> QED
      BY <1>15, <2>2, <1>exit DEF ScanEnd, Open
  <1> QED
    BY <1>1, <1>2, <1>3, <1>4, <1>5, <1>6, <1>7, <1>8, <1>9, <1>10, <1>11, <1>12, <1>13,
       <1>14, <1>15
       DEF MainLoop, OnLine, OnAuthState, User, Promo

\* Saying Closed, as send_close takes it.
Says(l) == client_matches(l) /\ l.type = "updateAuthorizationState" /\ l.body = "Closed"

\* An open session is left with one close, the last request.
LEMMA FarewellStep == TypeOK /\ Place /\ Farewell /\ [Next]_vars => Farewell'
  <1> SUFFICES ASSUME TypeOK, Place, Farewell, [Next]_vars PROVE Farewell'
    OBVIOUS
  <1>mail. ASSUME Waiting' \subseteq Waiting, UNCHANGED tdAuth
           PROVE  \A l \in Waiting' : Says(l) => tdAuth' = "Closed"
    BY <1>mail DEF Farewell, Says
  <1>1. CASE SetupFails
    <2>1. UNCHANGED <<sent, inbox, tdAuth>> /\ sent = {} /\ pc' = "done"
      BY <1>1 DEF SetupFails, Place, sendVars, tdVars
    <2>2. Asked("close")' = {}
      BY <2>1 DEF Asked
    <2> QED
      BY <2>1, <2>2, <1>mail, SameInboxWaiting DEF Farewell, ClosedBeforeReturn, Open, Says
  <1>2. CASE Setup \/ MainLoop \/ User \/ Promo
    <2>0. Asked("close") = {}
      BY <1>2, OpenStep DEF Farewell
    <2>1. \A l \in Waiting' : Says(l) => tdAuth' = "Closed"
      BY <1>2, <1>mail, OpenStep DEF tdVars
    <2>2. CASE Open' /\ Asked("close")' = {}
      BY <2>1, <2>2 DEF Farewell, ClosedBeforeReturn, Open, Says
    <2>3. ASSUME NEW r, td_shutdown_session(r) PROVE Farewell'
      <3>1. Asked("close")' = {NewExtra("close")} /\ pc' = "closing"
        BY <2>0, <2>3, SendAsked DEF td_shutdown_session, Requests
      <3>2. NewExtra("close").n = extra_counter' - 1
        BY <2>3 DEF td_shutdown_session, send_raw, NewExtra, Extra, TypeOK
      <3> QED
        BY <2>1, <3>1, <3>2 DEF Farewell, ClosedBeforeReturn, Open, Says
    <2> QED
      BY <1>2, <2>0, <2>2, <2>3, OpenStep
  <1>3. CASE Close
    <2>1. /\ pc \in {"closing", "closeReceiving"}
          /\ UNCHANGED <<sent, extra_counter, closeLate, tdAuth>>
          /\ pc' \in {"closing", "closeReceiving", "done"}
      BY <1>3
         DEF Close, EnterClose, CloseIdle, CloseLine, CloseTimeout, Enter, Idle, Receive,
             Goto, sendVars, clockVars, tdVars
    <2>2. Waiting' \subseteq Waiting
      BY <1>3, ReceiveWaiting, SameInboxWaiting
         DEF Close, EnterClose, CloseIdle, CloseLine, CloseTimeout, Enter, Idle
    <2>3. pc' = "done" => closeLate \/ tdAuth = "Closed"
      <3>1. CASE CloseLine
        <4>1. line \in Waiting
          BY <3>1, ReceiveWaiting DEF CloseLine
        <4> QED
          BY <3>1, <4>1 DEF CloseLine, Goto, SaysClosed, Farewell
      <3>2. CASE EnterClose \/ CloseIdle \/ CloseTimeout
        BY <3>2 DEF EnterClose, CloseIdle, CloseTimeout, Enter, Idle, Goto
      <3> QED
        BY <3>1, <3>2, <1>3 DEF Close
    <2>4. Asked("close")' = Asked("close")
      BY <2>1 DEF Asked
    <2> QED
      BY <2>1, <2>2, <2>3, <2>4, <1>mail DEF Farewell, ClosedBeforeReturn, Open, Says
  <1>frame. ASSUME UNCHANGED <<pc, sent, extra_counter>>, closeLate => closeLate',
                   tdAuth = "Closed" => tdAuth' = "Closed",
                   \A l \in Waiting' : Says(l) => tdAuth' = "Closed"
            PROVE  Farewell'
    <2>1. Asked("close")' = Asked("close")
      BY <1>frame DEF Asked
    <2> QED
      BY <2>1, <1>frame DEF Farewell, ClosedBeforeReturn, Open, Says
  <1>4. CASE Clock \/ UNCHANGED vars
    BY <1>4, <1>frame, <1>mail, SameInboxWaiting
       DEF Clock, PassDeadline, PassCloseDeadline, vars, threadVars, sendVars, tdVars, clockVars
  <1>deliver. ASSUME NEW l \in Lines, Deliver(l), Says(l) => tdAuth' = "Closed",
                     tdAuth = "Closed" => tdAuth' = "Closed"
              PROVE  Farewell'
    <2>1. \A k \in Waiting' : Says(k) => tdAuth' = "Closed"
      BY <1>deliver, DeliverWaiting DEF Farewell, Says
    <2> QED
      BY <2>1, <1>deliver, <1>frame DEF Deliver, threadVars, sendVars, clockVars
  <1>5. CASE TdAnswer
    <2>1. PICK x \in sent : \E l \in AnswerTo(x) : Deliver(l)
      BY <1>5 DEF TdAnswer
    <2>2. PICK l \in AnswerTo(x) : Deliver(l)
      BY <2>1
    <2>3. l \in Lines /\ l.type # "updateAuthorizationState"
      BY <2>2, AnswerToType DEF AnswerTo, JsonLine
    <2> QED
      BY <1>5, <2>2, <2>3, <1>deliver DEF TdAnswer, Says
  <1>6. CASE TdReport
    <2>1. PICK s \in ReportedStates[settings] \cup {"WaitTdlibParameters"} :
             /\ IF s = "WaitTdlibParameters" THEN tdAuth = s
                ELSE (ParametersTaken \/ Closing) /\ tdAuth \notin {s, "Closed"}
             /\ tdAuth' = s
             /\ Deliver(JsonLine("this", "updateAuthorizationState", s, None))
      BY <1>6 DEF TdReport
    <2>2. s \in AuthStates
      BY <2>1, ReportsAssumption DEF TypeOK, AuthStates
    <2>3. JsonLine("this", "updateAuthorizationState", s, None) \in Lines
      BY <2>2 DEF JsonLine, Lines, LineTypes, AuthTypes, Bodies, OptExtras
    <2>4. Says(JsonLine("this", "updateAuthorizationState", s, None)) => tdAuth' = "Closed"
      BY <2>1 DEF Says, JsonLine
    <2>5. tdAuth = "Closed" => tdAuth' = "Closed"
      BY <2>1
    <2> QED
      BY <2>1, <2>3, <2>4, <2>5, <1>deliver
  <1>7. CASE TdNoise
    <2>1. PICK l \in NoiseLines : Deliver(l)
      BY <1>7 DEF TdNoise
    <2>2. l \in Lines /\ ~Says(l)
      BY DEF NoiseLines, JsonLine, client_matches, Says, Lines, LineTypes, AuthTypes, AuthStates,
             Bodies, OptExtras, Extras, Extra, Requests
    <2> QED
      BY <1>7, <2>1, <2>2, <1>deliver DEF TdNoise
  <1> QED
    BY <1>1, <1>2, <1>3, <1>4, <1>5, <1>6, <1>7 DEF Next, Thread, Clock, Tdlib, Finished

\* What was measured stays so, and so does a verdict that was reached.
LEMMA VerdictKept ==
  ASSUME Measured, VerdictJustified, UNCHANGED <<ping_result, result>>,
         sent # {} \/ result = "none", answers \subseteq answers', late => late'
  PROVE  Measured' /\ VerdictJustified'
  <1>1. \A req, type : AnsweredWith(req, type) => AnsweredWith(req, type)'
    BY DEF AnsweredWith
  <1>2. (\E a \in answers : a.extra.req = "pingProxy" /\ a.type = "seconds" /\ a.body = "parsable")
        => \E a \in answers' : a.extra.req = "pingProxy" /\ a.type = "seconds" /\ a.body = "parsable"
    OBVIOUS
  <1>3. Measured'
    BY <1>1, <1>2 DEF Measured
  <1>4. CASE result = "none"
    BY <1>3, <1>4 DEF VerdictJustified
  <1>5. CASE sent # {}
    <2>1. result = "TdlibInit" =>
            \E req \in LoginRequests \cup {"getAuthorizationState", "setTdlibParameters",
                                           "addProxy"} : AnsweredWith(req, "error")'
      BY <1>1, <1>5 DEF VerdictJustified
    <2> QED
      BY <2>1, <1>1, <1>2, <1>3, <1>5 DEF VerdictJustified
  <1> QED
    BY <1>3, <1>4, <1>5

\* The exits, each with its reason.
LEMMA VerdictExit ==
  ASSUME Measured, VerdictJustified, NEW r \in Verdicts, td_shutdown_session(r),
         r = "ok" => ping_result = "ok",
         r = "failed" => ping_result = "err",
         r = "TdlibInit" =>
           \E req \in LoginRequests \cup {"getAuthorizationState", "setTdlibParameters",
                                          "addProxy"} : AnsweredWith(req, "error"),
         r = "Timeout" => late
  PROVE  Measured' /\ VerdictJustified'
  <1>1. /\ UNCHANGED <<ping_result, answers, late>> /\ result' = r
    BY DEF td_shutdown_session, loopVars, tdVars, clockVars
  <1>2. \A req, type : AnsweredWith(req, type)' = AnsweredWith(req, type)
    BY <1>1 DEF AnsweredWith
  <1>3. Measured'
    BY <1>1, <1>2 DEF Measured
  <1> QED
    BY <1>1, <1>2, <1>3 DEF Measured, VerdictJustified

\* Every step keeps the result of the ping and the verdict due to what was answered.
LEMMA VerdictStep ==
  TypeOK /\ ReqInv /\ Place /\ Measured /\ VerdictJustified /\ [Next]_vars
    => Measured' /\ VerdictJustified'
  <1> SUFFICES ASSUME TypeOK, ReqInv, Place, Measured, VerdictJustified, [Next]_vars
               PROVE  Measured' /\ VerdictJustified'
    OBVIOUS
  <1> DEFINE Goal == Measured' /\ VerdictJustified'
  <1>own. ASSUME NEW types, Own(types)
          PROVE  pc = "receiving" /\ client_matches(line) /\ line.type \in types /\ line \in Waiting
    BY <1>own, ReceiveWaiting DEF Own, Receive
  <1>verdict. ASSUME ping_result # "none"
              PROVE  /\ PingVerdict \in Verdicts
                     /\ PingVerdict = "ok" => ping_result = "ok"
                     /\ PingVerdict = "failed" => ping_result = "err"
                     /\ PingVerdict \notin {"TdlibInit", "Timeout"}
    BY <1>verdict DEF PingVerdict, TypeOK, Verdicts
  <1>1. CASE SetupFails
    <2>1. sent' = {} /\ UNCHANGED <<ping_result, answers>> 
      BY <1>1 DEF SetupFails, Place, sendVars, loopVars, tdVars
    <2> QED
      BY <2>1 DEF Measured, VerdictJustified, AnsweredWith
  <1>2. CASE Setup
    BY <1>2, VerdictKept DEF Setup, Place, Open, loopVars, clockVars, tdVars
  <1>open. pc \in {"loop", "receiving", "stdin", "waitReady", "waitReadyReceiving", "scan",
                   "scanning"} => result = "none"
    BY DEF Place, Open
  <1>3. CASE EnterReceive \/ ReceiveIdle \/ SkipLine \/ PromoReady \/ EnterWaitReady \/ WaitReadyIdle
    BY <1>3, <1>open, VerdictKept
       DEF EnterReceive, ReceiveIdle, SkipLine, PromoReady, PingEnded, EnterWaitReady, WaitReadyIdle,
           Enter, Idle, Receive, Goto, loopVars, clockVars, tdVars
  <1>4. CASE LoopTimeout \/ PromptTooLate
    <2>1. td_shutdown_session("Timeout") /\ late
      BY <1>4 DEF LoopTimeout, PromptTooLate
    <2> QED
      BY <2>1, VerdictExit DEF Verdicts
  <1>5. CASE MalformedLine \/ OnBadSeconds \/ EmptyLine
    <2>1. td_shutdown_session("Internal")
      BY <1>5 DEF MalformedLine, OnBadSeconds, EmptyLine
    <2> QED
      BY <2>1, VerdictExit DEF Verdicts
  <1>6. CASE OnFatalError
    <2>1. td_shutdown_session("TdlibInit") /\ pc = "receiving" /\ Fatal
      BY <1>6, <1>own DEF OnFatalError
    <2>2. line \in answers /\ line.type = "error"
      BY <1>6, <1>own DEF OnFatalError, ReqInv, Mail
    <2>3. line.extra.req \in LoginRequests \cup {"getAuthorizationState", "setTdlibParameters",
                                                 "addProxy"}
      <3>1. CASE line.extra = extra_auth
        BY <3>1, <2>1 DEF Place
      <3>2. CASE add_proxy_extra # None /\ line.extra = add_proxy_extra
        BY <3>2 DEF ReqInv, Kept, Asked
      <3>3. CASE line.extra.req \in LoginRequests \cup {"setTdlibParameters"}
        BY <3>3
      <3> QED
        BY <3>1, <3>2, <3>3, <2>1 DEF Fatal
    <2>4. \E req \in LoginRequests \cup {"getAuthorizationState", "setTdlibParameters",
                                          "addProxy"} : AnsweredWith(req, "error")
      BY <2>2, <2>3 DEF AnsweredWith
    <2> QED
      BY <2>1, <2>4, VerdictExit DEF Verdicts
  <1>7. CASE OnPingError \/ OnSeconds
    <2>1. /\ line \in answers
          /\ \/ line.type = "error" /\ ping_result' = "err"
             \/ line.type = "seconds" /\ line.body = "parsable" /\ ping_result' = "ok"
      BY <1>7, <1>own DEF OnPingError, OnSeconds, PingResult, ReqInv, Mail
    <2>2. line.extra.req = "pingProxy"
      BY <1>7 DEF OnPingError, OnSeconds, AnswersPing, ReqInv, Kept, Asked
    <2>3. UNCHANGED <<answers, result>> /\ result = "none"
      BY <1>7, <1>own, <1>open DEF OnPingError, OnSeconds, PingResult, Continue, tdVars
    <2>4. Measured'
      BY <2>1, <2>2, <2>3 DEF Measured, AnsweredWith
    <2> QED
      BY <2>3, <2>4 DEF VerdictJustified
  <1>8. CASE SetParameters \/ StartBeforeLogin \/ StartWhenReady \/ PingWhenReady \/ IgnoreAuthState
             \/ OnAddedProxy \/ Prompt
    <2>1. result = "none"
      BY <1>8, <1>open
         DEF SetParameters, StartBeforeLogin, StartWhenReady, PingWhenReady,
             IgnoreAuthState, OnAddedProxy, AddedProxy, Prompt, OwnState, Own, Receive
    <2>2. UNCHANGED <<ping_result, result, answers, late>>
      BY <1>8
         DEF SetParameters, StartBeforeLogin, StartWhenReady, PingWhenReady, IgnoreAuthState,
             OnAddedProxy, AddedProxy, Prompt, Continue, loopVars, clockVars, tdVars
    <2> QED
      BY <2>1, <2>2, VerdictKept
  <1>9. CASE EnterLine \/ PromoAsk \/ ScanStart \/ WaitReadyLine
    BY <1>9, <1>open, VerdictKept
       DEF EnterLine, PromoAsk, PingEnded, ScanStart, WaitReadyLine, Receive, loopVars, clockVars, tdVars
  <1>10. CASE NoPromo \/ WaitReadyTimeout \/ WaitReadyError \/ ScanEnd
    <2>1. td_shutdown_session(PingVerdict)
      BY <1>10 DEF NoPromo, WaitReadyTimeout, WaitReadyError, ScanEnd
    <2>2. ping_result # "none"
      BY <1>10 DEF NoPromo, PingEnded, WaitReadyTimeout, WaitReadyError, ScanEnd, Receive, Place
    <2> QED
      BY <2>1, <2>2, <1>verdict, VerdictExit
  <1>frame. ASSUME UNCHANGED <<ping_result, result, sent>>, answers \subseteq answers',
                   late => late'
            PROVE  Goal
    <2>1. CASE sent # {} \/ result = "none"
      BY <2>1, <1>frame, VerdictKept
    <2>2. CASE sent = {}
      <3>1. Measured'
        <4>1. \A req, type : AnsweredWith(req, type) => AnsweredWith(req, type)'
          BY <1>frame DEF AnsweredWith
        <4> QED
          BY <4>1, <1>frame DEF Measured
      <3> QED
        BY <3>1, <2>2, <1>frame DEF VerdictJustified
    <2> QED
      BY <2>1, <2>2
  <1>11. CASE Close
    BY <1>11, <1>frame
       DEF Close, EnterClose, CloseIdle, CloseLine, CloseTimeout, Enter, Idle, Receive, Goto,
           loopVars, sendVars, clockVars, tdVars
  <1>12. CASE Clock \/ UNCHANGED vars
    BY <1>12, <1>frame
       DEF Clock, PassDeadline, PassCloseDeadline, vars, threadVars, loopVars, sendVars,
           clockVars, tdVars
  <1>13. CASE Tdlib
    <2>1. \E l : Deliver(l)
      BY <1>13 DEF Tdlib, TdAnswer, TdReport, TdNoise
    <2>2. answers \subseteq answers'
      BY <1>13 DEF Tdlib, TdAnswer, TdReport, TdNoise
    <2> QED
      BY <2>1, <2>2, <1>frame DEF Deliver, threadVars, loopVars, sendVars, clockVars
  <1> QED
    BY <1>1, <1>2, <1>3, <1>4, <1>5, <1>6, <1>7, <1>8, <1>9, <1>10, <1>11, <1>12, <1>13
       DEF Next, Thread, MainLoop, OnLine, OnAuthState, User, Promo, Finished

\* The invariant of the session holds throughout.
LEMMA SessionCorrect == Spec => [](TypeOK /\ ReqInv /\ SessionInv)
  <1>1. Init => SessionInv
    <2> SUFFICES ASSUME Init PROVE SessionInv
      OBVIOUS
    <2>1. Asked("close") = {} /\ Waiting = {}
      BY DEF Init, Asked, Waiting
    <2>2. Place /\ NoLostWakeUp
      BY DEF Init, Place, Open, NoLostWakeUp
    <2>3. Farewell
      BY <2>1 DEF Init, Farewell, ClosedBeforeReturn, Open
    <2>4. Measured /\ VerdictJustified
      BY DEF Init, Measured, VerdictJustified
    <2> QED
      BY <2>2, <2>3, <2>4 DEF SessionInv
  <1>2. TypeOK /\ ReqInv /\ SessionInv /\ [Next]_vars => SessionInv'
    BY PlaceStep, WakeStep, FarewellStep, VerdictStep DEF SessionInv
  <1> QED
    BY <1>1, <1>2, ReqInit, ReqStep, TypeCorrect, PTL DEF Spec

\* The probe never goes back to waiting for a line with a recorded state that it has
\* not acted on.
THEOREM WakeUpsKept == Spec => []NoLostWakeUp
  BY SessionCorrect, PTL DEF SessionInv

\* Every verdict is due to TDLib's answers to this client, or to the clock, though lines
\* of an earlier client reach the same loop.
THEOREM VerdictsJustified == Spec => []VerdictJustified
  BY SessionCorrect, PTL DEF SessionInv

\* Every exit after the client was created closes it, last and once, and waits for this
\* client's Closed or the 3 s.
THEOREM ClosesBeforeReturn == Spec => []ClosedBeforeReturn
  <1>1. SessionInv => ClosedBeforeReturn
    BY DEF SessionInv, Farewell
  <1> QED
    BY <1>1, SessionCorrect, PTL

-----------------------------------------------------------------------------
(* What a step may send, and the promise.                                  *)

\* A step that sends an addProxy or a pingProxy is one of three.
LEMMA ProxySteps ==
  ASSUME TypeOK, Next, NEW x \in sent' \ sent, x.req \in {"addProxy", "pingProxy"}
  PROVE  StartBeforeLogin \/ StartWhenReady \/ PingWhenReady \/ OnAddedProxy
  <1> USE DEF sendVars
  <1>sends. ASSUME NEW req, send_raw(req) PROVE x.req = req
    BY <1>sends DEF send_raw, NewExtra, Extra
  <1>1. CASE SetupFails \/ Setup
    BY <1>1, <1>sends DEF SetupFails, Setup
  <1>2. CASE EnterReceive \/ ReceiveIdle \/ SkipLine \/ PromoReady \/ EnterWaitReady \/ WaitReadyIdle
             \/ Close
    BY <1>2
       DEF EnterReceive, ReceiveIdle, SkipLine, PromoReady, EnterWaitReady, WaitReadyIdle, Close,
           EnterClose, CloseIdle, CloseLine, CloseTimeout, Enter, Idle, Goto
  <1>3. CASE \/ LoopTimeout \/ MalformedLine \/ PromptTooLate \/ OnFatalError \/ OnBadSeconds
             \/ EmptyLine \/ NoPromo \/ WaitReadyTimeout \/ WaitReadyError \/ ScanEnd
    <2>1. send_raw("close")
      BY <1>3
         DEF LoopTimeout, MalformedLine, PromptTooLate, OnFatalError, OnBadSeconds, EmptyLine,
             NoPromo, WaitReadyTimeout, WaitReadyError, ScanEnd, td_shutdown_session
    <2> QED
      BY <2>1, <1>sends
  <1>4. CASE SetParameters \/ PromoAsk \/ ScanStart
    BY <1>4, <1>sends DEF SetParameters, PromoAsk, ScanStart
  <1>5. CASE Prompt \/ IgnoreAuthState \/ OnPingError \/ OnSeconds \/ WaitReadyLine
    BY <1>5 DEF Prompt, IgnoreAuthState, OnPingError, OnSeconds, PingResult, WaitReadyLine
  <1>6. CASE EnterLine
    <2>1. LoginRequest[prompt] \notin {"addProxy", "pingProxy"}
      BY <1>6 DEF EnterLine, TypeOK, LoginRequest, LoginStates
    <2> QED
      BY <1>6, <2>1, <1>sends DEF EnterLine
  <1>7. CASE Clock \/ Tdlib \/ Finished
    BY <1>7
       DEF Clock, PassDeadline, PassCloseDeadline, Tdlib, TdAnswer, TdReport, TdNoise,
           Deliver, Finished, vars, threadVars
  <1> QED
    BY <1>1, <1>2, <1>3, <1>4, <1>5, <1>6, <1>7
       DEF Next, Thread, MainLoop, OnLine, OnAuthState, User, Promo

\* With --auth-session a step that touches the proxy leaves the recorded state at Ready:
\* the three places that send addProxy or pingProxy agree on the guard.
THEOREM ProxyWaitsForLogin == Spec => ProxyOnlyWhenReady
  <1> DEFINE Touches == \E x \in sent' \ sent : x.req \in {"addProxy", "pingProxy"}
             Guarded == settings.interactive /\ Touches => authorization_state' = "Ready"
  <1>1. TypeOK /\ [Next]_vars => [Guarded]_vars
    <2> SUFFICES ASSUME TypeOK, Next, settings.interactive, Touches
                 PROVE  authorization_state' = "Ready"
      OBVIOUS
    <2>1. StartBeforeLogin \/ StartWhenReady \/ PingWhenReady \/ OnAddedProxy
      BY ProxySteps
    <2>2. CASE StartBeforeLogin
      BY <2>2 DEF StartBeforeLogin, OwnState
    <2>3. CASE StartWhenReady \/ PingWhenReady
      BY <2>3 DEF StartWhenReady, PingWhenReady, OwnState, Own, note_auth_from_value
    <2>4. CASE OnAddedProxy
      <3>1. authorization_state' = authorization_state
        BY <2>4 DEF OnAddedProxy, AddedProxy, Own, note_auth_from_value, AuthTypes
      <3>2. ~UNCHANGED sent
        OBVIOUS
      <3>3. settings.interactive => authorization_state = "Ready"
        BY <2>4, <3>2 DEF OnAddedProxy, AddedProxy, sendVars
      <3> QED
        BY <3>1, <3>3
    <2> QED
      BY <2>1, <2>2, <2>3, <2>4
  <1> QED
    BY <1>1, TypeCorrect, PTL DEF Spec, ProxyOnlyWhenReady

\* A step that changes nothing the stage is read off.
LEMMA StageKept ==
  ASSUME UNCHANGED <<result, ping_result, ping_extra, interactive_proxy_registered,
                     add_proxy_extra>>
  PROVE  Stage' = Stage
  BY DEF Stage

\* Leaving the session is the promise's Return.
LEMMA Returns ==
  ASSUME result = "none", NEW r \in {"ok", "failed", "TdlibInit", "Internal", "Timeout"},
         result' = r, late' = late,
         IF ping_result \in {"ok", "err"}
         THEN r = IF ping_result = "ok" THEN "ok" ELSE "failed"
         ELSE ping_result = "none" /\ (r \in {"TdlibInit", "Internal"} \/ (r = "Timeout" /\ late))
  PROVE  Promise!Return
  <1>1. Stage # "returned" /\ Stage' = "returned"
    BY DEF Stage
  <1>2. CASE ping_result \in {"ok", "err"}
    <2>1. Stage = ping_result
      BY <1>2 DEF Stage
    <2> QED
      BY <1>1, <1>2, <2>1 DEF Promise!Return, Promise!Reportable
  <1>3. CASE ping_result = "none"
    <2>1. Stage \notin {"ok", "err"}
      BY <1>3 DEF Stage
    <2> QED
      BY <1>1, <1>3, <2>1 DEF Promise!Return, Promise!Reportable
  <1> QED
    BY <1>2, <1>3

\* Every step of the probe is one of the promise, or leaves the stage alone.
LEMMA PromiseStep ==
  TypeOK /\ ReqInv /\ Place /\ [Next]_vars => [Promise!Next]_(Promise!vars)
  <1> SUFFICES ASSUME TypeOK, ReqInv, Place, [Next]_vars
               PROVE  Promise!Next \/ UNCHANGED <<Stage, result, late>>
    BY DEF Promise!vars
  <1>stutter. ASSUME UNCHANGED <<result, late, ping_result, ping_extra,
                                 interactive_proxy_registered, add_proxy_extra>>
              PROVE  UNCHANGED <<Stage, result, late>>
    BY <1>stutter, StageKept
  <1>loop. pc \in {"start", "loop", "receiving", "stdin", "waitReady", "waitReadyReceiving",
                   "scan", "scanning"} => result = "none"
    BY DEF Place, Open
  <1>unmeasured. pc \in {"start", "receiving", "stdin"} => ping_result = "none"
    BY DEF Place
  <1>1. CASE SetupFails
    <2>1. result = "none" /\ ping_result = "none" /\ late' = late
          /\ result' \in {"TdlibInit", "Internal"}
      BY <1>1, <1>loop, <1>unmeasured DEF SetupFails, clockVars
    <2> QED
      BY <2>1, Returns DEF Promise!Next
  <1>2. CASE \/ Setup \/ EnterReceive \/ ReceiveIdle \/ SkipLine \/ SetParameters \/ Prompt
             \/ IgnoreAuthState \/ EnterLine
    BY <1>2, <1>stutter
       DEF Setup, EnterReceive, ReceiveIdle, SkipLine, SetParameters, Prompt, IgnoreAuthState,
           EnterLine, Enter, Idle, Goto, Continue, loopVars, clockVars
  <1>3. CASE \/ LoopTimeout \/ MalformedLine \/ PromptTooLate \/ OnFatalError \/ OnBadSeconds
             \/ EmptyLine
    <2>1. result = "none" /\ ping_result = "none"
      BY <1>3, <1>loop, <1>unmeasured
         DEF LoopTimeout, MalformedLine, PromptTooLate, OnFatalError, OnBadSeconds, EmptyLine,
             OwnState, Own, Receive
    <2>2. late' = late /\ (result' \in {"TdlibInit", "Internal"} \/ (result' = "Timeout" /\ late))
      BY <1>3
         DEF LoopTimeout, MalformedLine, PromptTooLate, OnFatalError, OnBadSeconds, EmptyLine,
             td_shutdown_session, clockVars
    <2> QED
      BY <2>1, <2>2, Returns DEF Promise!Next
  <1>4. CASE StartBeforeLogin \/ StartWhenReady
    <2>1. /\ try_start_proxy_ping /\ result = "none" /\ ping_result = "none"
          /\ ~interactive_proxy_registered
          /\ UNCHANGED <<result, late, ping_extra, ping_result, interactive_proxy_registered>>
      BY <1>4, <1>loop, <1>unmeasured
         DEF StartBeforeLogin, StartWhenReady, OwnState, Own, Receive, Continue, clockVars,
             ReqInv, Progress
    <2>2. CASE UNCHANGED add_proxy_extra
      BY <2>1, <2>2, <1>stutter
    <2>3. CASE /\ add_proxy_extra = None /\ ping_extra = None
               /\ send_raw("addProxy") /\ add_proxy_extra' = NewExtra("addProxy")
      <3>1. add_proxy_extra' # None
        BY <2>3, SendAsked DEF Requests
      <3>2. Stage = "idle" /\ Stage' = "adding"
        BY <2>1, <2>3, <3>1 DEF Stage
      <3> QED
        BY <2>1, <3>2 DEF Promise!Next, Promise!Add
    <2> QED
      BY <2>1, <2>2, <2>3 DEF try_start_proxy_ping
  <1>5. CASE PingWhenReady
    <2>1. /\ send_ping_with_proxy /\ result = "none" /\ ping_result = "none"
          /\ interactive_proxy_registered
          /\ UNCHANGED <<result, late, add_proxy_extra, ping_result, interactive_proxy_registered>>
      BY <1>5, <1>loop, <1>unmeasured
         DEF PingWhenReady, OwnState, Own, Receive, Continue, clockVars
    <2>2. CASE UNCHANGED ping_extra
      BY <2>1, <2>2, <1>stutter
    <2>3. CASE /\ ping_extra = None
               /\ send_raw("pingProxy") /\ ping_extra' = NewExtra("pingProxy")
      <3>1. ping_extra' # None
        BY <2>3, SendAsked DEF Requests
      <3>2. Stage = "added" /\ Stage' = "pinging"
        BY <2>1, <2>3, <3>1 DEF Stage
      <3> QED
        BY <2>1, <3>2 DEF Promise!Next, Promise!Ping
    <2> QED
      BY <2>1, <2>2, <2>3 DEF send_ping_with_proxy
  <1>6. CASE OnPingError \/ OnSeconds
    <2>1. /\ result = "none" /\ ping_result = "none" /\ ping_extra # None
          /\ ping_result' \in {"ok", "err"} /\ UNCHANGED <<result, late>>
      BY <1>6, <1>loop, <1>unmeasured
         DEF OnPingError, OnSeconds, PingResult, Own, Receive, AnswersPing, Continue, clockVars
    <2>2. Stage = "pinging" /\ Stage' = ping_result'
      BY <2>1 DEF Stage
    <2> QED
      BY <2>1, <2>2 DEF Promise!Next, Promise!Measure
  <1>7. CASE OnAddedProxy
    <2>1. /\ result = "none" /\ ping_result = "none" /\ add_proxy_extra # None
          /\ ping_extra = None /\ ~interactive_proxy_registered
          /\ UNCHANGED <<result, late, ping_result>> /\ add_proxy_extra' = None
          /\ interactive_proxy_registered' = settings.interactive
      BY <1>7, <1>loop, <1>unmeasured
         DEF OnAddedProxy, AddedProxy, Own, Receive, Continue, clockVars, ReqInv, Progress, TypeOK,
             SettingsType
    <2>2. Stage = "adding"
      BY <2>1 DEF Stage
    <2>3. CASE settings.interactive => authorization_state = "Ready"
      <3>1. send_raw("pingProxy") /\ ping_extra' = NewExtra("pingProxy")
        BY <1>7, <2>1, <2>3 DEF OnAddedProxy, AddedProxy, send_ping_with_proxy
      <3>2. ping_extra' # None
        BY <3>1, SendAsked DEF Requests
      <3>3. Stage' = "pinging"
        BY <2>1, <3>2 DEF Stage
      <3> QED
        BY <2>1, <2>2, <3>3 DEF Promise!Next, Promise!Added
    <2>4. CASE ~(settings.interactive => authorization_state = "Ready")
      <3>1. ping_extra' = None
        BY <1>7, <2>1, <2>4 DEF OnAddedProxy, AddedProxy
      <3>2. Stage' = "added"
        BY <2>1, <2>4, <3>1 DEF Stage
      <3> QED
        BY <2>1, <2>2, <3>2 DEF Promise!Next, Promise!Added
    <2> QED
      BY <2>3, <2>4
  <1>8. CASE \/ PromoReady \/ PromoAsk \/ EnterWaitReady \/ WaitReadyIdle \/ WaitReadyLine
             \/ ScanStart \/ Close
    BY <1>8, <1>stutter
       DEF PromoReady, PromoAsk, EnterWaitReady, WaitReadyIdle, WaitReadyLine, ScanStart,
           Close, EnterClose, CloseIdle, CloseLine, CloseTimeout, Enter, Idle, Goto, loopVars, clockVars
  <1>9. CASE NoPromo \/ WaitReadyTimeout \/ WaitReadyError \/ ScanEnd
    <2>1. td_shutdown_session(PingVerdict)
      BY <1>9 DEF NoPromo, WaitReadyTimeout, WaitReadyError, ScanEnd
    <2>2. ping_result # "none" /\ result = "none"
      BY <1>9, <1>loop
         DEF NoPromo, PingEnded, WaitReadyTimeout, WaitReadyError, ScanEnd, Receive, Place
    <2>3. ping_result \in {"ok", "err"} /\ result' = PingVerdict /\ late' = late
      BY <2>1, <2>2 DEF TypeOK, td_shutdown_session, clockVars
    <2> QED
      BY <2>2, <2>3, Returns DEF PingVerdict, Promise!Next
  <1>10. CASE PassDeadline
    BY <1>10, StageKept DEF PassDeadline, threadVars, loopVars, Promise!Next, Promise!Expire
  <1>11. CASE PassCloseDeadline \/ Tdlib \/ UNCHANGED vars
    BY <1>11, <1>stutter
       DEF PassCloseDeadline, Tdlib, TdAnswer, TdReport, TdNoise, Deliver, vars, threadVars,
           loopVars, clockVars
  <1> QED
    BY <1>1, <1>2, <1>3, <1>4, <1>5, <1>6, <1>7, <1>8, <1>9, <1>10, <1>11
       DEF Next, Thread, MainLoop, OnLine, OnAuthState, User, Promo, Clock, Finished

\* The message loop of probe_proxy implements the promise made to its caller: one
\* registration, then one ping, and its outcome is the verdict.
THEOREM PromiseKept == Spec => KeepsPromise
  <1>1. Init => Promise!Init
    BY DEF Init, Promise!Init, Stage
  <1>2. SessionInv => Place
    BY DEF SessionInv
  <1> QED
    BY <1>1, <1>2, PromiseStep, SessionCorrect, PTL DEF Spec, KeepsPromise, Promise!Spec

\* The other half of RequestsCorrect by itself: a ping is sent only about the proxy that
\* TDLib registered for this probe.
THEOREM PingsTheRegisteredProxy == Spec => []PingNeedsProxy
  BY RequestsCorrect, PTL
=============================================================================
