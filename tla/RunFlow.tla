------------------------------ MODULE RunFlow ------------------------------
(***************************************************************************)
(* run (src/lib.rs): the command line is resolved (src/cli.rs), the link   *)
(* parsed, the proxy probed, the report rendered (src/output.rs) and an    *)
(* exit code chosen (src/error.rs).                                        *)
(*                                                                         *)
(* The probe may end in every way probe_proxy can, standard output may     *)
(* stop taking lines at any point, and standard error may take none: the   *)
(* macros that print there panic then.  What clap prints and exits with    *)
(* itself is left out.  A line is its name and the part of its value that  *)
(* differs between reports.                                                *)
(***************************************************************************)
EXTENDS Integers, Sequences, SequencesExt

CONSTANT Latencies    \* the round trips a ping may measure, in milliseconds
ASSUME LatenciesAssumption == Latencies \subseteq Nat

Success == 0
Unreachable == 1
InvalidInput == 2
Timeout == 3
TdlibInit == 4
Internal == 5
Panicked == 101  \* what Rust exits with after a panic
Running == -1    \* no exit code yet

\* What is given on the command line and in the environment.  Every i32 is taken as
\* an id; the environment may also hold what is none ("word").
Cli == [positional : {"absent", "given"}, proxy_link : {"absent", "given"},
        timeout : {"zero", "positive", "overflows"}, auth_session : {"absent", "directory", "file"},
        api_id : {"absent", "i32"}, TG_API_ID : {"absent", "word", "i32"},
        api_hash : {"absent", "empty", "given"}, TG_API_HASH : {"absent", "empty", "given"},
        verbose : BOOLEAN, json : BOOLEAN]

Failures == {"timeout", "tdlibInit", "internal"}     \* ProbeError
Outcomes == {"reachable", "unreachable"} \cup Failures

VARIABLES
  cli,      \* the input
  build,    \* whether the program was built with the feature tdlib
  kind,     \* of the proxy in the link
  pc,
  outcome,  \* how probe_proxy ended
  gathered, \* history: authorization states and log when the probe ended
  report,   \* what is rendered
  stdout,   \* the lines that stand there
  stderr,   \* "told" an error, or "broken": it did not take what was printed
  exit      \* exit code
vars == <<cli, build, kind, pc, outcome, gathered, report, stdout, stderr, exit>>

Sponsored == {"yes", "no", "unknown"}
Joined == {"unchecked", "null", "true", "false"}  \* SubscriptionReport
NoReport ==
  [ok |-> "none", latency |-> -1, seconds |-> "none", error |-> "none", interpretation |-> "none",
   seen |-> "none", log |-> "none", sponsored |-> "none", joined |-> "none"]

Init ==
  /\ cli \in Cli /\ build \in {"tdlib", "without tdlib"} /\ kind = "none"
  /\ pc = "resolve" /\ outcome = "none" /\ report = NoReport
  /\ gathered = <<"none", "none">>
  /\ stdout = <<>> /\ stderr = "silent" /\ exit = Running

-----------------------------------------------------------------------------
(* ResolvedCli::from_env.                                                  *)

ApiId == IF cli.api_id # "absent" THEN cli.api_id ELSE cli.TG_API_ID

Rejected ==
  \/ cli.positional = "given" /\ cli.proxy_link = "given"
  \/ cli.positional = "absent" /\ cli.proxy_link = "absent"
  \/ cli.timeout = "zero"
  \/ cli.auth_session = "file"
  \/ ApiId \in {"absent", "word"}
  \/ cli.api_hash = "empty"
  \/ cli.api_hash = "absent" /\ cli.TG_API_HASH \in {"absent", "empty"}

Exit(code) == pc' = "exited" /\ exit' = code

\* eprintln!, then the exit.
Complain(code) ==
  /\ stderr' \in {"told", "broken"}
  /\ Exit(IF stderr' = "told" THEN code ELSE Panicked)

Reject ==
  /\ pc = "resolve" /\ Rejected
  /\ Complain(InvalidInput)
  /\ UNCHANGED <<cli, build, kind, outcome, gathered, report, stdout>>

Resolve ==
  /\ pc = "resolve" /\ ~Rejected
  /\ pc' = "parse"
  /\ UNCHANGED <<cli, build, kind, outcome, gathered, report, stdout, stderr, exit>>

-----------------------------------------------------------------------------
(* The link (see ProxyLink) and the probe (see ProbeSession).              *)

BadLink ==
  /\ pc = "parse"
  /\ Complain(InvalidInput)
  /\ UNCHANGED <<cli, build, kind, outcome, gathered, report, stdout>>

GoodLink ==
  /\ pc = "parse"
  /\ kind' \in {"mtproto", "socks5"}
  /\ pc' = "probe"
  /\ UNCHANGED <<cli, build, outcome, gathered, report, stdout, stderr, exit>>

LATENCY_LOW_MAX_MS == 200
LATENCY_MODERATE_MAX_MS == 800
interpret_latency(ms) ==
  IF ms < LATENCY_LOW_MAX_MS THEN "low"
  ELSE IF ms <= LATENCY_MODERATE_MAX_MS THEN "moderate" ELSE "high"

Unpinged(error, seen, log) ==
  [ok |-> "no", latency |-> -1, seconds |-> "none", error |-> error, interpretation |-> error,
   seen |-> seen, log |-> log, sponsored |-> "unknown", joined |-> "unchecked"]

\* Mistaken form: what a timeout has gathered is lost as it is with the other failures.
context_dropped(error, seen, log) == Unpinged(error, "none", "none")

\* Only a timeout carries a ProbeTimeoutContext.
from_probe_failure(error, seen, log) ==
  IF error = "timeout" THEN Unpinged(error, seen, log) ELSE Unpinged(error, "none", "none")

\* Mistaken form: a failed ping is reported without its error.
ping_error_dropped(ms, seen, log, sponsored, joined) ==
  [ok |-> IF ms >= 0 THEN "yes" ELSE "no", latency |-> ms,
   seconds |-> IF ms >= 0 THEN "measured" ELSE "none", error |-> "none",
   interpretation |-> IF ms >= 0 THEN interpret_latency(ms) ELSE "unavailable",
   seen |-> seen, log |-> log, sponsored |-> sponsored, joined |-> joined]

\* The report of a probe that got as far as a ping; ms < 0 is a ping that failed.
PingReport(ms, seen, log, sponsored, joined) ==
  [ok |-> IF ms >= 0 THEN "yes" ELSE "no", latency |-> ms,
   seconds |-> IF ms >= 0 THEN "measured" ELSE "none",
   error |-> IF ms >= 0 THEN "none" ELSE "ping",
   interpretation |-> IF ms >= 0 THEN interpret_latency(ms) ELSE "unavailable",
   seen |-> seen, log |-> log, sponsored |-> sponsored, joined |-> joined]

\* What the scan may say (see SponsorScan): without --auth-session, for SOCKS5 and
\* without an authorized session there is none.
ScanResults ==
  {<<"unknown", "unchecked">>} \cup
  IF cli.auth_session # "absent" /\ kind = "mtproto"
  THEN {<<"unknown", "null">>, <<"no", "null">>} \cup ({"yes"} \X {"null", "true", "false"})
  ELSE {}

\* Log lines are captured with --verbose only; "sensitive" stands for a line with one
\* of the substrings that are scrubbed.
probe_proxy ==
  /\ pc = "probe" /\ (build = "tdlib" => cli.timeout # "overflows")
  /\ outcome' \in IF build = "tdlib" THEN Outcomes ELSE {"tdlibInit"}
  /\ \E seen \in {"none", "states"},
        log \in IF cli.verbose THEN {"none", "harmless", "sensitive"} ELSE {"none"} :
       /\ gathered' = <<seen, log>>
       /\ IF outcome' \in Failures
          THEN report' = from_probe_failure(outcome', seen, log)
          ELSE \E ms \in IF outcome' = "reachable" THEN Latencies ELSE {-1}, s \in ScanResults :
                 report' = PingReport(ms, seen, log, s[1], s[2])
  /\ pc' = "render"
  /\ UNCHANGED <<cli, build, kind, stdout, stderr, exit>>

\* The deadline, now + timeout, is past what Instant holds.
DeadlineOverflows ==
  /\ pc = "probe" /\ build = "tdlib" /\ cli.timeout = "overflows"
  /\ Exit(Panicked)
  /\ UNCHANGED <<cli, build, kind, outcome, gathered, report, stdout, stderr>>

\* eprint! of a prompt, which only --auth-session brings, in the midst of the probe.
PromptPanics ==
  /\ pc = "probe" /\ build = "tdlib" /\ cli.timeout # "overflows"
  /\ cli.auth_session = "directory"
  /\ stderr' = "broken" /\ Exit(Panicked)
  /\ UNCHANGED <<cli, build, kind, outcome, gathered, report, stdout>>

-----------------------------------------------------------------------------
(* render, and the exit code.                                              *)

Number(ms) == IF ms = -1 THEN 0 ELSE ms   \* unwrap_or(0)
Verdict == IF report.ok = "yes" THEN <<"OK", Number(report.latency)>> ELSE <<"FAIL", report.error>>
If(condition, lines) == IF condition THEN lines ELSE <<>>

scrub_tdlib_log_line(log) == IF log = "sensitive" THEN "omitted" ELSE log

\* What depends on the input alone is told apart by name only.
render_verbose_text ==
  << <<"input_link", "redacted">>, <<"probe_timeout_sec", "">>, <<"detected_type", kind>>,
     <<"server", "">>, <<"port", "">> >>
  \o If(kind = "mtproto", << <<"mtproto_secret_len", "">> >>)
  \o If(kind = "socks5", << <<"socks5_username_present", "">>, <<"socks5_password_present", "">> >>)
  \o << <<"probe_start_wall_ms", "">>, <<"probe_end_wall_ms", "">>, <<"wall_duration_ms", "">> >>
  \o If(report.seconds # "none", << <<"tdlib_seconds", report.seconds>> >>)
  \o If(report.latency # -1, << <<"tdlib_latency_ms", report.latency>> >>)
  \o << <<"authorization_states_seen", report.seen>> >>
  \o If(report.log # "none", << <<"tdlib_log", scrub_tdlib_log_line(report.log)>> >>)
  \o << <<"interpretation", report.interpretation>>, <<"sponsored_status", report.sponsored>>,
        <<"subscription", report.joined>>, Verdict >>

\* JSON goes before --verbose and has no diagnostics.
render_json == << Verdict \o <<report.sponsored, report.joined>> >>
render_default_text == << Verdict >>

Lines == CASE cli.json -> render_json
           [] ~cli.json /\ cli.verbose -> render_verbose_text
           [] OTHER -> render_default_text

\* Writing ends with the first line that cannot be written.
Written == {SubSeq(Lines, 1, n) : n \in 0..Len(Lines)}

ExitOfFailure ==
  CASE outcome = "timeout" -> Timeout
    [] outcome = "tdlibInit" -> TdlibInit
    [] outcome = "internal" -> Internal

\* Mistaken forms: whether the report could be written is not looked at; a
\* failure of the probe is not told from a report that says FAIL.
RenderIgnored ==
  /\ pc = "render" /\ outcome \notin Failures
  /\ stdout' \in Written
  /\ Exit(IF report.ok = "yes" THEN Success ELSE Unreachable)
  /\ UNCHANGED <<cli, build, kind, outcome, gathered, report, stderr>>
FailureIsUnreachable ==
  /\ pc = "render" /\ outcome \in Failures
  /\ stdout' \in Written
  /\ Exit(Unreachable)
  /\ UNCHANGED <<cli, build, kind, outcome, gathered, report, stderr>>

RenderReport ==
  /\ pc = "render" /\ outcome \notin Failures
  /\ stdout' \in Written
  /\ \/ stdout' # Lines /\ Complain(Internal)
     \/ /\ stdout' = Lines /\ stderr' = stderr
        /\ Exit(IF report.ok = "yes" THEN Success ELSE Unreachable)
  /\ UNCHANGED <<cli, build, kind, outcome, gathered, report>>

\* The result of this rendering is ignored.
RenderFailure ==
  /\ pc = "render" /\ outcome \in Failures
  /\ stdout' \in Written
  /\ Exit(ExitOfFailure)
  /\ UNCHANGED <<cli, build, kind, outcome, gathered, report, stderr>>

Next ==
  \/ Reject \/ Resolve \/ BadLink \/ GoodLink \/ probe_proxy
  \/ DeadlineOverflows \/ PromptPanics \/ RenderReport \/ RenderFailure
Spec == Init /\ [][Next]_vars

-----------------------------------------------------------------------------
\* Every variable is of its kind, and there is a report from the end of the probe on; OK
\* never comes with a made-up latency nor FAIL without a cause (output.rs:281, 293).
TypeOK ==
  /\ cli \in Cli /\ build \in {"tdlib", "without tdlib"}
  /\ kind \in {"none", "mtproto", "socks5"}
  /\ pc \in {"resolve", "parse", "probe", "render", "exited"}
  /\ outcome \in Outcomes \cup {"none"}
  /\ stderr \in {"silent", "told", "broken"}
  /\ exit \in 0..5 \cup {Panicked, Running}
  /\ report = NoReport <=> outcome = "none"
  /\ outcome # "none" =>
       /\ report.ok \in {"yes", "no"} /\ report.latency \in Latencies \cup {-1}
       /\ report.error \in Failures \cup {"ping", "none"}
       /\ report.sponsored \in Sponsored /\ report.joined \in Joined
       /\ report.ok = "yes" <=> report.latency >= 0
       /\ report.ok = "no" <=> report.error # "none"
  /\ outcome = "none" => stdout = <<>>

Says(word) == stdout # <<>> /\ Last(stdout)[1] = word

\* A script that reads standard output and one that reads the exit code never
\* disagree: OK stands there exactly when the code is 0, code 1 comes with FAIL,
\* rejected input leaves standard output empty, and a verdict that could not be
\* written is never 0 or 1 (lib.rs:46-75), also when the program panicked over it.
OutputAgreesWithExit ==
  pc = "exited" =>
    /\ exit = Success <=> Says("OK")
    /\ exit = Unreachable => Says("FAIL")
    /\ exit = InvalidInput => stdout = <<>>
    /\ Says("FAIL") => exit \in {Unreachable, Timeout, TdlibInit, Internal}

\* The verdict of a ping could not be written.
Unwritten == outcome \in {"reachable", "unreachable"} /\ ~Says("OK") /\ ~Says("FAIL")

\* The exit code tells how the probe ended, as README.md:88-95 lists it, also when
\* nothing could be printed on standard output; code 2 says that TDLib was never
\* started, and that the reason stands on standard error.  Outside the list is 101
\* alone: a --timeout too long to add to the time now, or an error or a prompt that
\* standard error did not take, and then nothing can be told from the code.
ExitTellsOutcome ==
  pc = "exited" =>
    /\ exit = Panicked <=> stderr = "broken" \/ (outcome = "none" /\ stderr = "silent")
    /\ exit = Panicked => stderr = "broken" \/ cli.timeout = "overflows"
    /\ exit = InvalidInput <=> outcome = "none" /\ stderr = "told"
    /\ exit = Timeout <=> outcome = "timeout"
    /\ exit = TdlibInit <=> outcome = "tdlibInit"
    /\ exit = Internal <=> outcome = "internal" \/ (Unwritten /\ stderr = "told")
    /\ Unwritten => exit \in {Internal, Panicked}
    /\ exit \in {Success, Unreachable} => outcome \in {"reachable", "unreachable"}

Value(name) == {line[2] : line \in {l \in ToSet(stdout) : l[1] = name}}

\* The parts of a report tell the same story, wherever the writing ended: the
\* interpretation is that of the verdict and of the exit code; a sponsor is named only
\* after a ping and membership only of a sponsor; after a timeout the states and the
\* log seen so far are still shown (README.md:313); and no log line stands there that
\* should have been scrubbed (README.md:149).
ReportIsOneStory ==
  outcome # "none" =>
    /\ pc = "exited" /\ Value("interpretation") # {} =>
         LET story == CHOOSE v \in Value("interpretation") : TRUE
         IN /\ story \in {"low", "moderate", "high"} <=> outcome = "reachable"
            /\ story = "unavailable" <=> outcome = "unreachable"
            /\ story \in Failures => story = outcome
            /\ story = "low" => \A ms \in Value("tdlib_latency_ms") : ms < LATENCY_LOW_MAX_MS
    /\ outcome \in Failures => report.sponsored = "unknown" /\ report.joined = "unchecked"
    /\ report.joined \in {"true", "false"} => report.sponsored = "yes"
    /\ outcome \notin {"tdlibInit", "internal"} /\ Value("interpretation") # {} =>
         /\ Value("authorization_states_seen") = {gathered[1]}
         /\ Value("tdlib_log") = {scrub_tdlib_log_line(l) : l \in {gathered[2]} \ {"none"}}
    /\ "sensitive" \notin Value("tdlib_log")
=============================================================================
