--------------------------- MODULE RunFlow_proofs ---------------------------
(* Theorems about RunFlow, for every latency a ping may measure.           *)
EXTENDS RunFlow, TLAPS, SequenceTheorems

-----------------------------------------------------------------------------
(* The invariant.  Until the probe has ended nothing is known; from then   *)
(* on the report is the one its outcome gives, and in the end the exit     *)
(* code is a function of the outcome and of what could be written.         *)

Started ==
  /\ cli \in Cli /\ build \in {"tdlib", "without tdlib"}
  /\ kind \in {"none", "mtproto", "socks5"}
  /\ pc \in {"resolve", "parse", "probe", "render", "exited"}
  /\ outcome \in Outcomes \cup {"none"}
  /\ stderr \in {"silent", "told", "broken"}

\* Before the end of the probe there is no outcome and no report.
Unknown == outcome = "none" => report = NoReport /\ stdout = <<>>

\* What a probe that has ended leaves.
Probed ==
  outcome # "none" =>
    /\ kind \in {"mtproto", "socks5"}
    /\ \E seen \in {"none", "states"}, log \in {"none", "harmless", "sensitive"} :
         /\ gathered = <<seen, log>>
         /\ IF outcome \in Failures THEN report = from_probe_failure(outcome, seen, log)
            ELSE \E ms \in IF outcome = "reachable" THEN Latencies ELSE {-1},
                    sponsored \in Sponsored, joined \in Joined :
                   /\ report = PingReport(ms, seen, log, sponsored, joined)
                   /\ joined \in {"true", "false"} => sponsored = "yes"

\* Nothing is written and no code chosen before the end.
Underway ==
  /\ pc # "exited" => stdout = <<>> /\ stderr = "silent" /\ exit = Running
  /\ pc \in {"resolve", "parse", "probe"} => outcome = "none"
  /\ pc \in {"probe", "render"} => kind # "none"
  /\ pc = "render" => outcome # "none"

\* How the program ends.
Ended ==
  pc = "exited" =>
    \/ outcome = "none" /\ stderr = "told" /\ exit = InvalidInput
    \/ outcome = "none" /\ stderr = "broken" /\ exit = Panicked
    \/ outcome = "none" /\ stderr = "silent" /\ exit = Panicked /\ cli.timeout = "overflows"
    \/ /\ outcome \in Failures /\ stdout \in Written
       /\ stderr = "silent" /\ exit = ExitOfFailure
    \/ /\ outcome \in {"reachable", "unreachable"} /\ stdout \in Written
       /\ \/ stdout # Lines /\ stderr = "told" /\ exit = Internal
          \/ stdout # Lines /\ stderr = "broken" /\ exit = Panicked
          \/ /\ stdout = Lines /\ stderr = "silent"
             /\ exit = IF report.ok = "yes" THEN Success ELSE Unreachable

FlowInv == Started /\ Unknown /\ Probed /\ Underway /\ Ended

\* The seven values a report may start from are kept by every step but the probe.
LEMMA SameReport ==
  ASSUME FlowInv,
         cli' = cli, build' = build, kind' = kind, outcome' = outcome,
         gathered' = gathered, report' = report
  PROVE  /\ Probed'
         /\ Lines' = Lines /\ Written' = Written /\ ExitOfFailure' = ExitOfFailure
<1>1. Probed' BY DEF FlowInv, Probed
<1>2. Lines' = Lines
  BY DEF Lines, render_json, render_verbose_text, render_default_text, Verdict
<1>3. Written' = Written BY <1>2 DEF Written
<1>4. ExitOfFailure' = ExitOfFailure BY DEF ExitOfFailure
<1> QED BY <1>1, <1>2, <1>3, <1>4

\* Every step keeps the invariant.
LEMMA FlowStep == FlowInv /\ [Next]_vars => FlowInv'
<1> SUFFICES ASSUME FlowInv, [Next]_vars PROVE FlowInv' OBVIOUS
<1> USE DEF Exit, Complain
<1>1. CASE Reject
  <2>1. Probed' BY <1>1, SameReport DEF Reject
  <2>2. /\ cli' = cli /\ build' = build /\ kind' = kind /\ outcome' = outcome
        /\ report' = report /\ stdout' = stdout /\ pc' = "exited" /\ pc = "resolve"
        /\ stderr' \in {"told", "broken"}
        /\ exit' = IF stderr' = "told" THEN InvalidInput ELSE Panicked
    BY <1>1 DEF Reject
  <2>3. Started' /\ Unknown' /\ Underway' BY <2>2 DEF FlowInv, Started, Unknown, Underway
  <2>4. Ended' BY <2>2 DEF FlowInv, Underway, Ended
  <2> QED BY <2>1, <2>3, <2>4 DEF FlowInv
<1>2. CASE Resolve
  <2>1. Probed' BY <1>2, SameReport DEF Resolve
  <2>2. /\ cli' = cli /\ build' = build /\ kind' = kind /\ outcome' = outcome
        /\ report' = report /\ stdout' = stdout /\ pc' = "parse" /\ exit' = exit
        /\ pc = "resolve" /\ stderr' = stderr
    BY <1>2 DEF Resolve
  <2>3. Started' /\ Unknown' /\ Underway' /\ Ended'
    BY <2>2 DEF FlowInv, Started, Unknown, Underway, Ended
  <2> QED BY <2>1, <2>3 DEF FlowInv
<1>3. CASE BadLink
  <2>1. Probed' BY <1>3, SameReport DEF BadLink
  <2>2. /\ cli' = cli /\ build' = build /\ kind' = kind /\ outcome' = outcome
        /\ report' = report /\ stdout' = stdout /\ pc' = "exited" /\ pc = "parse"
        /\ stderr' \in {"told", "broken"}
        /\ exit' = IF stderr' = "told" THEN InvalidInput ELSE Panicked
    BY <1>3 DEF BadLink
  <2>3. Started' /\ Unknown' /\ Underway' BY <2>2 DEF FlowInv, Started, Unknown, Underway
  <2>4. Ended' BY <2>2 DEF FlowInv, Underway, Ended
  <2> QED BY <2>1, <2>3, <2>4 DEF FlowInv
<1>4. CASE GoodLink
  <2>1. /\ cli' = cli /\ build' = build /\ outcome' = outcome /\ outcome = "none"
        /\ report' = report /\ stdout' = stdout /\ pc' = "probe" /\ exit' = exit
        /\ kind' \in {"mtproto", "socks5"} /\ pc = "parse" /\ stderr' = stderr
    BY <1>4 DEF GoodLink, FlowInv, Underway
  <2>2. Started' /\ Unknown' /\ Probed' /\ Underway' /\ Ended'
    BY <2>1 DEF FlowInv, Started, Unknown, Probed, Underway, Ended
  <2> QED BY <2>2 DEF FlowInv
<1>5. CASE probe_proxy
  <2>1. /\ cli' = cli /\ build' = build /\ kind' = kind
        /\ stdout' = stdout /\ pc' = "render" /\ exit' = exit /\ pc = "probe"
        /\ outcome' \in Outcomes /\ stderr' = stderr
    BY <1>5 DEF probe_proxy, Outcomes, Failures
  <2>2. outcome' # "none" BY <2>1 DEF Outcomes, Failures
  <2>3. Started' /\ Unknown' /\ Underway' /\ Ended'
    BY <2>1, <2>2 DEF FlowInv, Started, Unknown, Underway, Ended
  <2>4. Probed'
    <3>1. kind' \in {"mtproto", "socks5"}
      BY <2>1 DEF FlowInv, Started, Underway
    <3>2. PICK seen \in {"none", "states"}, log \in {"none", "harmless", "sensitive"} :
            /\ gathered' = <<seen, log>>
            /\ IF outcome' \in Failures
               THEN report' = from_probe_failure(outcome', seen, log)
               ELSE \E ms \in IF outcome' = "reachable" THEN Latencies ELSE {-1},
                       s \in ScanResults :
                      report' = PingReport(ms, seen, log, s[1], s[2])
      BY <1>5 DEF probe_proxy
    <3>3. CASE outcome' \in Failures
      BY <3>1, <3>2, <3>3 DEF Probed
    <3>4. CASE outcome' \notin Failures
      <4>1. PICK ms \in IF outcome' = "reachable" THEN Latencies ELSE {-1}, s \in ScanResults :
              report' = PingReport(ms, seen, log, s[1], s[2])
        BY <3>2, <3>4
      <4>2. /\ s[1] \in Sponsored /\ s[2] \in Joined
            /\ s[2] \in {"true", "false"} => s[1] = "yes"
        BY DEF ScanResults, Sponsored, Joined
      <4> QED BY <3>1, <3>2, <3>4, <4>1, <4>2 DEF Probed
    <3> QED BY <3>3, <3>4
  <2> QED BY <2>3, <2>4 DEF FlowInv
<1>6. CASE DeadlineOverflows
  <2>1. Probed' BY <1>6, SameReport DEF DeadlineOverflows
  <2>2. /\ cli' = cli /\ build' = build /\ kind' = kind /\ outcome' = outcome
        /\ report' = report /\ stdout' = stdout /\ pc' = "exited" /\ exit' = Panicked
        /\ pc = "probe" /\ cli.timeout = "overflows" /\ stderr' = stderr
    BY <1>6 DEF DeadlineOverflows
  <2>3. Started' /\ Unknown' /\ Underway' BY <2>2 DEF FlowInv, Started, Unknown, Underway
  <2>4. Ended' BY <2>2 DEF FlowInv, Underway, Ended
  <2> QED BY <2>1, <2>3, <2>4 DEF FlowInv
<1>7. CASE PromptPanics
  <2>1. Probed' BY <1>7, SameReport DEF PromptPanics
  <2>2. /\ cli' = cli /\ build' = build /\ kind' = kind /\ outcome' = outcome
        /\ report' = report /\ stdout' = stdout /\ pc' = "exited" /\ exit' = Panicked
        /\ pc = "probe" /\ stderr' = "broken"
    BY <1>7 DEF PromptPanics
  <2>3. Started' /\ Unknown' /\ Underway' BY <2>2 DEF FlowInv, Started, Unknown, Underway
  <2>4. Ended' BY <2>2 DEF FlowInv, Underway, Ended
  <2> QED BY <2>1, <2>3, <2>4 DEF FlowInv
<1>8. CASE RenderReport
  <2>1. /\ cli' = cli /\ build' = build /\ kind' = kind /\ outcome' = outcome
        /\ gathered' = gathered /\ report' = report /\ pc' = "exited" /\ pc = "render"
        /\ stdout' \in Written /\ outcome \notin Failures
        /\ stderr' \in {"told", "broken"} \cup {stderr}
    BY <1>8 DEF RenderReport
  <2>2. \/ stdout' # Lines /\ stderr' = "told" /\ exit' = Internal
        \/ stdout' # Lines /\ stderr' = "broken" /\ exit' = Panicked
        \/ /\ stdout' = Lines /\ stderr' = stderr
           /\ exit' = IF report.ok = "yes" THEN Success ELSE Unreachable
    BY <1>8 DEF RenderReport
  <2>3. Probed' /\ Lines' = Lines /\ Written' = Written BY <2>1, SameReport
  <2>4. outcome \in {"reachable", "unreachable"} /\ stderr = "silent"
    BY <2>1 DEF FlowInv, Started, Underway, Outcomes
  <2>5. Started' /\ Unknown' /\ Underway'
    BY <2>1, <2>4 DEF FlowInv, Started, Unknown, Underway
  <2>6. Ended' BY <2>1, <2>2, <2>3, <2>4 DEF Ended
  <2> QED BY <2>3, <2>5, <2>6 DEF FlowInv
<1>9. CASE RenderFailure
  <2>1. /\ cli' = cli /\ build' = build /\ kind' = kind /\ outcome' = outcome
        /\ gathered' = gathered /\ report' = report /\ pc' = "exited" /\ pc = "render"
        /\ stdout' \in Written /\ outcome \in Failures /\ exit' = ExitOfFailure
        /\ stderr' = stderr
    BY <1>9 DEF RenderFailure
  <2>2. /\ Probed' /\ Written' = Written /\ ExitOfFailure' = ExitOfFailure
    BY <2>1, SameReport
  <2>3. outcome # "none" BY <2>1 DEF Failures
  <2>4. Started' /\ Unknown' /\ Underway'
    BY <2>1, <2>3 DEF FlowInv, Started, Unknown, Underway
  <2>5. Ended' BY <2>1, <2>2 DEF FlowInv, Underway, Ended
  <2> QED BY <2>2, <2>4, <2>5 DEF FlowInv
<1>10. CASE UNCHANGED vars
  <2>1. /\ cli' = cli /\ build' = build /\ kind' = kind /\ outcome' = outcome
        /\ gathered' = gathered /\ report' = report /\ stdout' = stdout
        /\ pc' = pc /\ stderr' = stderr /\ exit' = exit
    BY <1>10 DEF vars
  <2>2. /\ Probed' /\ Lines' = Lines /\ Written' = Written /\ ExitOfFailure' = ExitOfFailure
    BY <2>1, SameReport
  <2>3. Started' /\ Unknown' /\ Underway'
    BY <2>1 DEF FlowInv, Started, Unknown, Underway
  <2>4. Ended' BY <2>1, <2>2 DEF FlowInv, Ended
  <2> QED BY <2>2, <2>3, <2>4 DEF FlowInv
<1> QED BY <1>1, <1>2, <1>3, <1>4, <1>5, <1>6, <1>7, <1>8, <1>9, <1>10 DEF Next

\* FlowInv holds in every state.
LEMMA FlowCorrect == Spec => []FlowInv
<1>1. Init => FlowInv
  BY DEF Init, FlowInv, Started, Unknown, Probed, Underway, Ended, Running
<1> QED BY <1>1, FlowStep, PTL DEF Spec

\* TypeOK, for every latency: the report is there from the end of the probe on, with a
\* latency exactly when it says OK and an error exactly when it says FAIL.
THEOREM FlowTypes == Spec => []TypeOK
<1>1. FlowInv => TypeOK
  <2> SUFFICES ASSUME FlowInv PROVE TypeOK OBVIOUS
  <2>1. exit \in 0..5 \cup {Panicked, Running}
    <3>1. CASE pc # "exited" BY <3>1 DEF FlowInv, Underway
    <3>2. CASE pc = "exited" /\ outcome \in Failures
      <4>1. exit = ExitOfFailure BY <3>2 DEF FlowInv, Ended, Failures
      <4> QED BY <3>2, <4>1 DEF ExitOfFailure, Failures, Timeout, TdlibInit, Internal
    <3>3. CASE pc = "exited" /\ outcome \notin Failures
      <4>1. exit \in {InvalidInput, Panicked, Internal, Success, Unreachable}
        BY <3>3 DEF FlowInv, Ended
      <4> QED BY <4>1 DEF InvalidInput, Internal, Success, Unreachable
    <3> QED BY <3>1, <3>2, <3>3
  <2>2. CASE outcome = "none"
    BY <2>1, <2>2 DEF FlowInv, Started, Unknown, TypeOK
  <2>3. CASE outcome # "none"
    <3>1. PICK seen \in {"none", "states"}, log \in {"none", "harmless", "sensitive"} :
            IF outcome \in Failures THEN report = from_probe_failure(outcome, seen, log)
            ELSE \E ms \in IF outcome = "reachable" THEN Latencies ELSE {-1},
                    sponsored \in Sponsored, joined \in Joined :
                   report = PingReport(ms, seen, log, sponsored, joined)
      BY <2>3 DEF FlowInv, Probed
    <3>2. /\ report.ok \in {"yes", "no"} /\ report.latency \in Latencies \cup {-1}
          /\ report.error \in Failures \cup {"ping", "none"}
          /\ report.sponsored \in Sponsored /\ report.joined \in Joined
          /\ report.ok = "yes" <=> report.latency >= 0
          /\ report.ok = "no" <=> report.error # "none"
      <4>1. CASE outcome \in Failures
        BY <3>1, <4>1 DEF from_probe_failure, Unpinged, Sponsored, Joined, Failures
      <4>2. CASE outcome \notin Failures
        <5>1. PICK ms \in IF outcome = "reachable" THEN Latencies ELSE {-1},
                   sponsored \in Sponsored, joined \in Joined :
                report = PingReport(ms, seen, log, sponsored, joined)
          BY <3>1, <4>2
        <5>2. ms \in Latencies \cup {-1} /\ ms \in Int
          BY LatenciesAssumption
        <5> QED BY <5>1, <5>2 DEF PingReport
      <4> QED BY <4>1, <4>2
    <3>3. report # NoReport BY <3>2 DEF NoReport
    <3> QED BY <2>1, <2>3, <3>2, <3>3 DEF FlowInv, Started, TypeOK
  <2> QED BY <2>2, <2>3
<1> QED BY <1>1, FlowCorrect, PTL

-----------------------------------------------------------------------------
(* The lines of a report, in the order of render_verbose_text.             *)

EarlyNames == {"input_link", "probe_timeout_sec", "detected_type", "server", "port",
               "mtproto_secret_len", "socks5_username_present", "socks5_password_present",
               "probe_start_wall_ms", "probe_end_wall_ms", "wall_duration_ms", "tdlib_seconds"}
Latency == <<"tdlib_latency_ms", report.latency>>
Early == (EarlyNames \X {"redacted", "", kind, report.seconds}) \cup {Latency}
States == <<"authorization_states_seen", report.seen>>
LogLine == <<"tdlib_log", scrub_tdlib_log_line(report.log)>>
Story == <<"interpretation", report.interpretation>>
Sponsor == <<"sponsored_status", report.sponsored>>
Membership == <<"subscription", report.joined>>
Label == Early \cup {States, LogLine, Story, Sponsor, Membership}

\* The text before the states is made of early lines.
Beginning ==
  << <<"input_link", "redacted">>, <<"probe_timeout_sec", "">>, <<"detected_type", kind>>,
     <<"server", "">>, <<"port", "">> >>
  \o If(kind = "mtproto", << <<"mtproto_secret_len", "">> >>)
  \o If(kind = "socks5", << <<"socks5_username_present", "">>, <<"socks5_password_present", "">> >>)
  \o << <<"probe_start_wall_ms", "">>, <<"probe_end_wall_ms", "">>, <<"wall_duration_ms", "">> >>
  \o If(report.seconds # "none", << <<"tdlib_seconds", report.seconds>> >>)
  \o If(report.latency # -1, << Latency >>)
Log == If(report.log # "none", << LogLine >>)
Seen == Beginning \o << States >> \o Log

\* Sequences written out.
LEMMA One == ASSUME NEW S, NEW a \in S PROVE <<a>> \in Seq(S)
OBVIOUS

\* The same for two.
LEMMA Two == ASSUME NEW S, NEW a \in S, NEW b \in S PROVE <<a, b>> \in Seq(S)
OBVIOUS

\* The same for three.
LEMMA Three == ASSUME NEW S, NEW a \in S, NEW b \in S, NEW c \in S PROVE <<a, b, c>> \in Seq(S)
OBVIOUS

\* The same for five.
LEMMA Five ==
  ASSUME NEW S, NEW a \in S, NEW b \in S, NEW c \in S, NEW d \in S, NEW e \in S
  PROVE  <<a, b, c, d, e>> \in Seq(S)
OBVIOUS

\* The same for one that may be left out.
LEMMA Optional == ASSUME NEW S, NEW s \in Seq(S), NEW b \in BOOLEAN PROVE If(b, s) \in Seq(S)
BY DEF If

\* The beginning is a sequence of early lines.
LEMMA BeginningIsEarly == Beginning \in Seq(Early)
<1> DEFINE a == << <<"input_link", "redacted">>, <<"probe_timeout_sec", "">>,
                   <<"detected_type", kind>>, <<"server", "">>, <<"port", "">> >>
           b == If(kind = "mtproto", << <<"mtproto_secret_len", "">> >>)
           c == If(kind = "socks5", << <<"socks5_username_present", "">>,
                                       <<"socks5_password_present", "">> >>)
           d == << <<"probe_start_wall_ms", "">>, <<"probe_end_wall_ms", "">>,
                   <<"wall_duration_ms", "">> >>
           e == If(report.seconds # "none", << <<"tdlib_seconds", report.seconds>> >>)
           f == If(report.latency # -1, << Latency >>)
<1>1. a \in Seq(Early)
  <2>1. /\ <<"input_link", "redacted">> \in Early /\ <<"probe_timeout_sec", "">> \in Early
        /\ <<"detected_type", kind>> \in Early /\ <<"server", "">> \in Early
        /\ <<"port", "">> \in Early
    BY DEF Early, EarlyNames
  <2> QED BY ONLY <2>1, Five
<1>2. b \in Seq(Early)
  <2>1. <<"mtproto_secret_len", "">> \in Early BY DEF Early, EarlyNames
  <2>2. << <<"mtproto_secret_len", "">> >> \in Seq(Early) BY ONLY <2>1, One
  <2> QED BY ONLY <2>2, Optional
<1>3. c \in Seq(Early)
  <2>1. /\ <<"socks5_username_present", "">> \in Early
        /\ <<"socks5_password_present", "">> \in Early
    BY DEF Early, EarlyNames
  <2>2. << <<"socks5_username_present", "">>, <<"socks5_password_present", "">> >> \in Seq(Early)
    BY ONLY <2>1, Two
  <2> QED BY ONLY <2>2, Optional
<1>4. d \in Seq(Early)
  <2>1. /\ <<"probe_start_wall_ms", "">> \in Early /\ <<"probe_end_wall_ms", "">> \in Early
        /\ <<"wall_duration_ms", "">> \in Early
    BY DEF Early, EarlyNames
  <2> QED BY ONLY <2>1, Three
<1>5. e \in Seq(Early)
  <2>1. <<"tdlib_seconds", report.seconds>> \in Early BY DEF Early, EarlyNames
  <2> QED BY <2>1 DEF If
<1>6. f \in Seq(Early)
  <2>1. Latency \in Early BY DEF Early
  <2> QED BY <2>1 DEF If
<1>7. Beginning = ((((a \o b) \o c) \o d) \o e) \o f BY DEF Beginning
<1> HIDE DEF a, b, c, d, e, f
<1> QED BY <1>1, <1>2, <1>3, <1>4, <1>5, <1>6, <1>7

\* The last line is the verdict, and no other line is one.
Concluded ==
  /\ Lines \in Seq(Label \cup {Lines[Len(Lines)]})
  /\ Len(Lines) \in Nat \ {0}
  /\ Lines[Len(Lines)][1] = Verdict[1]
  /\ \A i \in 1..Len(Lines)-1 : Lines[i][1] \notin {"OK", "FAIL"}

\* No label is a verdict.
LEMMA LabelsAreNoVerdicts == \A l \in Label : l[1] \notin {"OK", "FAIL"}
<1>1. SUFFICES ASSUME NEW l \in Label PROVE l[1] \notin {"OK", "FAIL"} OBVIOUS
<1>2. CASE l \in EarlyNames \X {"redacted", "", kind, report.seconds}
  <2>1. l[1] \in EarlyNames BY <1>2
  <2> QED BY <2>1 DEF EarlyNames
<1>3. CASE l \in {Latency, States, LogLine, Story, Sponsor, Membership}
  BY <1>3 DEF Latency, States, LogLine, Story, Sponsor, Membership
<1> QED BY <1>1, <1>2, <1>3 DEF Label, Early

\* The text: what was seen, what it means, and the verdict.
LEMMA TextIs ==
  /\ Seen \in Seq(Label)
  /\ render_verbose_text = Seen \o <<Story, Sponsor, Membership, Verdict>>
  /\ Beginning \in Seq(Label)
  /\ Log \in Seq(Label)
<1>1. Beginning \in Seq(Label)
  <2>1. Early \subseteq Label BY DEF Label
  <2> QED BY <2>1, BeginningIsEarly
<1>2. Log \in Seq(Label)
  <2>1. LogLine \in Label BY DEF Label
  <2> QED BY <2>1 DEF Log, If
<1>3. Seen \in Seq(Label)
  <2>1. States \in Label BY DEF Label
  <2>2. <<States>> \in Seq(Label) BY <2>1
  <2> QED BY <1>1, <1>2, <2>2 DEF Seen
<1>4. render_verbose_text = Seen \o <<Story, Sponsor, Membership, Verdict>>
  BY DEF render_verbose_text, Seen, Beginning, Log, Latency, States, LogLine, Story, Sponsor,
         Membership
<1> QED BY <1>1, <1>2, <1>3, <1>4

\* Every report ends with its verdict.
LEMMA ReportsConclude == ASSUME cli \in Cli PROVE Concluded
<1>1. CASE cli.json
  <2> DEFINE v == Verdict \o <<report.sponsored, report.joined>>
  <2>1. Lines = <<v>> BY <1>1 DEF Lines, render_json
  <2>2. v[1] = Verdict[1] BY DEF Verdict
  <2> HIDE DEF v
  <2>3. Len(Lines) = 1 /\ Lines[1] = v BY <2>1
  <2>4. Lines \in Seq(Label \cup {v}) BY <2>1
  <2> QED BY <2>2, <2>3, <2>4 DEF Concluded
<1>2. CASE ~cli.json /\ cli.verbose
  <2> DEFINE t == <<Story, Sponsor, Membership, Verdict>>
  <2>1. Lines = Seen \o t BY <1>2, TextIs DEF Lines
  <2>2. t \in Seq(Label \cup {Verdict}) /\ Len(t) = 4 /\ t[4] = Verdict
        /\ t[1] = Story /\ t[2] = Sponsor /\ t[3] = Membership
    <3>1. Story \in Label /\ Sponsor \in Label /\ Membership \in Label BY DEF Label
    <3> QED BY <3>1
  <2>3. Seen \in Seq(Label) /\ Len(Seen) \in Nat BY TextIs
  <2> HIDE DEF t
  <2>4. Seen \in Seq(Label \cup {Verdict}) BY <2>3
  <2>5. /\ Lines \in Seq(Label \cup {Verdict}) /\ Len(Lines) = Len(Seen) + 4
        /\ \A i \in 1..Len(Seen) : Lines[i] = Seen[i]
        /\ \A i \in 1..4 : Lines[Len(Seen) + i] = t[i]
    <3> DEFINE S == Label \cup {Verdict}
    <3>1. Seen \in Seq(S) /\ t \in Seq(S) BY <2>2, <2>4
    <3> HIDE DEF S
    <3>2. /\ Seen \o t \in Seq(S) /\ Len(Seen \o t) = Len(Seen) + Len(t)
          /\ \A i \in 1..Len(Seen) + Len(t) :
               (Seen \o t)[i] = IF i <= Len(Seen) THEN Seen[i] ELSE t[i - Len(Seen)]
      BY ONLY <3>1, ConcatProperties
    <3>3. Len(Seen) \in Nat /\ Len(t) = 4 BY <2>2, <2>3
    <3>4. Lines \in Seq(S) /\ Len(Lines) = Len(Seen) + 4 BY <2>1, <3>2, <3>3
    <3>5. ASSUME NEW i \in 1..Len(Seen) PROVE Lines[i] = Seen[i]
      <4>1. i \in 1..Len(Seen) + Len(t) /\ i <= Len(Seen) BY ONLY <3>3
      <4> QED BY ONLY <2>1, <3>2, <4>1
    <3>6. ASSUME NEW i \in 1..4 PROVE Lines[Len(Seen) + i] = t[i]
      <4>1. Len(Seen) + i \in 1..Len(Seen) + Len(t) /\ ~(Len(Seen) + i <= Len(Seen))
            /\ (Len(Seen) + i) - Len(Seen) = i
        BY ONLY <3>3
      <4> QED BY ONLY <2>1, <3>2, <4>1
    <3> QED BY <3>4, <3>5, <3>6 DEF S
  <2>6. Lines[Len(Lines)] = Verdict BY <2>2, <2>3, <2>5
  <2>7. ASSUME NEW i \in 1..Len(Lines)-1 PROVE Lines[i] \in Label
    <3>1. CASE i \in 1..Len(Seen) BY <2>3, <2>5, <3>1
    <3>2. CASE i \notin 1..Len(Seen)
      <4>1. i - Len(Seen) \in 1..3 /\ i = Len(Seen) + (i - Len(Seen)) BY <2>3, <2>5, <3>2
      <4>2. Lines[Len(Seen) + (i - Len(Seen))] = t[i - Len(Seen)] BY <2>5, <4>1
      <4>3. t[i - Len(Seen)] \in {Story, Sponsor, Membership} BY <2>2, <4>1
      <4>4. {Story, Sponsor, Membership} \subseteq Label BY DEF Label
      <4> QED BY <4>1, <4>2, <4>3, <4>4
    <3> QED BY <3>1, <3>2
  <2>8. Len(Lines) \in Nat \ {0} BY <2>3, <2>5
  <2> QED BY <2>5, <2>6, <2>7, <2>8, LabelsAreNoVerdicts DEF Concluded
<1>3. CASE ~cli.json /\ ~cli.verbose
  <2>1. Lines = <<Verdict>> BY <1>3 DEF Lines, render_default_text
  <2>2. Len(Lines) = 1 /\ Lines[1] = Verdict /\ Lines \in Seq(Label \cup {Verdict})
    BY <2>1
  <2> QED BY <2>2 DEF Concluded
<1>4. cli.json \in BOOLEAN /\ cli.verbose \in BOOLEAN BY DEF Cli
<1> QED BY <1>1, <1>2, <1>3, <1>4

\* What was written is a beginning of the report.
LEMMA WrittenIs ==
  ASSUME Concluded, stdout \in Written
  PROVE  /\ Len(stdout) \in 0..Len(Lines) /\ DOMAIN stdout = 1..Len(stdout)
         /\ \A i \in 1..Len(stdout) : stdout[i] = Lines[i]
         /\ stdout = Lines <=> Len(stdout) = Len(Lines)
         /\ stdout # <<>> <=> Len(stdout) # 0
<1> DEFINE S == Label \cup {Lines[Len(Lines)]}
<1>1. PICK n \in 0..Len(Lines) : stdout = SubSeq(Lines, 1, n) BY DEF Written
<1>2. Lines \in Seq(S) /\ Len(Lines) \in Nat BY DEF Concluded
<1> HIDE DEF S
<1>3. n \in Nat /\ n <= Len(Lines) /\ 1 \in Int /\ n \in Int BY <1>2
<1>4. \A i \in 1..n : Lines[i] \in S BY <1>2, <1>3
<1>5. /\ SubSeq(Lines, 1, n) \in Seq(S)
      /\ Len(SubSeq(Lines, 1, n)) = IF 1 <= n THEN n-1+1 ELSE 0
      /\ \A i \in 1..n-1+1 : SubSeq(Lines, 1, n)[i] = Lines[1+i-1]
  BY ONLY <1>3, <1>4, SubSeqProperties
<1>6. Len(stdout) = n /\ stdout \in Seq(S) BY <1>1, <1>3, <1>5
<1>7. ASSUME NEW i \in 1..n PROVE stdout[i] = Lines[i]
  <2>1. i \in 1..n-1+1 /\ 1+i-1 = i BY <1>3
  <2> QED BY <1>1, <1>5, <2>1
<1>8. stdout = Lines <=> n = Len(Lines)
  <2>1. ASSUME n = Len(Lines) PROVE stdout = Lines
    BY <1>2, <1>6, <1>7, <2>1
  <2> QED BY <1>6, <2>1
<1>9. DOMAIN stdout = 1..n BY <1>6
<1>10. stdout # <<>> <=> n # 0 BY <1>6
<1> QED BY <1>6, <1>7, <1>8, <1>9, <1>10

\* A verdict stands last in what was written when the whole report could be written.
LEMMA SaysWhat ==
  ASSUME Concluded, stdout \in Written, NEW word \in {"OK", "FAIL"}
  PROVE  Says(word) <=> stdout = Lines /\ Verdict[1] = word
<1>1. /\ Len(stdout) \in 0..Len(Lines) /\ DOMAIN stdout = 1..Len(stdout)
      /\ \A i \in 1..Len(stdout) : stdout[i] = Lines[i]
      /\ stdout = Lines <=> Len(stdout) = Len(Lines)
      /\ stdout # <<>> <=> Len(stdout) # 0
  BY WrittenIs
<1>2. Len(Lines) \in Nat \ {0} /\ Lines[Len(Lines)][1] = Verdict[1]
  BY DEF Concluded
<1>3. Says(word) <=> stdout # <<>> /\ stdout[Len(stdout)][1] = word
  BY DEF Says, Last
<1>4. CASE stdout = Lines
  BY <1>1, <1>2, <1>3, <1>4
<1>5. CASE stdout # Lines
  <2>1. SUFFICES ASSUME Says(word) PROVE FALSE BY <1>5
  <2>2. Len(stdout) \in 1..Len(Lines)-1 BY <1>1, <1>2, <1>3, <1>5, <2>1
  <2>3. stdout[Len(stdout)] = Lines[Len(stdout)] BY <1>1, <2>2
  <2>4. Lines[Len(stdout)][1] \notin {"OK", "FAIL"} BY <2>2 DEF Concluded
  <2> QED BY <1>3, <2>1, <2>3, <2>4
<1> QED BY <1>4, <1>5

\* The verdict is the report's.
LEMMA VerdictIs ==
  Verdict[1] = IF report.ok = "yes" THEN "OK" ELSE "FAIL"
BY DEF Verdict

\* How a report came about decides whether it says OK.
LEMMA OkIs ==
  ASSUME FlowInv, outcome # "none"
  PROVE  report.ok = "yes" <=> outcome = "reachable"
<1>1. PICK seen \in {"none", "states"}, log \in {"none", "harmless", "sensitive"} :
        IF outcome \in Failures THEN report = from_probe_failure(outcome, seen, log)
        ELSE \E ms \in IF outcome = "reachable" THEN Latencies ELSE {-1},
                sponsored \in Sponsored, joined \in Joined :
               report = PingReport(ms, seen, log, sponsored, joined)
  BY DEF FlowInv, Probed
<1>2. CASE outcome \in Failures
  BY <1>1, <1>2 DEF from_probe_failure, Unpinged, Failures
<1>3. CASE outcome \notin Failures
  <2>1. PICK ms \in IF outcome = "reachable" THEN Latencies ELSE {-1},
             sponsored \in Sponsored, joined \in Joined :
          report = PingReport(ms, seen, log, sponsored, joined)
    BY <1>1, <1>3
  <2>2. ms \in Int /\ (ms >= 0 <=> outcome = "reachable")
    BY LatenciesAssumption
  <2> QED BY <2>1, <2>2 DEF PingReport
<1> QED BY <1>2, <1>3

\* Standard output and the exit code never disagree, and the exit code tells how the
\* probe ended (lib.rs:46-75).
LEMMA ExitsCorrect == Spec => [](OutputAgreesWithExit /\ ExitTellsOutcome)
<1>1. FlowInv => OutputAgreesWithExit /\ ExitTellsOutcome
  <2> SUFFICES ASSUME FlowInv, pc = "exited" PROVE OutputAgreesWithExit /\ ExitTellsOutcome
    BY DEF OutputAgreesWithExit, ExitTellsOutcome
  <2> USE DEF Success, Unreachable, InvalidInput, Timeout, TdlibInit, Internal, Panicked
  <2>1. Concluded BY ReportsConclude DEF FlowInv, Started
  <2>2. CASE outcome = "none"
    <3>1. /\ stdout = <<>>
          /\ \/ stderr = "told" /\ exit = InvalidInput
             \/ stderr = "broken" /\ exit = Panicked
             \/ stderr = "silent" /\ exit = Panicked /\ cli.timeout = "overflows"
      BY <2>2 DEF FlowInv, Unknown, Ended, Failures
    <3>2. ~Says("OK") /\ ~Says("FAIL") BY <3>1 DEF Says
    <3> QED BY <2>2, <3>1, <3>2 DEF OutputAgreesWithExit, ExitTellsOutcome, Unwritten
  <2>3. CASE outcome \in Failures
    <3>1. stdout \in Written /\ stderr = "silent" /\ exit = ExitOfFailure
      BY <2>3 DEF FlowInv, Ended, Failures
    <3>2. report.ok # "yes" BY <2>3, OkIs DEF Failures
    <3>3. ~Says("OK") BY <2>1, <3>1, <3>2, SaysWhat, VerdictIs
    <3>4. /\ outcome = "timeout" => exit = 3
          /\ outcome = "tdlibInit" => exit = 4
          /\ outcome = "internal" => exit = 5
      BY <3>1 DEF ExitOfFailure
    <3> QED BY <2>3, <3>1, <3>3, <3>4 DEF OutputAgreesWithExit, ExitTellsOutcome, Unwritten, Failures
  <2>4. CASE outcome \in {"reachable", "unreachable"}
    <3>1. /\ stdout \in Written
          /\ \/ stdout # Lines /\ stderr = "told" /\ exit = Internal
             \/ stdout # Lines /\ stderr = "broken" /\ exit = Panicked
             \/ /\ stdout = Lines /\ stderr = "silent"
                /\ exit = IF report.ok = "yes" THEN Success ELSE Unreachable
      BY <2>4 DEF FlowInv, Ended, Failures
    <3>2. /\ Says("OK") <=> stdout = Lines /\ report.ok = "yes"
          /\ Says("FAIL") <=> stdout = Lines /\ report.ok # "yes"
      BY <2>1, <3>1, SaysWhat, VerdictIs
    <3>3. report.ok = "yes" <=> outcome = "reachable" BY <2>4, OkIs
    <3>4. OutputAgreesWithExit
      BY <3>1, <3>2 DEF OutputAgreesWithExit
    <3>5. ExitTellsOutcome
      BY <2>4, <3>1, <3>2 DEF ExitTellsOutcome, Unwritten, Failures
    <3> QED BY <3>4, <3>5
  <2> QED BY <2>2, <2>3, <2>4 DEF FlowInv, Started, Outcomes
<1> QED BY <1>1, FlowCorrect, PTL

\* OutputAgreesWithExit, for every latency: OK stands on standard output exactly when
\* the exit code is 0, and rejected input leaves it empty.
THEOREM OutputAndExitAgree == Spec => []OutputAgreesWithExit
  BY ExitsCorrect, PTL

\* ExitTellsOutcome, for every latency: the exit code is that of the outcome, unless
\* the report of a probe that pinged could not be written, or the program panicked:
\* standard error did not take an error or a prompt, or --timeout overflows.
THEOREM ExitsAreExplained == Spec => []ExitTellsOutcome
  BY ExitsCorrect, PTL

\* The lines a text may have, and those up to the log.
BeforeStory == Early \cup {States} \cup (IF report.log # "none" THEN {LogLine} ELSE {})
TextLine == BeforeStory \cup {Story, Sponsor, Membership, Verdict}

\* The same for four.
LEMMA Four ==
  ASSUME NEW S, NEW a \in S, NEW b \in S, NEW c \in S, NEW d \in S
  PROVE  <<a, b, c, d>> \in Seq(S)
OBVIOUS

\* Where the lines of a text stand.
Laid ==
  /\ Len(Seen) \in Nat /\ Len(Lines) \in Nat
  /\ \A i \in 1..Len(Lines) : Lines[i] \in TextLine
  /\ \A i \in 1..Len(Seen) : Lines[i] \in BeforeStory
  /\ \E i \in 1..Len(Seen) : Lines[i] = States
  /\ report.log # "none" => \E i \in 1..Len(Seen) : Lines[i] = LogLine

\* The states and the log stand before what they mean.
LEMMA TextIsLaid == ASSUME ~cli.json, cli.verbose PROVE Laid
<1> DEFINE t == <<Story, Sponsor, Membership, Verdict>>
           b == Beginning
           c == <<States>>
<1>1. Lines = Seen \o t BY TextIs DEF Lines
<1>2. Seen = (b \o c) \o Log BY DEF Seen
<1>3. b \in Seq(BeforeStory)
  <2>1. Early \subseteq BeforeStory BY DEF BeforeStory
  <2> QED BY <2>1, BeginningIsEarly
<1>4. c \in Seq(BeforeStory) /\ Len(c) = 1 /\ c[1] = States
  <2>1. States \in BeforeStory BY DEF BeforeStory
  <2>2. c \in Seq(BeforeStory) BY ONLY <2>1, One
  <2> QED BY <2>2
<1>5. Log \in Seq(BeforeStory)
  <2>1. CASE report.log # "none"
    <3>1. LogLine \in BeforeStory BY <2>1 DEF BeforeStory
    <3>2. <<LogLine>> \in Seq(BeforeStory) BY ONLY <3>1, One
    <3> QED BY <2>1, <3>2 DEF Log, If
  <2>2. CASE report.log = "none" BY <2>2 DEF Log, If
  <2> QED BY <2>1, <2>2
<1>6. report.log # "none" => Len(Log) = 1 /\ Log[1] = LogLine BY DEF Log, If
<1>7. t \in Seq(TextLine)
  <2>1. Story \in TextLine /\ Sponsor \in TextLine /\ Membership \in TextLine
        /\ Verdict \in TextLine
    BY DEF TextLine
  <2> QED BY ONLY <2>1, Four
<1> HIDE DEF b, c, t
<1>8. /\ b \o c \in Seq(BeforeStory) /\ Len(b \o c) = Len(b) + 1 /\ Len(b) \in Nat
      /\ (b \o c)[Len(b) + 1] = States
  <2>1. /\ b \o c \in Seq(BeforeStory) /\ Len(b \o c) = Len(b) + Len(c)
        /\ \A i \in 1..Len(b) + Len(c) : (b \o c)[i] = IF i <= Len(b) THEN b[i] ELSE c[i - Len(b)]
    BY ONLY <1>3, <1>4, ConcatProperties
  <2>2. Len(b) \in Nat BY <1>3
  <2>3. /\ Len(b) + 1 \in 1..Len(b) + Len(c) /\ ~(Len(b) + 1 <= Len(b))
        /\ (Len(b) + 1) - Len(b) = 1
    BY ONLY <1>4, <2>2
  <2>4. (b \o c)[Len(b) + 1] = c[1] BY ONLY <2>1, <2>3
  <2> QED BY <1>4, <2>1, <2>2, <2>4
<1> DEFINE d == b \o c
<1>9. /\ d \in Seq(BeforeStory) /\ Len(d) \in Nat /\ Len(d) >= 1 /\ d[Len(d)] = States
  BY <1>8
<1>10. Seen = d \o Log BY <1>2
<1> HIDE DEF d
<1>11. /\ Seen \in Seq(BeforeStory) /\ Len(Seen) = Len(d) + Len(Log) /\ Len(Log) \in Nat
       /\ \A i \in 1..Len(d) + Len(Log) :
            Seen[i] = IF i <= Len(d) THEN d[i] ELSE Log[i - Len(d)]
  <2>1. /\ d \o Log \in Seq(BeforeStory) /\ Len(d \o Log) = Len(d) + Len(Log)
        /\ \A i \in 1..Len(d) + Len(Log) :
             (d \o Log)[i] = IF i <= Len(d) THEN d[i] ELSE Log[i - Len(d)]
    BY ONLY <1>5, <1>9, ConcatProperties
  <2> QED BY <1>5, <1>10, <2>1
<1>12. Len(d) \in 1..Len(Seen) /\ Seen[Len(d)] = States
  <2>1. Len(d) \in 1..Len(d) + Len(Log) /\ Len(d) <= Len(d) BY <1>9, <1>11
  <2> QED BY <1>9, <1>11, <2>1
<1>13. ASSUME report.log # "none"
       PROVE  Len(d) + 1 \in 1..Len(Seen) /\ Seen[Len(d) + 1] = LogLine
  <2>1. /\ Len(d) + 1 \in 1..Len(d) + Len(Log) /\ ~(Len(d) + 1 <= Len(d))
        /\ (Len(d) + 1) - Len(d) = 1
    BY <1>6, <1>9, <1>11, <1>13
  <2> QED BY <1>6, <1>11, <1>13, <2>1
<1>14. /\ Lines \in Seq(TextLine) /\ Len(Seen) \in Nat
       /\ \A i \in 1..Len(Seen) : Lines[i] = Seen[i]
  <2>1. BeforeStory \subseteq TextLine BY DEF TextLine
  <2>2. Seen \in Seq(TextLine) BY <1>11, <2>1
  <2>3. /\ Seen \o t \in Seq(TextLine)
        /\ \A i \in 1..Len(Seen) + Len(t) :
             (Seen \o t)[i] = IF i <= Len(Seen) THEN Seen[i] ELSE t[i - Len(Seen)]
    BY ONLY <1>7, <2>2, ConcatProperties
  <2>4. Len(Seen) \in Nat /\ Len(t) \in Nat BY <1>7, <2>2
  <2>5. ASSUME NEW i \in 1..Len(Seen) PROVE Lines[i] = Seen[i]
    <3>1. i \in 1..Len(Seen) + Len(t) /\ i <= Len(Seen) BY ONLY <2>4
    <3> QED BY ONLY <1>1, <2>3, <3>1
  <2> QED BY <1>1, <2>3, <2>4, <2>5
<1>15. ASSUME NEW i \in 1..Len(Lines) PROVE Lines[i] \in TextLine BY <1>14
<1>16. ASSUME NEW i \in 1..Len(Seen) PROVE Lines[i] \in BeforeStory BY <1>11, <1>14
<1>17. Len(Lines) \in Nat BY <1>14
<1> QED BY <1>12, <1>13, <1>14, <1>15, <1>16, <1>17 DEF Laid

\* The lines of a text by their names.
LEMMA NamedLines ==
  ASSUME NEW l \in TextLine
  PROVE  /\ l[1] = "interpretation" => l = Story /\ l \notin BeforeStory
         /\ l[1] = "tdlib_latency_ms" => l = Latency
         /\ l[1] = "authorization_states_seen" => l = States
         /\ l[1] = "tdlib_log" => l = LogLine /\ report.log # "none"
<1>1. CASE l \in EarlyNames \X {"redacted", "", kind, report.seconds}
  <2>1. l[1] \in EarlyNames BY <1>1
  <2> QED BY <2>1 DEF EarlyNames
<1>2. CASE l = Latency BY <1>2 DEF Latency
<1>3. CASE l = States BY <1>3 DEF States
<1>4. CASE l = LogLine /\ report.log # "none" BY <1>4 DEF LogLine
<1>5. CASE l = Story
  <2>1. l[1] = "interpretation" BY <1>5 DEF Story
  <2>2. l \notin BeforeStory
    <3>1. l \notin EarlyNames \X {"redacted", "", kind, report.seconds}
      <4>1. "interpretation" \notin EarlyNames BY DEF EarlyNames
      <4> QED BY <2>1, <4>1
    <3>2. l # Latency /\ l # States /\ l # LogLine BY <2>1 DEF Latency, States, LogLine
    <3> QED BY <3>1, <3>2 DEF BeforeStory, Early
  <2> QED BY <1>5, <2>1, <2>2
<1>6. CASE l = Sponsor BY <1>6 DEF Sponsor
<1>7. CASE l = Membership BY <1>7 DEF Membership
<1>8. CASE l = Verdict BY <1>8 DEF Verdict
<1> QED BY <1>1, <1>2, <1>3, <1>4, <1>5, <1>6, <1>7, <1>8 DEF TextLine, BeforeStory, Early

\* The values that stand under a name.
LEMMA ValueIs ==
  ASSUME NEW name, NEW v
  PROVE  v \in Value(name) <=> \E i \in DOMAIN stdout : stdout[i][1] = name /\ v = stdout[i][2]
BY DEF Value, ToSet

\* Only a text has diagnostics.
LEMMA OnlyTextHasDiagnostics ==
  ASSUME cli \in Cli, stdout \in Written, cli.json \/ ~cli.verbose,
         NEW name, name \notin {"OK", "FAIL"}
  PROVE  Value(name) = {}
<1>1. Concluded BY ReportsConclude
<1>2. Len(Lines) = 1
  <2>1. CASE cli.json BY <2>1 DEF Lines, render_json
  <2>2. CASE ~cli.json BY <2>2 DEF Lines, render_default_text
  <2> QED BY <2>1, <2>2
<1>3. Lines[1][1] \in {"OK", "FAIL"} BY <1>1, <1>2, VerdictIs DEF Concluded
<1>4. SUFFICES ASSUME NEW i \in DOMAIN stdout, stdout[i][1] = name PROVE FALSE
  BY ValueIs
<1>5. i = 1 /\ stdout[i] = Lines[i] BY <1>1, <1>2, WrittenIs
<1> QED BY <1>3, <1>4, <1>5

\* In a text a value is that of the line with its name.
LEMMA TextValues ==
  ASSUME cli \in Cli, stdout \in Written, ~cli.json, cli.verbose
  PROVE  /\ Value("interpretation") \subseteq {report.interpretation}
         /\ Value("tdlib_latency_ms") \subseteq {report.latency}
         /\ Value("authorization_states_seen") \subseteq {report.seen}
         /\ \A v \in Value("tdlib_log") :
              v = scrub_tdlib_log_line(report.log) /\ report.log # "none"
<1>1. Concluded /\ Laid BY ReportsConclude, TextIsLaid
<1>2. ASSUME NEW i \in DOMAIN stdout PROVE stdout[i] \in TextLine
  <2>1. i \in 1..Len(Lines) /\ stdout[i] = Lines[i] BY <1>1, WrittenIs DEF Laid
  <2> QED BY <1>1, <2>1 DEF Laid
<1>3. ASSUME NEW v \in Value("interpretation") PROVE v = report.interpretation
  <2>1. PICK i \in DOMAIN stdout : stdout[i][1] = "interpretation" /\ v = stdout[i][2]
    BY <1>3, ValueIs
  <2>2. stdout[i] = Story BY <1>2, <2>1, NamedLines
  <2> QED BY <2>1, <2>2 DEF Story
<1>4. ASSUME NEW v \in Value("tdlib_latency_ms") PROVE v = report.latency
  <2>1. PICK i \in DOMAIN stdout : stdout[i][1] = "tdlib_latency_ms" /\ v = stdout[i][2]
    BY <1>4, ValueIs
  <2>2. stdout[i] = Latency BY <1>2, <2>1, NamedLines
  <2> QED BY <2>1, <2>2 DEF Latency
<1>5. ASSUME NEW v \in Value("authorization_states_seen") PROVE v = report.seen
  <2>1. PICK i \in DOMAIN stdout :
          stdout[i][1] = "authorization_states_seen" /\ v = stdout[i][2]
    BY <1>5, ValueIs
  <2>2. stdout[i] = States BY <1>2, <2>1, NamedLines
  <2> QED BY <2>1, <2>2 DEF States
<1>6. ASSUME NEW v \in Value("tdlib_log")
      PROVE  v = scrub_tdlib_log_line(report.log) /\ report.log # "none"
  <2>1. PICK i \in DOMAIN stdout : stdout[i][1] = "tdlib_log" /\ v = stdout[i][2]
    BY <1>6, ValueIs
  <2>2. stdout[i] = LogLine /\ report.log # "none" BY <1>2, <2>1, NamedLines
  <2> QED BY <2>1, <2>2 DEF LogLine
<1> QED BY <1>3, <1>4, <1>5, <1>6

\* What is written before the interpretation stands there when this does.
LEMMA StoryComesLast ==
  ASSUME cli \in Cli, stdout \in Written, ~cli.json, cli.verbose,
         Value("interpretation") # {}
  PROVE  /\ report.seen \in Value("authorization_states_seen")
         /\ report.log # "none" => scrub_tdlib_log_line(report.log) \in Value("tdlib_log")
<1>1. Concluded /\ Laid BY ReportsConclude, TextIsLaid
<1>2. PICK i \in DOMAIN stdout : stdout[i][1] = "interpretation"
  BY ValueIs
<1>3. i \in 1..Len(stdout) /\ stdout[i] = Lines[i] /\ i \in 1..Len(Lines)
      /\ Len(stdout) \in Nat
  BY <1>1, WrittenIs DEF Laid
<1>4. Lines[i] \in TextLine BY <1>1, <1>3 DEF Laid
<1>5. Lines[i] \notin BeforeStory BY <1>2, <1>3, <1>4, NamedLines
<1>6. i \notin 1..Len(Seen) BY <1>1, <1>5 DEF Laid
<1>7. Len(Seen) \in Nat BY <1>1 DEF Laid
<1>8. ASSUME NEW j \in 1..Len(Seen) PROVE j \in DOMAIN stdout /\ stdout[j] = Lines[j]
  <2>1. j \in 1..Len(stdout) BY <1>3, <1>6, <1>7
  <2> QED BY <1>1, <2>1, WrittenIs
<1>9. report.seen \in Value("authorization_states_seen")
  <2>1. PICK j \in 1..Len(Seen) : Lines[j] = States BY <1>1 DEF Laid
  <2>2. stdout[j][1] = "authorization_states_seen" /\ stdout[j][2] = report.seen
    BY <1>8, <2>1 DEF States
  <2> QED BY <1>8, <2>2, ValueIs
<1>10. ASSUME report.log # "none"
       PROVE  scrub_tdlib_log_line(report.log) \in Value("tdlib_log")
  <2>1. PICK j \in 1..Len(Seen) : Lines[j] = LogLine BY <1>1, <1>10 DEF Laid
  <2>2. stdout[j][1] = "tdlib_log" /\ stdout[j][2] = scrub_tdlib_log_line(report.log)
    BY <1>8, <2>1 DEF LogLine
  <2> QED BY <1>8, <2>2, ValueIs
<1> QED BY <1>9, <1>10

-----------------------------------------------------------------------------
\* What a report says, by the outcome it was made from.
Told ==
  /\ outcome = "reachable" =>
       /\ report.latency \in Latencies
       /\ report.interpretation = interpret_latency(report.latency)
  /\ outcome = "unreachable" => report.interpretation = "unavailable"
  /\ outcome \in Failures =>
       /\ report.interpretation = outcome
       /\ report.sponsored = "unknown" /\ report.joined = "unchecked"
  /\ report.joined \in {"true", "false"} => report.sponsored = "yes"
  /\ outcome \notin {"tdlibInit", "internal"} =>
       report.seen = gathered[1] /\ report.log = gathered[2]

\* Every report says it.
LEMMA ReportsTell == ASSUME FlowInv, outcome # "none" PROVE Told
<1>1. PICK seen \in {"none", "states"}, log \in {"none", "harmless", "sensitive"} :
        /\ gathered = <<seen, log>>
        /\ IF outcome \in Failures THEN report = from_probe_failure(outcome, seen, log)
           ELSE \E ms \in IF outcome = "reachable" THEN Latencies ELSE {-1},
                   sponsored \in Sponsored, joined \in Joined :
                  /\ report = PingReport(ms, seen, log, sponsored, joined)
                  /\ joined \in {"true", "false"} => sponsored = "yes"
  BY DEF FlowInv, Probed
<1>2. gathered[1] = seen /\ gathered[2] = log BY <1>1
<1>3. CASE outcome \in Failures
  <2>1. report = from_probe_failure(outcome, seen, log) BY <1>1, <1>3
  <2>2. /\ report.interpretation = outcome
        /\ report.sponsored = "unknown" /\ report.joined = "unchecked"
        /\ outcome = "timeout" => report.seen = seen /\ report.log = log
    BY <2>1 DEF from_probe_failure, Unpinged
  <2> QED BY <1>2, <1>3, <2>2 DEF Told, Failures
<1>4. CASE outcome \notin Failures
  <2>1. PICK ms \in IF outcome = "reachable" THEN Latencies ELSE {-1},
             sponsored \in Sponsored, joined \in Joined :
          /\ report = PingReport(ms, seen, log, sponsored, joined)
          /\ joined \in {"true", "false"} => sponsored = "yes"
    BY <1>1, <1>4
  <2>2. /\ report.latency = ms /\ report.seen = seen /\ report.log = log
        /\ report.sponsored = sponsored /\ report.joined = joined
        /\ report.interpretation = IF ms >= 0 THEN interpret_latency(ms) ELSE "unavailable"
    BY <2>1 DEF PingReport
  <2>3. outcome = "reachable" => ms \in Latencies /\ ms >= 0
    BY <2>1, LatenciesAssumption
  <2>4. outcome = "unreachable" => ~(ms >= 0) BY <2>1
  <2> QED BY <1>2, <1>4, <2>1, <2>2, <2>3, <2>4 DEF Told
<1> QED BY <1>3, <1>4

\* ReportIsOneStory, for every latency and wherever the writing ended: the parts of a
\* report tell the same story, and no line is shown that should have been scrubbed.
THEOREM ReportsTellOneStory == Spec => []ReportIsOneStory
<1>1. FlowInv => ReportIsOneStory
  <2> SUFFICES ASSUME FlowInv, outcome # "none" PROVE ReportIsOneStory
    BY DEF ReportIsOneStory
  <2> DEFINE V(name) == Value(name)
             Text == ~cli.json /\ cli.verbose
  <2>1. Told BY ReportsTell
  <2>2. cli \in Cli BY DEF FlowInv, Started
  <2>3. stdout \in Written \/ stdout = <<>>
    <3>1. CASE pc # "exited" BY <3>1 DEF FlowInv, Underway
    <3>2. CASE pc = "exited" BY <3>2 DEF FlowInv, Ended
    <3> QED BY <3>1, <3>2
  <2>4. CASE stdout = <<>>
    <3>1. ASSUME NEW name PROVE V(name) = {} BY <2>4, ValueIs
    <3>2. /\ V("interpretation") = {} /\ V("tdlib_log") = {}
      BY <3>1
    <3> QED BY <2>1, <3>2 DEF Told, ReportIsOneStory
  <2>5. CASE stdout \in Written /\ ~Text
    <3>1. V("interpretation") = {} /\ V("tdlib_log") = {}
      <4>1. cli.json \/ ~cli.verbose BY <2>2, <2>5 DEF Cli
      <4> QED BY <2>2, <2>5, <4>1, OnlyTextHasDiagnostics
    <3> QED BY <2>1, <3>1 DEF Told, ReportIsOneStory
  <2>6. CASE stdout \in Written /\ Text
    <3>1. /\ V("interpretation") \subseteq {report.interpretation}
          /\ V("tdlib_latency_ms") \subseteq {report.latency}
          /\ V("authorization_states_seen") \subseteq {report.seen}
          /\ \A v \in V("tdlib_log") :
               v = scrub_tdlib_log_line(report.log) /\ report.log # "none"
      BY <2>2, <2>6, TextValues
    <3>2. "sensitive" \notin V("tdlib_log")
      BY <3>1 DEF scrub_tdlib_log_line
    <3>3. ASSUME V("interpretation") # {}
          PROVE  /\ V("authorization_states_seen") = {report.seen}
                 /\ V("tdlib_log") = {scrub_tdlib_log_line(l) : l \in {report.log} \ {"none"}}
      <4>1. /\ report.seen \in V("authorization_states_seen")
            /\ report.log # "none" => scrub_tdlib_log_line(report.log) \in V("tdlib_log")
        BY <2>2, <2>6, <3>3, StoryComesLast
      <4> HIDE DEF V
      <4>2. CASE report.log = "none" BY <3>1, <4>1, <4>2
      <4>3. CASE report.log # "none" BY <3>1, <4>1, <4>3
      <4> QED BY <4>2, <4>3
    <3>4. ASSUME pc = "exited", V("interpretation") # {}
          PROVE  LET story == CHOOSE v \in V("interpretation") : TRUE IN
                   /\ story \in {"low", "moderate", "high"} <=> outcome = "reachable"
                   /\ story = "unavailable" <=> outcome = "unreachable"
                   /\ story \in Failures => story = outcome
                   /\ story = "low" => \A ms \in V("tdlib_latency_ms") : ms < LATENCY_LOW_MAX_MS
      <4> DEFINE story == CHOOSE v \in V("interpretation") : TRUE
      <4>1. story = report.interpretation BY <3>1, <3>4
      <4> HIDE DEF story, V
      <4>2. outcome \in {"reachable", "unreachable"} \cup Failures
        BY DEF FlowInv, Started, Outcomes
      <4>3. CASE outcome = "reachable"
        <5>1. story = interpret_latency(report.latency) BY <2>1, <4>1, <4>3 DEF Told
        <5>2. /\ story \in {"low", "moderate", "high"}
              /\ story = "low" => report.latency < LATENCY_LOW_MAX_MS
          BY <5>1 DEF interpret_latency
        <5>3. story \notin Failures /\ story # "unavailable" BY <5>2 DEF Failures
        <5> QED BY <3>1, <4>3, <5>2, <5>3 DEF story
      <4>4. CASE outcome = "unreachable"
        <5>1. story = "unavailable" BY <2>1, <4>1, <4>4 DEF Told
        <5> QED BY <4>4, <5>1 DEF Failures, story
      <4>5. CASE outcome \in Failures
        <5>1. story = outcome BY <2>1, <4>1, <4>5 DEF Told
        <5> QED BY <4>5, <5>1 DEF Failures, story
      <4> QED BY <4>2, <4>3, <4>4, <4>5
    <3> HIDE DEF V
    <3> QED BY <2>1, <3>2, <3>3, <3>4 DEF Told, ReportIsOneStory, V
  <2> QED BY <2>3, <2>4, <2>5, <2>6
<1> QED BY <1>1, FlowCorrect, PTL
=============================================================================
