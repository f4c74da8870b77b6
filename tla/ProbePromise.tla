---------------------------- MODULE ProbePromise ----------------------------
(***************************************************************************)
(* What one probe promises its caller, without TDLib: the proxy is first   *)
(* registered, then pinged once, and the verdict is the outcome of that    *)
(* ping unless the probe ended before there was one.                       *)
(***************************************************************************)
VARIABLES
  stage,    \* how far the probe got
  verdict,  \* what it returns
  expired   \* its time is over

vars == <<stage, verdict, expired>>

Init == stage = "idle" /\ verdict = "none" /\ expired = FALSE

\* Registration is asked for, and confirmed; the ping may follow at once.
Add == stage = "idle" /\ stage' = "adding" /\ UNCHANGED <<verdict, expired>>
Added == stage = "adding" /\ stage' \in {"added", "pinging"} /\ UNCHANGED <<verdict, expired>>
Ping == stage = "added" /\ stage' = "pinging" /\ UNCHANGED <<verdict, expired>>
Measure == stage = "pinging" /\ stage' \in {"ok", "err"} /\ UNCHANGED <<verdict, expired>>

\* A measured ping is always reported, even when the time is over by then.
Reportable ==
  CASE stage = "ok"  -> {"ok"}
    [] stage = "err" -> {"failed"}
    [] OTHER -> {"TdlibInit", "Internal"} \cup (IF expired THEN {"Timeout"} ELSE {})
Return ==
  /\ stage # "returned"
  /\ stage' = "returned"
  /\ verdict' \in Reportable
  /\ UNCHANGED expired

Expire == ~expired /\ expired' = TRUE /\ UNCHANGED <<stage, verdict>>

Next == Add \/ Added \/ Ping \/ Measure \/ Return \/ Expire
Spec == Init /\ [][Next]_vars
=============================================================================
