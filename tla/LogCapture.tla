----------------------------- MODULE LogCapture -----------------------------
(***************************************************************************)
(* TD_LOG_LINES (src/tdlib_live.rs): TDLib's threads append log lines to a *)
(* bounded buffer of the process through td_log_cb, successive probes      *)
(* clear and copy it.  Both sides use try_lock: whoever finds the buffer   *)
(* locked goes on without it.                                              *)
(*                                                                         *)
(* A thread of TDLib that has fetched the callback may still run it after  *)
(* the callback was taken away (TDLib is external).                        *)
(***************************************************************************)
EXTENDS Naturals, Sequences

CONSTANTS
  Threads,    \* TDLib's threads
  Main,       \* the thread of the probes
  MAX,        \* lines kept
  MaxProbes,  \* bound: probes in the process
  MaxLines    \* bound: lines TDLib logs in one probe

ASSUME ThreadsAssumption == Main # "nobody" /\ {Main, "nobody"} \cap Threads = {}
ASSUME MaxAssumption == MAX \in Nat \ {0}
ASSUME BoundsAssumption == MaxProbes \in Nat /\ MaxLines \in Nat

VARIABLES
  lines,      \* TD_LOG_LINES
  taken,      \* every line taken down since the buffer was last cleared
  holder,     \* who has locked it
  callback,   \* td_log_cb is installed
  guard,      \* log_callback_guard.clear_on_drop
  probe,      \* number of the present probe
  verbose,    \* --verbose given to it
  pc,         \* where it is
  report,     \* the lines of its report
  straggler,  \* a callback of an earlier probe was running when it began
  cb,         \* for each thread: where its callback is
  logging,    \* and its line
  logged      \* lines logged in this probe (bounded)

Nobody == "nobody"

\* A line: the probe during which it was logged, by whom, and its number there.
Line(p, t, n) == [probe |-> p, by |-> t, no |-> n]
LogLines == [probe : 0..MaxProbes, by : Threads, no : 0..MaxLines]

probeVars == <<probe, verbose, straggler>>
threadVars == <<cb, logging, logged>>
bufferVars == <<lines, taken>>
vars == <<bufferVars, holder, callback, guard, probeVars, pc, report, threadVars>>

Init ==
  /\ lines = <<>> /\ taken = <<>> /\ holder = Nobody
  /\ callback = FALSE /\ guard = FALSE
  /\ probe = 0 /\ verbose = FALSE /\ pc = "returned"
  /\ report = <<>> /\ straggler = FALSE
  /\ cb = [t \in Threads |-> "idle"] /\ logging = [t \in Threads |-> Line(0, t, 0)]
  /\ logged = 0

-----------------------------------------------------------------------------
(* The probes, one after another.                                          *)

Running == {t \in Threads : cb[t] # "idle"}

\* A probe begins; when td_execute fails it returns with the callback as it was.
Begin ==
  /\ pc = "returned" /\ probe < MaxProbes
  /\ probe' = probe + 1
  /\ verbose' \in BOOLEAN
  /\ pc' \in {IF verbose' THEN "clear" ELSE "install", "returned"}
  /\ straggler' = (Running # {})
  /\ report' = <<>> /\ logged' = 0
  /\ UNCHANGED <<bufferVars, holder, callback, guard, cb, logging>>

\* A step of the probe at from, while it holds the buffer or without it.
Locked(from, to) ==
  /\ pc = from /\ holder = Main /\ holder' = Nobody /\ pc' = to
  /\ UNCHANGED <<callback, guard, probeVars, threadVars>>
Unlocked(from, to) ==
  /\ pc = from /\ holder # Main /\ pc' = to
  /\ UNCHANGED <<bufferVars, holder, probeVars, threadVars>>

\* try_lock at the clear and at the copy.
TryLock ==
  /\ pc \in {"clear", "copy"} /\ holder = Nobody /\ holder' = Main
  /\ UNCHANGED <<bufferVars, callback, guard, probeVars, pc, report, threadVars>>

\* Mutant of Clear: the buffer is left as it is.
LeaveLines == Locked("clear", "install") /\ UNCHANGED <<bufferVars, report>>

Clear ==
  Locked("clear", "install") /\ lines' = <<>> /\ taken' = <<>> /\ UNCHANGED report
SkipClear ==
  /\ Unlocked("clear", "install") /\ holder # Nobody /\ UNCHANGED <<callback, guard, report>>

\* Mutant of Install: the guard is not armed.
InstallUnguarded ==
  /\ Unlocked("install", "running")
  /\ callback' = verbose /\ guard' = FALSE /\ UNCHANGED report

\* set_log_callback: the callback, and a guard for it, with --verbose, else none.
Install ==
  /\ Unlocked("install", "running")
  /\ callback' = verbose /\ guard' = verbose /\ UNCHANGED report

\* The probe goes on to its copy, or fails with TdlibInit or Internal: then its
\* report carries no lines, and td_shutdown_session is for it only if the failure
\* came after td_create_client_id.
Probe ==
  /\ \E to \in {"copy", "shutdown", "unwinding"} : Unlocked("running", to)
  /\ UNCHANGED <<callback, guard, report>>

\* copy_log_lines
Copy == Locked("copy", "shutdown") /\ report' = lines /\ UNCHANGED bufferVars
SkipCopy ==
  /\ Unlocked("copy", "shutdown") /\ holder # Nobody /\ UNCHANGED <<callback, guard, report>>

\* td_shutdown_session: the callback is taken away before close is sent.
Shutdown ==
  Unlocked("shutdown", "closing") /\ callback' = FALSE /\ UNCHANGED <<guard, report>>

\* The probe returns and LogCallbackGuard is dropped.
DropGuard ==
  /\ Unlocked("closing", "returned") \/ Unlocked("unwinding", "returned")
  /\ callback' = (callback /\ ~guard) /\ guard' = FALSE /\ UNCHANGED report

-----------------------------------------------------------------------------
(* td_log_cb on TDLib's threads.                                           *)

OfThread == UNCHANGED <<callback, guard, probeVars, pc, report>>

\* TDLib logs a line and calls the callback (external).
TdLog(t) ==
  /\ callback /\ cb[t] = "idle" /\ logged < MaxLines /\ logged' = logged + 1
  /\ cb' = [cb EXCEPT ![t] = "called"] /\ logging' = [logging EXCEPT ![t] = Line(probe, t, logged')]
  /\ OfThread /\ UNCHANGED <<bufferVars, holder>>

Enter(t) ==
  /\ cb[t] = "called" /\ holder = Nobody /\ holder' = t
  /\ cb' = [cb EXCEPT ![t] = "locked"]
  /\ OfThread /\ UNCHANGED <<bufferVars, logging, logged>>

Drop(t) ==
  /\ cb[t] = "called" /\ holder # Nobody
  /\ cb' = [cb EXCEPT ![t] = "idle"]
  /\ OfThread /\ UNCHANGED <<bufferVars, holder, logging, logged>>

\* Mutants of kept: the buffer is cut one line too late; it gives up its newest line.
kept_late == IF Len(lines) > MAX THEN Tail(lines) ELSE lines
kept_oldest == IF Len(lines) >= MAX THEN SubSeq(lines, 1, MAX - 1) ELSE lines

\* A full buffer gives up its oldest line.
kept == IF Len(lines) >= MAX THEN Tail(lines) ELSE lines

Push(t) ==
  /\ cb[t] = "locked" /\ holder' = Nobody
  /\ lines' = Append(kept, logging[t]) /\ taken' = Append(taken, logging[t])
  /\ cb' = [cb EXCEPT ![t] = "idle"]
  /\ OfThread /\ UNCHANGED <<logging, logged>>

Finished == pc = "returned" /\ probe = MaxProbes /\ Running = {} /\ UNCHANGED vars

Prober ==
  \/ Begin \/ TryLock \/ Clear \/ SkipClear \/ Install \/ Probe \/ Copy \/ SkipCopy
  \/ Shutdown \/ DropGuard
Td == \E t \in Threads : TdLog(t) \/ Enter(t) \/ Drop(t) \/ Push(t)
Next == Prober \/ Td \/ Finished
Spec == Init /\ [][Next]_vars

-----------------------------------------------------------------------------
\* The lock has one holder, which is where its code says; the buffer keeps at
\* most MAX lines.
TypeOK ==
  /\ lines \in Seq(LogLines) /\ Len(lines) <= MAX
  /\ report \in Seq(LogLines)
  /\ \A t \in Threads : cb[t] = "locked" <=> holder = t
  /\ holder = Main => pc \in {"clear", "copy"}
  /\ holder \in Threads \cup {Main, Nobody}

\* However the threads and the probe contend for the buffer, it holds the latest MAX
\* of the lines taken down since it was cleared, and the report shows those of each
\* thread in the order in which the thread logged them.
LatestLinesKept ==
  /\ \E n \in 0..Len(taken) :
       /\ lines = SubSeq(taken, n + 1, Len(taken))
       /\ Len(lines) = MAX \/ n = 0
  /\ \A i, j \in DOMAIN report :
       i < j /\ report[i].by = report[j].by =>
         \/ report[i].probe < report[j].probe
         \/ report[i].probe = report[j].probe /\ report[i].no < report[j].no

\* The report of a verbose probe holds lines of that probe only, unless a callback
\* of an earlier one was still running when it began.
VerboseReportIsOwn ==
  verbose /\ ~straggler => \A i \in DOMAIN report : report[i].probe = probe

\* No thread of TDLib is given the callback outside a verbose probe, on whichever way
\* the probe returned, nor while TDLib closes.
CallbackIsScoped ==
  callback => verbose /\ pc \in {"running", "copy", "shutdown", "unwinding"}

\* README.md "Design note": the log callback is cleared "so the next probe
\* in-process does not inherit state": no report holds lines that were logged
\* during an earlier probe, straggling callbacks left aside.
NothingInherited == ~straggler => \A i \in DOMAIN report : report[i].probe = probe
=============================================================================
