-------------------------- MODULE LogCapture_proofs --------------------------
(***************************************************************************)
(* LogCapture for any threads, any buffer and any number of probes and     *)
(* lines.                                                                  *)
(***************************************************************************)
EXTENDS LogCapture, SequenceTheorems, TLAPS

Typed ==
  /\ lines \in Seq(LogLines) /\ Len(lines) <= MAX
  /\ taken \in Seq(LogLines) /\ report \in Seq(LogLines)
  /\ probe \in 0..MaxProbes /\ logged \in 0..MaxLines
  /\ cb \in [Threads -> {"idle", "called", "locked"}]
  /\ logging \in [Threads -> LogLines]
  /\ holder \in Threads \cup {Main, Nobody}

\* The lock is held where the code says.
Locking ==
  /\ \A t \in Threads : cb[t] = "locked" <=> holder = t
  /\ holder = Main => pc \in {"clear", "copy"}

\* A line was logged before another one, and has been logged.
Earlier(a, b) == a.probe < b.probe \/ (a.probe = b.probe /\ a.no < b.no)
Known(l) == l.probe < probe \/ (l.probe = probe /\ l.no <= logged)

InOrder(s) ==
  \A i, j \in DOMAIN s : i < j /\ s[i].by = s[j].by => Earlier(s[i], s[j])

\* A thread has one line at a time, so that what it is about to push comes after
\* all the lines it has pushed.
Numbered ==
  /\ InOrder(lines) /\ InOrder(report)
  /\ \A i \in DOMAIN lines : Known(lines[i])
  /\ \A t \in Threads : logging[t].by = t /\ Known(logging[t])
  /\ \A t \in Threads : cb[t] # "idle" =>
       \A i \in DOMAIN lines : lines[i].by = t => Earlier(lines[i], logging[t])

\* lines is what is left of taken when its first n lines are dropped.
After(n) ==
  /\ Len(lines) = Len(taken) - n
  /\ Len(lines) = MAX \/ n = 0
  /\ \A i \in 1..Len(lines) : lines[i] = taken[i + n]
Latest == \E n \in 0..Len(taken) : After(n)

\* Without a straggler no callback runs before the probe has installed its own.
Own ==
  /\ ~straggler => \A t \in Threads : cb[t] # "idle" =>
       logging[t].probe = probe /\ pc \notin {"clear", "install"}
  /\ verbose /\ ~straggler /\ pc \notin {"clear", "returned"} =>
       \A i \in DOMAIN lines : lines[i].probe = probe
  /\ VerboseReportIsOwn

\* While the callback is installed, the probe holds the guard that takes it away.
Guarded == CallbackIsScoped /\ (callback => guard)

LogInv == Typed /\ Locking /\ Guarded /\ Numbered /\ Latest /\ Own

-----------------------------------------------------------------------------
(* The buffer after a line was pushed.                                     *)

\* The buffer keeps its lines but for the oldest one when it is full.
Dropped == IF Len(lines) >= MAX THEN 1 ELSE 0

LEMMA Kept ==
  ASSUME Typed
  PROVE  /\ kept \in Seq(LogLines) /\ Len(kept) = Len(lines) - Dropped /\ Len(kept) < MAX
         /\ \A i \in 1..Len(kept) : kept[i] = lines[i + Dropped]
  <1> USE MaxAssumption
  <1>1. lines \in Seq(LogLines) /\ Len(lines) \in Nat /\ Len(lines) <= MAX
    BY LenProperties DEF Typed
  <1>2. CASE Len(lines) >= MAX
    <2>1. lines # <<>>
      BY <1>2
    <2> QED
      BY <1>1, <1>2, <2>1, HeadTailProperties DEF kept, Dropped
  <1>3. CASE ~(Len(lines) >= MAX)
    BY <1>1, <1>3 DEF kept, Dropped
  <1> QED
    BY <1>2, <1>3

LEMMA Pushed ==
  ASSUME Typed, NEW x \in LogLines, NEW s, s = Append(kept, x)
  PROVE  /\ s \in Seq(LogLines) /\ Len(s) <= MAX /\ Len(s) = Len(lines) - Dropped + 1
         /\ DOMAIN s = 1..Len(s) /\ s[Len(s)] = x
         /\ \A i \in 1..Len(s) : i # Len(s) =>
              i + Dropped \in 1..Len(lines) /\ s[i] = lines[i + Dropped]
  <1>1. /\ kept \in Seq(LogLines) /\ Len(kept) = Len(lines) - Dropped /\ Len(kept) < MAX
        /\ \A i \in 1..Len(kept) : kept[i] = lines[i + Dropped]
    BY Kept
  <1>2. /\ s \in Seq(LogLines) /\ Len(s) = Len(kept) + 1
        /\ \A i \in 1..Len(kept) : s[i] = kept[i]
        /\ s[Len(kept) + 1] = x
    BY <1>1, AppendProperties
  <1>3. Len(kept) \in Nat /\ Len(lines) \in Nat /\ MAX \in Nat /\ DOMAIN s = 1..Len(s)
    BY <1>1, <1>2, LenProperties, MaxAssumption DEF Typed
  <1>4. Dropped \in {0, 1}
    BY DEF Dropped
  <1>5. ASSUME NEW i \in 1..Len(s), i # Len(s)
        PROVE  i + Dropped \in 1..Len(lines) /\ s[i] = lines[i + Dropped]
    <2>1. i \in 1..Len(kept)
      BY <1>2, <1>3, <1>5
    <2> QED
      BY <2>1, <1>1, <1>2, <1>3, <1>4
  <1> QED
    BY <1>1, <1>2, <1>3, <1>5

-----------------------------------------------------------------------------
(* Init and the steps.                                                     *)

LEMMA LogInit == Init => LogInv
  <1> SUFFICES ASSUME Init PROVE LogInv
    OBVIOUS
  <1>1. Typed
    BY EmptySeq, MaxAssumption, BoundsAssumption DEF Init, Typed, Line, LogLines
  <1>2. Locking
    BY ThreadsAssumption DEF Init, Locking, Nobody
  <1>3. Guarded
    BY DEF Init, Guarded, CallbackIsScoped
  <1>4. Numbered
    BY DEF Init, Numbered, InOrder, Known, Line
  <1>5. Latest
    BY DEF Init, Latest, After
  <1>6. Own
    BY DEF Init, Own, VerboseReportIsOwn
  <1> QED
    BY <1>1, <1>2, <1>3, <1>4, <1>5, <1>6 DEF LogInv

LEMMA GuardedStep == Guarded /\ [Next]_vars => Guarded'
  <1> SUFFICES ASSUME Guarded, [Next]_vars PROVE Guarded'
    OBVIOUS
  <1> USE DEF Guarded, CallbackIsScoped
  <1>1. CASE Begin
    BY <1>1 DEF Begin
  <1>2. CASE TryLock
    BY <1>2 DEF TryLock, probeVars
  <1>3. CASE Clear \/ SkipClear
    BY <1>3 DEF Clear, SkipClear, Locked, Unlocked, probeVars
  <1>4. CASE Install
    BY <1>4 DEF Install, Unlocked, probeVars
  <1>5. CASE Probe
    BY <1>5 DEF Probe, Unlocked, probeVars
  <1>6. CASE Copy \/ SkipCopy
    BY <1>6 DEF Copy, SkipCopy, Locked, Unlocked, probeVars
  <1>7. CASE Shutdown
    BY <1>7 DEF Shutdown, Unlocked, probeVars
  <1>8. CASE DropGuard
    BY <1>8 DEF DropGuard
  <1>9. CASE Td
    <2>1. OfThread
      BY <1>9 DEF Td, TdLog, Enter, Drop, Push
    <2> QED
      BY <2>1 DEF OfThread, probeVars
  <1>10. CASE UNCHANGED vars
    BY <1>10 DEF vars, probeVars
  <1> QED
    BY <1>1, <1>2, <1>3, <1>4, <1>5, <1>6, <1>7, <1>8, <1>9, <1>10 DEF Next, Prober, Finished

\* What a step of the probe leaves alone, apart from Begin, Clear and Copy.
LEMMA QuietProbe ==
  ASSUME TryLock \/ SkipClear \/ Install \/ Probe \/ SkipCopy \/ Shutdown \/ DropGuard
  PROVE  UNCHANGED <<lines, taken, report, probe, verbose, straggler, cb, logging, logged>>
  BY DEF TryLock, SkipClear, Install, Probe, SkipCopy, Shutdown, DropGuard, Unlocked,
         bufferVars, probeVars, threadVars

\* What a callback leaves alone, apart from Push.
LEMMA QuietThread ==
  ASSUME NEW t \in Threads, TdLog(t) \/ Enter(t) \/ Drop(t)
  PROVE  UNCHANGED <<lines, taken, report, probe, verbose, straggler, pc>>
  BY DEF TdLog, Enter, Drop, OfThread, bufferVars, probeVars

LEMMA TypedStep == Typed /\ [Next]_vars => Typed'
  <1> SUFFICES ASSUME Typed, [Next]_vars PROVE Typed'
    OBVIOUS
  <1> USE BoundsAssumption
  <1>1. CASE Begin
    <2>1. UNCHANGED <<lines, taken, holder, cb, logging>>
      BY <1>1 DEF Begin, bufferVars
    <2>2. report' = <<>> /\ logged' = 0 /\ probe' = probe + 1 /\ probe < MaxProbes
      BY <1>1 DEF Begin
    <2>3. report' \in Seq(LogLines)
      BY <2>2, EmptySeq
    <2>4. probe' \in 0..MaxProbes /\ logged' \in 0..MaxLines
      BY <2>2 DEF Typed
    <2> QED
      BY <2>1, <2>3, <2>4 DEF Typed
  <1>2. CASE TryLock \/ SkipClear \/ Install \/ Probe \/ SkipCopy \/ Shutdown \/ DropGuard
    <2>1. UNCHANGED <<lines, taken, report, probe, cb, logging, logged>>
      BY <1>2, QuietProbe
    <2>2. holder' \in {holder, Main}
      BY <1>2 DEF TryLock, SkipClear, Install, Probe, SkipCopy, Shutdown, DropGuard, Unlocked
    <2> QED
      BY <2>1, <2>2 DEF Typed
  <1>3. CASE Clear
    <2>1. UNCHANGED <<report, probe, cb, logging, logged>> /\ holder' = Nobody
      BY <1>3 DEF Clear, Locked, probeVars, threadVars
    <2>2. lines' = <<>> /\ taken' = <<>>
      BY <1>3 DEF Clear
    <2>3. lines' \in Seq(LogLines) /\ Len(lines') <= MAX /\ taken' \in Seq(LogLines)
      BY <2>2, EmptySeq, MaxAssumption
    <2> QED
      BY <2>1, <2>3 DEF Typed
  <1>4. CASE Copy
    <2>1. UNCHANGED <<lines, taken, probe, cb, logging, logged>> /\ holder' = Nobody
      BY <1>4 DEF Copy, Locked, bufferVars, probeVars, threadVars
    <2>2. report' = lines
      BY <1>4 DEF Copy
    <2> QED
      BY <2>1, <2>2 DEF Typed
  <1>5. ASSUME NEW t \in Threads, TdLog(t) PROVE Typed'
    <2>1. UNCHANGED <<lines, taken, report, probe, holder>>
      BY <1>5, QuietThread DEF TdLog
    <2>2. logged' \in 1..MaxLines
      BY <1>5 DEF TdLog, Typed
    <2>3. Line(probe, t, logged') \in LogLines
      BY <2>2 DEF Typed, Line, LogLines
    <2>4. logging' \in [Threads -> LogLines]
      BY <1>5, <2>3 DEF TdLog, Typed
    <2>5. cb' \in [Threads -> {"idle", "called", "locked"}]
      BY <1>5 DEF TdLog, Typed
    <2> QED
      BY <2>1, <2>2, <2>4, <2>5 DEF Typed
  <1>6. ASSUME NEW t \in Threads, Enter(t) \/ Drop(t) PROVE Typed'
    <2>1. UNCHANGED <<lines, taken, report, probe, logging, logged>>
      BY <1>6, QuietThread DEF Enter, Drop
    <2>2. cb' \in [Threads -> {"idle", "called", "locked"}] /\ holder' \in {holder, t}
      BY <1>6 DEF Enter, Drop, Typed
    <2> QED
      BY <2>1, <2>2 DEF Typed
  <1>7. ASSUME NEW t \in Threads, Push(t) PROVE Typed'
    <2>1. UNCHANGED <<report, probe, logging, logged>> /\ holder' = Nobody
      BY <1>7 DEF Push, OfThread, probeVars
    <2>2. logging[t] \in LogLines
      BY DEF Typed
    <2>3. lines' = Append(kept, logging[t]) /\ taken' = Append(taken, logging[t])
      BY <1>7 DEF Push
    <2>4. lines' \in Seq(LogLines) /\ Len(lines') <= MAX
      BY <2>2, <2>3, Pushed
    <2>5. taken' \in Seq(LogLines)
      BY <2>2, <2>3, AppendProperties DEF Typed
    <2>6. cb' \in [Threads -> {"idle", "called", "locked"}]
      BY <1>7 DEF Push, Typed
    <2> QED
      BY <2>1, <2>4, <2>5, <2>6 DEF Typed
  <1>8. CASE UNCHANGED vars
    BY <1>8 DEF vars, bufferVars, probeVars, threadVars, Typed
  <1> QED
    BY <1>1, <1>2, <1>3, <1>4, <1>5, <1>6, <1>7, <1>8 DEF Next, Prober, Td, Finished

LEMMA LockingStep == Typed /\ Locking /\ [Next]_vars => Locking'
  <1> SUFFICES ASSUME Typed, Locking, [Next]_vars PROVE Locking'
    OBVIOUS
  <1> USE ThreadsAssumption DEF Nobody
  <1>1. CASE Begin
    <2>1. UNCHANGED <<cb, holder>> /\ pc = "returned"
      BY <1>1 DEF Begin
    <2> QED
      BY <2>1 DEF Locking
  <1>2. CASE TryLock
    <2>1. cb' = cb /\ pc' = pc /\ pc \in {"clear", "copy"} /\ holder = Nobody /\ holder' = Main
      BY <1>2 DEF TryLock, threadVars
    <2> QED
      BY <2>1 DEF Locking
  <1>3. CASE Clear \/ Copy
    <2>1. cb' = cb /\ holder = Main /\ holder' = Nobody
      BY <1>3 DEF Clear, Copy, Locked, threadVars
    <2> QED
      BY <2>1 DEF Locking
  <1>4. CASE SkipClear \/ Install \/ Probe \/ SkipCopy \/ Shutdown \/ DropGuard
    <2>1. cb' = cb /\ holder # Main /\ holder' = holder
      BY <1>4 DEF SkipClear, Install, Probe, SkipCopy, Shutdown, DropGuard, Unlocked,
                    threadVars
    <2> QED
      BY <2>1 DEF Locking
  <1>5. ASSUME NEW t \in Threads, TdLog(t) PROVE Locking'
    <2>1. /\ cb[t] = "idle" /\ cb' = [cb EXCEPT ![t] = "called"]
          /\ holder' = holder /\ pc' = pc
      BY <1>5, QuietThread DEF TdLog
    <2> QED
      BY <2>1 DEF Locking, Typed
  <1>6. ASSUME NEW t \in Threads, Enter(t) PROVE Locking'
    <2>1. /\ cb[t] = "called" /\ cb' = [cb EXCEPT ![t] = "locked"]
          /\ holder = Nobody /\ holder' = t /\ pc' = pc
      BY <1>6, QuietThread DEF Enter
    <2> QED
      BY <2>1 DEF Locking, Typed
  <1>7. ASSUME NEW t \in Threads, Drop(t) PROVE Locking'
    <2>1. /\ cb[t] = "called" /\ cb' = [cb EXCEPT ![t] = "idle"]
          /\ holder' = holder /\ pc' = pc
      BY <1>7, QuietThread DEF Drop
    <2> QED
      BY <2>1 DEF Locking, Typed
  <1>8. ASSUME NEW t \in Threads, Push(t) PROVE Locking'
    <2>1. /\ cb[t] = "locked" /\ cb' = [cb EXCEPT ![t] = "idle"] /\ holder' = Nobody
      BY <1>8 DEF Push
    <2> QED
      BY <2>1 DEF Locking, Typed
  <1>9. CASE UNCHANGED vars
    BY <1>9 DEF vars, threadVars, Locking
  <1> QED
    BY <1>1, <1>2, <1>3, <1>4, <1>5, <1>6, <1>7, <1>8, <1>9 DEF Next, Prober, Td, Finished

-----------------------------------------------------------------------------
(* The order of the lines.                                                 *)

\* What is known of a line is not forgotten.
LEMMA StillKnown ==
  ASSUME Typed, NEW l \in LogLines, Known(l),
         \/ UNCHANGED <<probe, logged>>
         \/ probe' = probe + 1 /\ logged' = 0
         \/ probe' = probe /\ logged' = logged + 1
  PROVE  Known(l)'
  <1>1. probe \in Nat /\ logged \in Nat /\ l.probe \in Nat /\ l.no \in Nat
    BY BoundsAssumption DEF Typed, LogLines
  <1>2. l.probe < probe' \/ (l.probe = probe' /\ l.no <= logged')
    BY <1>1 DEF Known
  <1> QED
    BY <1>2 DEF Known

LEMMA NumberedStep == Typed /\ Numbered /\ [Next]_vars => Numbered'
  <1> SUFFICES ASSUME Typed, Numbered, [Next]_vars PROVE Numbered'
    OBVIOUS
  <1>a. \A i \in DOMAIN lines : lines[i] \in LogLines /\ Known(lines[i])
    BY ElementOfSeq, LenProperties DEF Typed, Numbered
  <1>b. \A t \in Threads : logging[t] \in LogLines /\ logging[t].by = t /\ Known(logging[t])
    BY DEF Typed, Numbered
  <1>1. CASE Begin
    <2>1. UNCHANGED <<lines, cb, logging>> /\ report' = <<>>
      BY <1>1 DEF Begin, bufferVars
    <2>2. probe' = probe + 1 /\ logged' = 0
      BY <1>1 DEF Begin
    <2>3. \A i \in DOMAIN lines : Known(lines[i])'
      BY <2>1, <2>2, <1>a, StillKnown
    <2>4. \A t \in Threads : Known(logging[t])'
      BY <2>1, <2>2, <1>b, StillKnown
    <2>5. InOrder(report)'
      BY <2>1 DEF InOrder
    <2> QED
      BY <2>1, <2>3, <2>4, <2>5 DEF Numbered, InOrder, Earlier
  <1>2. CASE TryLock \/ SkipClear \/ Install \/ Probe \/ SkipCopy \/ Shutdown \/ DropGuard
    <2>1. UNCHANGED <<lines, report, probe, cb, logging, logged>>
      BY <1>2, QuietProbe
    <2> QED
      BY <2>1 DEF Numbered, InOrder, Earlier, Known
  <1>3. CASE Clear
    <2>1. UNCHANGED <<report, probe, cb, logging, logged>> /\ lines' = <<>>
      BY <1>3 DEF Clear, Locked, probeVars, threadVars
    <2> QED
      BY <2>1 DEF Numbered, InOrder, Earlier, Known
  <1>4. CASE Copy
    <2>1. UNCHANGED <<lines, probe, cb, logging, logged>> /\ report' = lines
      BY <1>4 DEF Copy, Locked, bufferVars, probeVars, threadVars
    <2> QED
      BY <2>1 DEF Numbered, InOrder, Earlier, Known
  <1>5. ASSUME NEW t \in Threads, TdLog(t) PROVE Numbered'
    <2>1. UNCHANGED <<lines, report, probe>> /\ logged' = logged + 1
      BY <1>5, QuietThread DEF TdLog
    <2>2. /\ cb' = [cb EXCEPT ![t] = "called"]
          /\ logging' = [logging EXCEPT ![t] = Line(probe, t, logged')]
      BY <1>5 DEF TdLog
    <2>3. \A i \in DOMAIN lines : Known(lines[i])'
      BY <2>1, <1>a, StillKnown
    <2>4. ASSUME NEW u \in Threads, u # t
          PROVE  logging'[u] = logging[u] /\ cb'[u] = cb[u] /\ Known(logging[u])'
      <3>1. Known(logging[u])'
        <4>1. Known(logging[u]) /\ logging[u] \in LogLines
          BY <1>b
        <4>2. logging'[u] = logging[u]
          BY <2>2, <2>4 DEF Typed
        <4> QED
          BY <4>1, <4>2, <2>1, StillKnown
      <3> QED
        BY <2>2, <2>4, <3>1 DEF Typed
    <2>5. logging'[t] = Line(probe, t, logged + 1)
      BY <2>1, <2>2 DEF Typed
    <2>6. Known(logging[t])' /\ logging'[t].by = t
      BY <2>1, <2>5, BoundsAssumption DEF Known, Line, Typed
    <2>7. \A i \in DOMAIN lines : Earlier(lines[i], logging'[t])
      BY <2>1, <2>5, <1>a, BoundsAssumption DEF Earlier, Known, Line, LogLines, Typed
    <2>8. InOrder(lines)' /\ InOrder(report)'
      BY <2>1 DEF Numbered, InOrder, Earlier
    <2>9. \A u \in Threads : cb'[u] # "idle" =>
            \A i \in DOMAIN lines' : lines'[i].by = u => Earlier(lines'[i], logging'[u])
      BY <2>1, <2>4, <2>7 DEF Numbered
    <2>10. \A u \in Threads : logging'[u].by = u /\ Known(logging[u])'
      BY <2>4, <2>6, <1>b
    <2>11. \A i \in DOMAIN lines' : Known(lines[i])'
      BY <2>1, <2>3
    <2>12. \A u \in Threads : cb[u]' # "idle" =>
            \A i \in DOMAIN lines' : lines[i]'.by = u => Earlier(lines[i], logging[u])'
      BY <2>9 DEF Earlier
    <2> QED
      BY <2>8, <2>10, <2>11, <2>12 DEF Numbered
  <1>6. ASSUME NEW t \in Threads, Enter(t) \/ Drop(t) PROVE Numbered'
    <2>1. UNCHANGED <<lines, report, probe, logging, logged>>
      BY <1>6, QuietThread DEF Enter, Drop
    <2>2. \A u \in Threads : cb'[u] # "idle" => cb[u] # "idle"
      BY <1>6 DEF Enter, Drop, Typed
    <2>3. InOrder(lines)' /\ InOrder(report)' /\ \A i \in DOMAIN lines' : Known(lines[i])'
      BY <2>1 DEF Numbered, InOrder, Earlier, Known
    <2>4. \A u \in Threads : logging'[u].by = u /\ Known(logging[u])'
      BY <2>1 DEF Numbered, Known
    <2>5. \A u \in Threads : cb[u]' # "idle" =>
            \A i \in DOMAIN lines' : lines[i]'.by = u => Earlier(lines[i], logging[u])'
      BY <2>1, <2>2 DEF Numbered, Earlier
    <2> QED
      BY <2>3, <2>4, <2>5 DEF Numbered
  <1>7. ASSUME NEW t \in Threads, Push(t) PROVE Numbered'
    <2>1. UNCHANGED <<report, probe, logging, logged>>
      BY <1>7 DEF Push, OfThread, probeVars
    <2>2. lines' = Append(kept, logging[t]) /\ cb[t] = "locked" /\ cb' = [cb EXCEPT ![t] = "idle"]
      BY <1>7 DEF Push
    <2>3. /\ Len(lines') \in Nat /\ DOMAIN lines' = 1..Len(lines')
          /\ DOMAIN lines = 1..Len(lines) /\ Len(lines) \in Nat /\ Dropped \in {0, 1}
      <3>1. logging[t] \in LogLines
        BY <1>b
      <3>2. lines' \in Seq(LogLines)
        BY <2>2, <3>1, Pushed
      <3> QED
        BY <3>2, LenProperties DEF Dropped, Typed
    <2>4. /\ lines'[Len(lines')] = logging[t]
          /\ \A i \in 1..Len(lines') : i # Len(lines') =>
               i + Dropped \in 1..Len(lines) /\ lines'[i] = lines[i + Dropped]
      BY <2>2, <1>b, Pushed
    <2>5. \A i \in DOMAIN lines' : Known(lines[i])'
      <3> SUFFICES ASSUME NEW i \in DOMAIN lines' PROVE Known(lines'[i])
        BY <2>1 DEF Known
      <3>1. CASE i = Len(lines')
        BY <3>1, <2>4, <1>b
      <3>2. CASE i # Len(lines')
        BY <3>2, <2>3, <2>4, <1>a
      <3> QED
        BY <3>1, <3>2
    <2>6. ASSUME NEW i \in DOMAIN lines', NEW j \in DOMAIN lines', i < j,
                 lines'[i].by = lines'[j].by
          PROVE  Earlier(lines'[i], lines'[j])
      <3>1. i \in Nat /\ j \in Nat /\ i # Len(lines')
        BY <2>3, <2>6
      <3>2. i + Dropped \in DOMAIN lines /\ lines'[i] = lines[i + Dropped]
        BY <2>3, <2>4, <3>1
      <3>3. CASE j = Len(lines')
        BY <3>2, <3>3, <2>2, <2>4, <2>6, <1>b DEF Numbered
      <3>4. CASE j # Len(lines')
        <4>1. j + Dropped \in DOMAIN lines /\ lines'[j] = lines[j + Dropped]
          BY <2>3, <2>4, <3>4
        <4>2. i + Dropped < j + Dropped
          BY <2>3, <2>6, <3>1
        <4> QED
          BY <3>2, <4>1, <4>2, <2>6 DEF Numbered, InOrder
      <3> QED
        BY <3>3, <3>4
    <2>7. InOrder(lines)' /\ InOrder(report)'
      BY <2>1, <2>6 DEF Numbered, InOrder, Earlier
    <2>8. ASSUME NEW u \in Threads, cb'[u] # "idle", NEW i \in DOMAIN lines', lines'[i].by = u
          PROVE  Earlier(lines'[i], logging'[u])
      <3>1. u # t /\ cb[u] # "idle"
        BY <2>2, <2>8 DEF Typed
      <3>2. i # Len(lines')
        BY <3>1, <2>4, <2>8, <1>b
      <3>3. i + Dropped \in DOMAIN lines /\ lines'[i] = lines[i + Dropped]
        BY <2>3, <2>4, <3>2
      <3> QED
        BY <3>1, <3>3, <2>1, <2>8 DEF Numbered
    <2>9. \A u \in Threads : cb[u]' # "idle" =>
            \A i \in DOMAIN lines' : lines[i]'.by = u => Earlier(lines[i], logging[u])'
      BY <2>8 DEF Earlier
    <2>10. \A u \in Threads : logging'[u].by = u /\ Known(logging[u])'
      BY <2>1 DEF Numbered, Known
    <2> QED
      BY <2>5, <2>7, <2>9, <2>10 DEF Numbered
  <1>8. CASE UNCHANGED vars
    <2>1. UNCHANGED <<lines, report, probe, cb, logging, logged>>
      BY <1>8 DEF vars, bufferVars, probeVars, threadVars
    <2> QED
      BY <2>1 DEF Numbered, InOrder, Earlier, Known
  <1> QED
    BY <1>1, <1>2, <1>3, <1>4, <1>5, <1>6, <1>7, <1>8 DEF Next, Prober, Td, Finished

-----------------------------------------------------------------------------
(* Which lines are kept, and whose they are.                               *)

LEMMA LatestStep == Typed /\ Latest /\ [Next]_vars => Latest'
  <1> SUFFICES ASSUME Typed, Latest, [Next]_vars PROVE Latest'
    OBVIOUS
  <1>a. CASE UNCHANGED <<lines, taken>>
    BY <1>a DEF Latest, After
  <1>1. CASE Begin \/ UNCHANGED vars
    BY <1>1, <1>a DEF Begin, vars, bufferVars
  <1>2. CASE TryLock \/ SkipClear \/ Install \/ Probe \/ SkipCopy \/ Shutdown \/ DropGuard
    BY <1>2, <1>a, QuietProbe
  <1>3. CASE Clear
    <2>1. lines' = <<>> /\ taken' = <<>>
      BY <1>3 DEF Clear
    <2> QED
      BY <2>1 DEF Latest, After
  <1>4. CASE Copy
    BY <1>4, <1>a DEF Copy, bufferVars
  <1>5. ASSUME NEW t \in Threads, TdLog(t) \/ Enter(t) \/ Drop(t) PROVE Latest'
    BY <1>5, <1>a, QuietThread
  <1>6. ASSUME NEW t \in Threads, Push(t) PROVE Latest'
    <2>1. lines' = Append(kept, logging[t]) /\ taken' = Append(taken, logging[t])
      BY <1>6 DEF Push
    <2>2. logging[t] \in LogLines
      BY DEF Typed
    <2>3. /\ Len(lines') = Len(lines) - Dropped + 1 /\ lines'[Len(lines')] = logging[t]
          /\ \A i \in 1..Len(lines') : i # Len(lines') =>
               i + Dropped \in 1..Len(lines) /\ lines'[i] = lines[i + Dropped]
      <3>0. lines' = Append(kept, logging[t])
        BY <2>1
      <3>1. Len(lines') = Len(lines) - Dropped + 1
        BY <3>0, <2>2, Pushed
      <3>2. lines'[Len(lines')] = logging[t]
        BY <3>0, <2>2, Pushed
      <3>3. \A i \in 1..Len(lines') : i # Len(lines') =>
              i + Dropped \in 1..Len(lines) /\ lines'[i] = lines[i + Dropped]
        BY <3>0, <2>2, Pushed
      <3> QED
        BY <3>1, <3>2, <3>3
    <2>4. /\ Len(taken') = Len(taken) + 1 /\ taken'[Len(taken) + 1] = logging[t]
          /\ \A i \in 1..Len(taken) : taken'[i] = taken[i]
      BY <2>1, <2>2, AppendProperties DEF Typed
    <2>5. Len(lines) \in Nat /\ Len(taken) \in Nat /\ MAX \in Nat /\ Len(lines) <= MAX
      BY LenProperties, MaxAssumption DEF Typed
    <2>6. PICK n \in 0..Len(taken) : After(n)
      BY DEF Latest
    <2>7. Len(lines) = Len(taken) - n /\ (Len(lines) = MAX \/ n = 0)
      BY <2>6 DEF After
    <2>8. \A i \in 1..Len(lines) : lines[i] = taken[i + n]
      BY <2>6 DEF After
    <2> DEFINE m == n + Dropped
    <2>9. /\ Dropped \in {0, 1} /\ (Dropped = 1 <=> Len(lines) = MAX)
      BY <2>5 DEF Dropped
    <2>10. Dropped <= Len(lines)
      BY <2>5, <2>9, MaxAssumption
    <2>11. m \in 0..Len(taken')
      BY <2>4, <2>5, <2>7, <2>9, <2>10
    <2>12. Len(lines') = Len(taken') - m
      BY <2>3, <2>4, <2>5, <2>7, <2>9
    <2>13. Len(lines') = MAX \/ m = 0
      <3>1. Len(lines') = Len(lines) - Dropped + 1
        BY <2>3
      <3>2. CASE Dropped = 1
        BY <3>1, <3>2, <2>5, <2>9
      <3>3. CASE Dropped = 0
        <4>1. Len(lines) # MAX
          BY <3>3, <2>9
        <4> QED
          BY <4>1, <3>3, <2>5, <2>7
      <3> QED
        BY <3>2, <3>3, <2>9
    <2>14. ASSUME NEW i \in 1..Len(lines') PROVE lines'[i] = taken'[i + m]
      <3>1. CASE i = Len(lines')
        <4>1. i + m = Len(taken) + 1
          BY <3>1, <2>4, <2>5, <2>9, <2>12
        <4> QED
          BY <4>1, <3>1, <2>3, <2>4
      <3>2. CASE i # Len(lines')
        <4>1. i + Dropped \in 1..Len(lines) /\ lines'[i] = lines[i + Dropped]
          BY <3>2, <2>3
        <4>2. lines[i + Dropped] = taken[(i + Dropped) + n]
          BY <4>1, <2>8
        <4>3. (i + Dropped) + n = i + m /\ i + m \in 1..Len(taken)
          BY <4>1, <2>5, <2>7, <2>9
        <4> QED
          BY <4>1, <4>2, <4>3, <2>4
      <3> QED
        BY <3>1, <3>2
    <2>15. \E k \in 0..Len(taken') :
             /\ Len(lines') = Len(taken') - k /\ (Len(lines') = MAX \/ k = 0)
             /\ \A i \in 1..Len(lines') : lines'[i] = taken'[i + k]
      BY <2>11, <2>12, <2>13, <2>14
    <2> QED
      BY <2>15 DEF Latest, After
  <1> QED
    BY <1>1, <1>2, <1>3, <1>4, <1>5, <1>6 DEF Next, Prober, Td, Finished

LEMMA OwnStep ==
  Typed /\ Locking /\ Guarded /\ Own /\ [Next]_vars => Own'
  <1> SUFFICES ASSUME Typed, Locking, Guarded, Own, [Next]_vars PROVE Own'
    OBVIOUS
  <1>1. CASE Begin
    <2>1. UNCHANGED <<cb, logging>> /\ report' = <<>>
      BY <1>1 DEF Begin
    <2>2. straggler' = (Running # {})
      BY <1>1 DEF Begin
    <2>3. verbose' => pc' \in {"clear", "returned"}
      BY <1>1 DEF Begin
    <2>4. ~straggler' => \A t \in Threads : cb'[t] = "idle"
      BY <2>1, <2>2 DEF Running
    <2> QED
      BY <2>1, <2>3, <2>4 DEF Own, VerboseReportIsOwn
  <1>2. CASE TryLock
    <2>1. UNCHANGED <<lines, report, probe, verbose, straggler, cb, logging>>
      BY <1>2, QuietProbe
    <2>2. pc' = pc
      BY <1>2 DEF TryLock
    <2> QED
      BY <2>1, <2>2 DEF Own, VerboseReportIsOwn
  <1>3. CASE Clear
    <2>1. UNCHANGED <<report, probe, verbose, straggler, cb, logging>>
      BY <1>3 DEF Clear, Locked, probeVars, threadVars
    <2>2. lines' = <<>> /\ pc = "clear"
      BY <1>3 DEF Clear, Locked
    <2> QED
      BY <2>1, <2>2 DEF Own, VerboseReportIsOwn
  <1>4. CASE SkipClear
    <2>1. UNCHANGED <<lines, report, probe, verbose, straggler, cb, logging>>
      BY <1>4, QuietProbe
    <2>2. pc = "clear" /\ holder # Main /\ holder # Nobody
      BY <1>4 DEF SkipClear, Unlocked
    <2>3. holder \in Threads /\ cb[holder] = "locked"
      BY <2>2 DEF Typed, Locking
    <2>4. straggler
      BY <2>2, <2>3 DEF Own
    <2> QED
      BY <2>1, <2>4 DEF Own, VerboseReportIsOwn
  <1>5. CASE Install \/ Probe \/ SkipCopy \/ Shutdown \/ DropGuard
    <2>1. UNCHANGED <<lines, report, probe, verbose, straggler, cb, logging>>
      BY <1>5, QuietProbe
    <2>2. pc \notin {"clear", "returned"} /\ pc' \notin {"clear", "install"}
      BY <1>5 DEF Install, Probe, SkipCopy, Shutdown, DropGuard, Unlocked
    <2> QED
      BY <2>1, <2>2 DEF Own, VerboseReportIsOwn
  <1>6. CASE Copy
    <2>1. UNCHANGED <<lines, probe, verbose, straggler, cb, logging>> /\ report' = lines
      BY <1>6 DEF Copy, Locked, bufferVars, probeVars, threadVars
    <2>2. pc = "copy" /\ pc' = "shutdown"
      BY <1>6 DEF Copy, Locked
    <2> QED
      BY <2>1, <2>2 DEF Own, VerboseReportIsOwn
  <1>7. ASSUME NEW t \in Threads, TdLog(t) PROVE Own'
    <2>1. UNCHANGED <<lines, report, probe, verbose, straggler, pc>>
      BY <1>7, QuietThread
    <2>2. pc \notin {"clear", "install"}
      BY <1>7 DEF TdLog, Guarded, CallbackIsScoped
    <2>3. logging'[t].probe = probe
      BY <1>7 DEF TdLog, Line, Typed
    <2>4. \A u \in Threads : u # t => cb'[u] = cb[u] /\ logging'[u] = logging[u]
      BY <1>7 DEF TdLog, Typed
    <2> QED
      BY <2>1, <2>2, <2>3, <2>4 DEF Own, VerboseReportIsOwn
  <1>8. ASSUME NEW t \in Threads, Enter(t) \/ Drop(t) PROVE Own'
    <2>1. UNCHANGED <<lines, report, probe, verbose, straggler, pc, logging>>
      BY <1>8, QuietThread DEF Enter, Drop
    <2>2. \A u \in Threads : cb'[u] # "idle" => cb[u] # "idle"
      BY <1>8 DEF Enter, Drop, Typed
    <2> QED
      BY <2>1, <2>2 DEF Own, VerboseReportIsOwn
  <1>9. ASSUME NEW t \in Threads, Push(t) PROVE Own'
    <2>1. UNCHANGED <<report, probe, verbose, straggler, pc, logging>>
      BY <1>9 DEF Push, OfThread, probeVars
    <2>2. cb[t] = "locked" /\ \A u \in Threads : cb'[u] # "idle" => cb[u] # "idle"
      BY <1>9 DEF Push, Typed
    <2>3. lines' = Append(kept, logging[t]) /\ logging[t] \in LogLines
      BY <1>9 DEF Push, Typed
    <2>4. /\ DOMAIN lines' = 1..Len(lines') /\ lines'[Len(lines')] = logging[t]
          /\ \A i \in 1..Len(lines') : i # Len(lines') =>
               i + Dropped \in 1..Len(lines) /\ lines'[i] = lines[i + Dropped]
      BY <2>3, Pushed
    <2>5. DOMAIN lines = 1..Len(lines)
      BY LenProperties DEF Typed
    <2>6. ASSUME verbose, ~straggler, pc \notin {"clear", "returned"}, NEW i \in DOMAIN lines'
          PROVE  lines'[i].probe = probe
      <3>1. CASE i = Len(lines')
        BY <3>1, <2>2, <2>4, <2>6 DEF Own
      <3>2. CASE i # Len(lines')
        BY <3>2, <2>4, <2>5, <2>6 DEF Own
      <3> QED
        BY <3>1, <3>2
    <2> QED
      BY <2>1, <2>2, <2>6 DEF Own, VerboseReportIsOwn
  <1>10. CASE UNCHANGED vars
    <2>1. UNCHANGED <<lines, report, probe, verbose, straggler, pc, cb, logging>>
      BY <1>10 DEF vars, bufferVars, probeVars, threadVars
    <2> QED
      BY <2>1 DEF Own, VerboseReportIsOwn
  <1> QED
    BY <1>1, <1>2, <1>3, <1>4, <1>5, <1>6, <1>7, <1>8, <1>9, <1>10 DEF Next, Prober, Td, Finished

-----------------------------------------------------------------------------
LEMMA LogStep == LogInv /\ [Next]_vars => LogInv'
  BY TypedStep, LockingStep, GuardedStep, NumberedStep, LatestStep, OwnStep DEF LogInv

\* Taken element by element or as one piece, the lines that are left are the same.
LEMMA LatestIsSuffix ==
  ASSUME Typed, NEW n \in 0..Len(taken), After(n)
  PROVE  lines = SubSeq(taken, n + 1, Len(taken))
  <1>1. Len(lines) \in Nat /\ Len(taken) \in Nat
    BY LenProperties DEF Typed
  <1>2. \A i \in (n + 1)..Len(taken) : taken[i] \in LogLines
    <2> SUFFICES ASSUME NEW i \in (n + 1)..Len(taken) PROVE taken[i] \in LogLines
      OBVIOUS
    <2>1. i \in 1..Len(taken)
      BY <1>1
    <2> QED
      BY <2>1, ElementOfSeq DEF Typed
  <1> DEFINE s == SubSeq(taken, n + 1, Len(taken))
  <1>3. n + 1 \in Int /\ Len(taken) \in Int
    BY <1>1
  <1>4. /\ s \in Seq(LogLines)
        /\ Len(s) = IF n + 1 <= Len(taken) THEN Len(taken) - (n + 1) + 1 ELSE 0
        /\ \A i \in 1..(Len(taken) - (n + 1) + 1) : s[i] = taken[(n + 1) + i - 1]
    BY <1>2, <1>3, SubSeqProperties
  <1>5. Len(lines) = Len(s)
    BY <1>1, <1>4 DEF After
  <1>6. ASSUME NEW i \in 1..Len(lines) PROVE lines[i] = s[i]
    <2>1. lines[i] = taken[i + n]
      BY DEF After
    <2>2. i \in 1..(Len(taken) - (n + 1) + 1) /\ (n + 1) + i - 1 = i + n
      BY <1>1 DEF After
    <2> QED
      BY <2>1, <2>2, <1>4
  <1> HIDE DEF s
  <1>7. lines = s
    BY <1>4, <1>5, <1>6, SeqEqual DEF Typed
  <1> QED
    BY <1>7 DEF s

LEMMA LogInvMeans == LogInv => TypeOK /\ LatestLinesKept /\ VerboseReportIsOwn
  <1> SUFFICES ASSUME LogInv PROVE TypeOK /\ LatestLinesKept /\ VerboseReportIsOwn
    OBVIOUS
  <1>1. TypeOK
    BY DEF LogInv, Typed, Locking, TypeOK
  <1>2. \E n \in 0..Len(taken) :
          /\ lines = SubSeq(taken, n + 1, Len(taken))
          /\ Len(lines) = MAX \/ n = 0
    <2>1. PICK n \in 0..Len(taken) : After(n)
      BY DEF LogInv, Latest
    <2> QED
      BY <2>1, LatestIsSuffix DEF LogInv, After
  <1>3. LatestLinesKept
    BY <1>2 DEF LogInv, Numbered, InOrder, Earlier, LatestLinesKept
  <1>4. VerboseReportIsOwn
    BY DEF LogInv, Own
  <1> QED
    BY <1>1, <1>3, <1>4

\* However TDLib's threads and the probes interleave at the buffer and whoever finds it
\* locked: it is bounded and holds the latest lines taken down, each thread's in order,
\* a verbose report holds lines of its own probe only, and no thread is given the
\* callback outside a verbose probe, nor while TDLib closes.
THEOREM LogCorrect ==
  Spec => [](TypeOK /\ LatestLinesKept /\ VerboseReportIsOwn /\ CallbackIsScoped)
  <1>1. LogInv => TypeOK /\ LatestLinesKept /\ VerboseReportIsOwn /\ CallbackIsScoped
    BY LogInvMeans DEF LogInv, Guarded
  <1> QED
    BY <1>1, LogInit, LogStep, PTL DEF Spec

\* The parts of LogCorrect, one by one: the buffer, the threads and the reports keep
\* their types, and the buffer is never longer than MAX_CAPTURED_LINES.
THEOREM LogTypes == Spec => []TypeOK
  BY LogCorrect, PTL

\* What a verbose probe reports was logged while it ran, unless a callback straggled.
THEOREM VerboseReportsAreOwn == Spec => []VerboseReportIsOwn
  BY LogCorrect, PTL

\* The callback is installed inside a verbose probe only, whichever way it returns.
THEOREM CallbackStaysInProbe == Spec => []CallbackIsScoped
  BY LogCorrect, PTL
=============================================================================
