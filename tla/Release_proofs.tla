--------------------------- MODULE Release_proofs ---------------------------
(***************************************************************************)
(* Theorems about Release, for any matrix of groups and rows, any tags and *)
(* commits, and any number of runs, re-runs and prebuilt trees.            *)
(***************************************************************************)
EXTENDS Release, TLAPS, FiniteSetTheorems, WellFoundedInduction

\* Trees none of which was unpacked in part.
Unbroken == [TDs -> {"none", "whole"}]
\* Values of the variables.
WorkType == [trees : Trees, missed : BOOLEAN]
Typed ==
  /\ tag \in [Tags -> Commits \cup {NoCommit}]
  /\ run \in [Runs -> RunType]
  /\ job \in [Runs -> [Jobs -> Statuses]]
  /\ work \in [Runs -> [Jobs -> WorkType]]
  /\ artifact \in [Runs -> [Groups -> SUBSET Trees]]
  /\ release \in [Tags -> [Legs -> 0..MaxRuns]]
  /\ draft \in [Runs -> SUBSET Legs] /\ lost \in [Runs -> SUBSET Legs]
  /\ prebuilt \subseteq Groups \X TDs
  /\ cache \in [Keys -> SUBSET Trees]
  /\ compiled \in [Runs -> SUBSET Jobs] /\ linked \in [Runs -> [Legs -> {"", "static", "dynamic"}]]
  /\ damaged \in {"no", "yes"} /\ reruns \subseteq Runs /\ packs \in 0..MaxPacks

\* Runs begin in order; one that has not begun has nothing.
Begun ==
  \A r \in Runs :
    IF run[r].stage = "none"
    THEN /\ run[r].ref = "branch" /\ r \notin reruns
         /\ \A g \in Groups : artifact[r][g] = {}
         /\ \A q \in Runs : q > r => run[q].stage = "none"
    ELSE Commit(r) \in Commits

\* A job is at work only in its stage, and the rows only in the prepared trees.
StagedAt(r) ==
  /\ \A g \in Groups : job[r][g] = "built" => run[r].stage = "prep"
  /\ \A l \in Legs : job[r][l] = "built" => run[r].stage = "build"
  /\ run[r].stage = "build" => AllPrepared(r)
  /\ \A l \in Legs : job[r][l] # "waiting" => AllPrepared(r)
  /\ \A g \in Groups : job[r][g] = "ok" => artifact[r][g] # {}
  /\ run[r].result # "" => run[r].stage = "over"
  /\ run[r].result = "unpublished" => ~AllPrepared(r)
Staged == \A r \in Runs : StagedAt(r)

\* A run is over before a later one of its ref starts, unless it is re-run.
Ordered ==
  \A q \in Runs, r \in Runs :
    q < r /\ run[q].ref = run[r].ref /\ run[r].stage # "none" /\ q \notin reruns =>
      \/ run[q].stage \in {"over", "cancelled"}
      \/ Active(q) /\ run[r].stage \in {"queued", "cancelled"} /\ r \notin reruns

\* The latest run of a tag is of its commit.
Tagged == \A t \in Tags : \A r \in Latest(t) : Commit(r) = tag[t]

\* Archives are of rows that succeeded, and a tag's of runs of the tag.
Genuine ==
  /\ \A r \in Runs, l \in Legs : job[r][l] = "ok" => Verified(r, l)
  /\ \A r \in Runs : \A l \in draft[r] \cup lost[r] : job[r][l] = "ok"
  /\ \A t \in Tags, l \in Legs : LET k == release[t][l] IN
       k # 0 => run[k].ref = t /\ job[k][l] = "ok"

\* What succeeded in a run that ended well, and did not get lost, is published: by it or
\* by a later run or a re-run, or one of these took it away.
PublishedOf(r, l) ==
  IF run[r].ref \in Tags
  THEN LET k == release[run[r].ref][l]
       IN k >= r \/ k \in reruns \/ (k = 0 /\ Displaced(r, l))
  ELSE l \in draft[r]
Published ==
  \A r \in Runs : run[r].result \in {"published", "unpublished"} =>
    \A l \in Succeeded(r) \ lost[r] : PublishedOf(r, l)

\* Without a tree unpacked in part there is none anywhere, what is prepared is whole,
\* and no row compiles.
Whole ==
  damaged = "no" =>
    /\ \A k \in Keys : cache[k] \subseteq Unbroken
    /\ \A r \in Runs :
         /\ compiled[r] \subseteq Groups
         /\ \A j \in Jobs : work[r][j].trees \in Unbroken
         /\ \A g \in Groups :
              /\ job[r][g] = "built" => work[r][g].trees[Commit(r).td] = "whole"
              /\ \A trees \in artifact[r][g] :
                   trees \in Unbroken /\ trees[Commit(r).td] = "whole"

ReleaseInv == Typed /\ Begun /\ Staged /\ Ordered /\ Tagged /\ Genuine /\ Published /\ Whole

-----------------------------------------------------------------------------
\* The jobs of a run are those of the groups and the rows, and no job is both.
LEMMA JobsAre ==
  /\ Groups \subseteq Jobs /\ Legs \subseteq Jobs
  /\ \A g \in Groups : GroupOf(g) = g
  /\ \A l \in Legs : l \notin Groups /\ LegGroup[l] \in Groups /\ GroupOf(l) = LegGroup[l]
  /\ \A j \in Jobs : j \in Groups \/ j \in Legs
  BY LegsAssumption DEF Jobs, GroupOf

\* What is assigned to one job of one run.
LEMMA JobSet ==
  ASSUME Typed, NEW r \in Runs, NEW j \in Jobs, NEW s \in Statuses, Status(r, j, s)
  PROVE  /\ job' \in [Runs -> [Jobs -> Statuses]]
         /\ job'[r][j] = s
         /\ \A q \in Runs, i \in Jobs : q # r \/ i # j => job'[q][i] = job[q][i]
  BY DEF Typed, Status

\* What is assigned to one runner.
LEMMA WorkSet ==
  ASSUME Typed, NEW r \in Runs, NEW j \in Jobs, NEW w \in WorkType,
         work' = [work EXCEPT ![r][j] = w]
  PROVE  /\ work' \in [Runs -> [Jobs -> WorkType]]
         /\ work'[r][j] = w
         /\ \A q \in Runs, i \in Jobs : q # r \/ i # j => work'[q][i] = work[q][i]
  BY DEF Typed

\* What is assigned to the record of one run.
LEMMA CompiledSet ==
  ASSUME Typed, NEW r \in Runs, NEW c \in SUBSET Jobs, compiled' = [compiled EXCEPT ![r] = c]
  PROVE  /\ compiled' \in [Runs -> SUBSET Jobs]
         /\ compiled'[r] = c
         /\ \A q \in Runs : q # r => compiled'[q] = compiled[q]
  BY DEF Typed

\* What is assigned to the binary of one row.
LEMMA LinkedSet ==
  ASSUME Typed, NEW r \in Runs, NEW l \in Legs, NEW how \in {"", "static", "dynamic"},
         linked' = [linked EXCEPT ![r][l] = how]
  PROVE  /\ linked' \in [Runs -> [Legs -> {"", "static", "dynamic"}]]
         /\ linked'[r][l] = how
         /\ \A q \in Runs, i \in Legs : q # r \/ i # l => linked'[q][i] = linked[q][i]
  BY DEF Typed

\* A run that moves to another stage.
LEMMA RunMoves ==
  ASSUME Typed, NEW r \in Runs, NEW s \in Stages, Move(r, s)
  PROVE  /\ run' \in [Runs -> RunType]
         /\ run'[r].stage = s /\ run'[r].result = run[r].result
         /\ run'[r].ref = run[r].ref /\ run'[r].commit = run[r].commit
         /\ \A q \in Runs : q # r => run'[q] = run[q]
  <1> DEFINE x == [run[r] EXCEPT !.stage = s]
  <1>1. run \in [Runs -> RunType] /\ run[r] \in RunType
    BY DEF Typed
  <1>2. x \in RunType /\ x.stage = s /\ x.result = run[r].result
        /\ x.ref = run[r].ref /\ x.commit = run[r].commit
    BY <1>1 DEF RunType
  <1>3. run' = [run EXCEPT ![r] = x]
    BY DEF Move
  <1> HIDE DEF x
  <1> QED
    BY <1>1, <1>2, <1>3

\* A run that ends with a result.
LEMMA RunEnds ==
  ASSUME Typed, NEW r \in Runs, NEW x \in {"invalid", "unpublished", "failed", "published"},
         Over(r, x)
  PROVE  /\ run' \in [Runs -> RunType]
         /\ run'[r].stage = "over" /\ run'[r].result = x
         /\ run'[r].ref = run[r].ref /\ run'[r].commit = run[r].commit
         /\ \A q \in Runs : q # r => run'[q] = run[q]
  <1> DEFINE y == [run[r] EXCEPT !.stage = "over", !.result = x]
  <1>1. run \in [Runs -> RunType] /\ run[r] \in RunType /\ "over" \in Stages
    BY DEF Typed, Stages
  <1>2. y \in RunType /\ y.stage = "over" /\ y.result = x
        /\ y.ref = run[r].ref /\ y.commit = run[r].commit
    BY <1>1 DEF RunType
  <1>3. run' = [run EXCEPT ![r] = y]
    BY <1>1 DEF Over
  <1> HIDE DEF y
  <1> QED
    BY <1>1, <1>2, <1>3

\* The runs after one was queued.
QueuedAs(r, ref, c) ==
  /\ run' \in [Runs -> RunType]
  /\ run'[r].ref = ref /\ run'[r].commit = c
  /\ run'[r].stage = "queued" /\ run'[r].result = ""
  /\ \A q \in Runs : q # r =>
       /\ run'[q].ref = run[q].ref /\ run'[q].commit = run[q].commit
       /\ run'[q].result = run[q].result
       /\ run'[q].stage = IF run[q].ref = ref /\ run[q].stage = "queued"
                          THEN "cancelled" ELSE run[q].stage

\* A run that is queued, and what waits of its ref is cancelled.
LEMMA RunQueues ==
  ASSUME Typed, NEW r \in Runs, NEW ref \in Refs, NEW c \in Commits \cup {NoCommit},
         Queue(r, ref, c)
  PROVE  QueuedAs(r, ref, c)
  <1>1. "queued" \in Stages /\ "cancelled" \in Stages
    BY DEF Stages
  <1>2. \A q \in Runs : run[q] \in RunType
    BY DEF Typed
  <1>3. run' = [q \in Runs |->
          IF q = r THEN [ref |-> ref, commit |-> c, stage |-> "queued", result |-> ""]
          ELSE IF run[q].ref = ref /\ run[q].stage = "queued"
               THEN [run[q] EXCEPT !.stage = "cancelled"] ELSE run[q]]
    BY DEF Queue
  <1>4. [ref |-> ref, commit |-> c, stage |-> "queued", result |-> ""] \in RunType
    BY <1>1 DEF RunType
  <1>5. ASSUME NEW q \in Runs
        PROVE  /\ [run[q] EXCEPT !.stage = "cancelled"] \in RunType
               /\ LET x == [run[q] EXCEPT !.stage = "cancelled"]
                  IN x.ref = run[q].ref /\ x.commit = run[q].commit /\ x.result = run[q].result
                     /\ x.stage = "cancelled"
    BY <1>1, <1>2 DEF RunType
  <1> QED
    BY <1>2, <1>3, <1>4, <1>5 DEF QueuedAs

\* An archive stays where it is while no run publishes, whatever runs begin.
LEMMA PublishedHolds ==
  ASSUME NEW q \in Runs, NEW l \in Legs, PublishedOf(q, l),
         UNCHANGED <<release, draft, lost>>, reruns \subseteq reruns',
         run'[q].ref = run[q].ref,
         \A p \in Runs : run[p].ref # "branch" => run'[p].ref = run[p].ref
  PROVE  PublishedOf(q, l)'
  <1>1. run[q].ref \in Tags /\ Displaced(q, l) => Displaced(q, l)'
    BY RefsAssumption DEF Displaced
  <1>2. release' = release /\ draft' = draft
    OBVIOUS
  <1> QED
    BY <1>1, <1>2 DEF PublishedOf

\* A run that begins changes nothing that earlier runs have, but may cancel one.
LEMMA Begins ==
  ASSUME ReleaseInv, NEW r \in Runs, NEW ref \in Refs, NEW c \in Commits,
         IsNext(r), Queue(r, ref, c),
         UNCHANGED <<job, work, artifact, release, draft, lost, prebuilt, cache, compiled, linked,
                     damaged, reruns, packs>>
  PROVE  /\ run' \in [Runs -> RunType]
         /\ Begun' /\ Staged' /\ Ordered' /\ Genuine' /\ Published' /\ Whole'
  <1>0. Typed /\ Begun /\ Staged /\ Ordered /\ Genuine /\ Published /\ Whole
    BY DEF ReleaseInv
  <1>c. c \in Commits \cup {NoCommit}
    OBVIOUS
  <1>1. /\ run' \in [Runs -> RunType]
        /\ run'[r].ref = ref /\ run'[r].commit = c
        /\ run'[r].stage = "queued" /\ run'[r].result = ""
        /\ \A q \in Runs : q # r =>
              /\ run'[q].ref = run[q].ref /\ run'[q].commit = run[q].commit
              /\ run'[q].result = run[q].result
              /\ run'[q].stage = IF run[q].ref = ref /\ run[q].stage = "queued"
                                 THEN "cancelled" ELSE run[q].stage
    <2>1. QueuedAs(r, ref, c)
      BY <1>0, <1>c, RunQueues
    <2> QED
      BY <2>1 DEF QueuedAs
  <1>2. /\ run[r].stage = "none" /\ run[r].ref = "branch" /\ r \notin reruns
        /\ \A g \in Groups : artifact[r][g] = {}
        /\ \A q \in Runs : q > r => run[q].stage = "none"
        /\ \A q \in Runs : q < r => run[q].stage # "none"
    BY <1>0 DEF IsNext, Begun
  <1>3. Begun'
    <2>1. ASSUME NEW q \in Runs, q # r
          PROVE  run'[q].stage = "none" <=> run[q].stage = "none"
      BY <1>1, <2>1
    <2>2. ASSUME NEW q \in Runs, run'[q].stage = "none"
          PROVE  /\ run'[q].ref = "branch" /\ q \notin reruns
                 /\ \A g \in Groups : artifact[q][g] = {}
                 /\ \A p \in Runs : p > q => run'[p].stage = "none"
      <3>1. q # r /\ run[q].stage = "none"
        BY <1>1, <2>1, <2>2
      <3>2. q > r
        BY <1>2, <3>1 DEF Runs
      <3>3. \A p \in Runs : p > q => p # r
        BY <3>2 DEF Runs
      <3> QED
        BY <1>0, <1>1, <2>1, <3>1, <3>3 DEF Begun
    <2>3. ASSUME NEW q \in Runs, run'[q].stage # "none"
          PROVE  run'[q].commit \in Commits
      BY <1>0, <1>1, <2>1, <2>3 DEF Begun, Commit
    <2> QED
      BY <2>2, <2>3 DEF Begun, Commit
  <1>4. Staged'
    <2>1. SUFFICES ASSUME NEW q \in Runs PROVE StagedAt(q)'
      BY DEF Staged
    <2>2. StagedAt(q)
      BY <1>0 DEF Staged
    <2>3. /\ run[q].stage = "prep" => run'[q].stage = "prep"
          /\ run'[q].stage = "build" <=> run[q].stage = "build"
          /\ run'[q].result # "" => run'[q].stage = "over" /\ run'[q].result = run[q].result
      BY <1>1, <1>2, <2>2 DEF StagedAt
    <2>4. job' = job /\ artifact' = artifact
      OBVIOUS
    <2>5. AllPrepared(q)' <=> AllPrepared(q)
      BY <2>4 DEF AllPrepared
    <2> QED
      BY <2>2, <2>3, <2>4, <2>5 DEF StagedAt
  <1>5. Ordered'
    <2>1. SUFFICES ASSUME NEW p \in Runs, NEW q \in Runs, p < q, run'[p].ref = run'[q].ref,
                          run'[q].stage # "none", p \notin reruns
                   PROVE  \/ run'[p].stage \in {"over", "cancelled"}
                          \/ run'[p].stage \in {"prep", "build", "publish"}
                             /\ run'[q].stage \in {"queued", "cancelled"} /\ q \notin reruns
      BY DEF Ordered, Active
    <2>2. CASE q = r
      <3>1. p # r /\ run[p].stage # "none" /\ run[p] \in RunType
        BY <1>0, <1>2, <2>1, <2>2 DEF Typed, Runs
      <3>2. run[p].stage \in {"queued", "prep", "build", "publish", "over", "cancelled"}
        BY <3>1 DEF RunType, Stages
      <3> QED
        BY <1>1, <1>2, <2>1, <2>2, <3>1, <3>2
    <2>3. CASE q # r
      <3>1. run[q].stage # "none" /\ run[p].stage # "none" /\ p # r
        <4>1. run[q].stage # "none"
          BY <1>1, <2>1, <2>3
        <4>2. ~(q > r)
          BY <1>2, <4>1
        <4>3. p < r
          BY <2>1, <2>3, <4>2 DEF Runs
        <4> QED
          BY <1>2, <4>1, <4>3 DEF Runs
      <3>2. \/ run[p].stage \in {"over", "cancelled"}
            \/ run[p].stage \in {"prep", "build", "publish"}
               /\ run[q].stage \in {"queued", "cancelled"} /\ q \notin reruns
        BY <1>0, <1>1, <2>1, <2>3, <3>1 DEF Ordered, Active
      <3> QED
        BY <1>1, <2>1, <2>3, <3>1, <3>2
    <2> QED
      BY <2>2, <2>3
  <1>6. Genuine'
    <2>1. ASSUME NEW t \in Tags, NEW l \in Legs, release[t][l] # 0
          PROVE  run'[release[t][l]].ref = t /\ job[release[t][l]][l] = "ok"
      <3>1. release[t][l] \in Runs
        <4>1. release[t][l] \in 0..MaxRuns
          BY <1>0 DEF Typed
        <4> QED
          BY ONLY <4>1, <2>1, BoundsAssumption DEF Runs
      <3>2. run[release[t][l]].ref = t /\ job[release[t][l]][l] = "ok"
        BY <1>0, <2>1 DEF Genuine
      <3>3. release[t][l] # r
        BY <1>2, <3>2, RefsAssumption
      <3> QED
        BY <1>1, <3>1, <3>2, <3>3
    <2> QED
      BY <1>0, <2>1 DEF Genuine, Verified
  <1>7. Published'
    <2>1. SUFFICES ASSUME NEW q \in Runs, run'[q].result \in {"published", "unpublished"},
                          NEW l \in Succeeded(q) \ lost[q]
                   PROVE  PublishedOf(q, l)'
      BY DEF Published, Succeeded
    <2>2. q # r /\ l \in Legs
      BY <1>1, <2>1 DEF Succeeded
    <2>3. PublishedOf(q, l) /\ run'[q].ref = run[q].ref
      BY <1>0, <1>1, <2>1, <2>2 DEF Published
    <2> QED
      BY <1>1, <1>2, <2>2, <2>3, PublishedHolds
  <1>8. Whole'
    <2>1. \A g \in Groups : job[r][g] # "built"
      BY <1>0, <1>2 DEF Staged, StagedAt
    <2>a. UNCHANGED <<damaged, cache, compiled, work, job, artifact>>
      OBVIOUS
    <2>2. SUFFICES ASSUME damaged = "no", NEW q \in Runs, NEW g \in Groups
                   PROVE  /\ job[q][g] = "built" => work[q][g].trees[run'[q].commit.td] = "whole"
                          /\ \A trees \in artifact[q][g] :
                               trees \in Unbroken /\ trees[run'[q].commit.td] = "whole"
      BY <1>0, <2>a DEF Whole, Commit
    <2>3. CASE q = r
      BY <1>2, <2>1, <2>3
    <2>4. CASE q # r
      <3>1. run'[q].commit = run[q].commit
        BY <1>1, <2>4
      <3> QED
        BY <1>0, <2>2, <3>1 DEF Whole, Commit
    <2> QED
      BY <2>3, <2>4
  <1> QED
    BY <1>1, <1>3, <1>4, <1>5, <1>6, <1>7, <1>8

\* A pushed tag keeps the invariant: the new run is the latest of its tag.
LEMMA PushTagKeeps ==
  ASSUME ReleaseInv, NEW r \in Runs, PushTag(r)
  PROVE  ReleaseInv'
  <1>0. Typed /\ Tagged /\ Begun
    BY DEF ReleaseInv
  <1>1. PICK t \in Tags, c \in Commits :
          c # tag[t] /\ tag' = [tag EXCEPT ![t] = c] /\ Queue(r, t, c)
    BY DEF PushTag
  <1>2. IsNext(r) /\ UNCHANGED <<job, work, artifact, release, draft, lost, prebuilt, cache, compiled,
                                 linked, damaged, reruns, packs>>
    BY DEF PushTag
  <1>3. t \in Refs /\ c \in Commits \cup {NoCommit}
    BY DEF Refs
  <1>4. run' \in [Runs -> RunType]
        /\ Begun' /\ Staged' /\ Ordered' /\ Genuine' /\ Published' /\ Whole'
    BY <1>1, <1>2, <1>3, Begins
  <1>5. tag' \in [Tags -> Commits \cup {NoCommit}] /\ tag'[t] = c
        /\ \A u \in Tags : u # t => tag'[u] = tag[u]
    BY <1>0, <1>1 DEF Typed
  <1>6. /\ run'[r].ref = t /\ run'[r].commit = c
        /\ \A q \in Runs : q # r => run'[q].ref = run[q].ref /\ run'[q].commit = run[q].commit
    <2>1. QueuedAs(r, t, c)
      BY <1>0, <1>1, <1>3, RunQueues
    <2> QED
      BY <2>1 DEF QueuedAs
  <1>7. /\ run[r].ref = "branch"
        /\ \A q \in Runs : q > r => run[q].ref = "branch"
    BY <1>0, <1>2 DEF IsNext, Begun
  <1>8. Tagged'
    <2>1. SUFFICES ASSUME NEW u \in Tags, NEW q \in Runs, run'[q].ref = u,
                          \A p \in Runs : run'[p].ref = u => p <= q
                   PROVE  run'[q].commit = tag'[u]
      BY DEF Tagged, Latest, Commit
    <2>2. CASE u = t
      <3>1. r <= q
        BY <1>6, <2>1, <2>2
      <3>2. q > r => run'[q].ref = "branch"
        BY <1>6, <1>7 DEF Runs
      <3>3. q = r
        BY <2>1, <3>1, <3>2, RefsAssumption DEF Runs
      <3> QED
        BY <1>5, <1>6, <2>2, <3>3
    <2>3. CASE u # t
      <3>1. q # r
        BY <1>6, <2>1, <2>3
      <3>2. \A p \in Runs : run[p].ref = u => p # r
        BY <1>7, RefsAssumption
      <3>3. q \in Latest(u)
        BY <1>6, <2>1, <3>1, <3>2 DEF Latest
      <3> QED
        BY <1>0, <1>5, <1>6, <2>3, <3>1, <3>3 DEF Tagged, Commit
    <2> QED
      BY <2>2, <2>3
  <1>9. Typed'
    BY <1>0, <1>2, <1>4, <1>5 DEF Typed
  <1> QED
    BY <1>4, <1>8, <1>9 DEF ReleaseInv

\* So does a dispatch, which is of no tag.
LEMMA DispatchKeeps ==
  ASSUME ReleaseInv, NEW r \in Runs, Dispatch(r)
  PROVE  ReleaseInv'
  <1>0. Typed /\ Tagged /\ Begun
    BY DEF ReleaseInv
  <1>1. PICK c \in Commits : Queue(r, "branch", c)
    BY DEF Dispatch
  <1>2. IsNext(r) /\ tag' = tag
        /\ UNCHANGED <<job, work, artifact, release, draft, lost, prebuilt, cache, compiled,
                       linked, damaged, reruns, packs>>
    BY DEF Dispatch
  <1>3. "branch" \in Refs /\ c \in Commits \cup {NoCommit}
    BY DEF Refs
  <1>4. run' \in [Runs -> RunType]
        /\ Begun' /\ Staged' /\ Ordered' /\ Genuine' /\ Published' /\ Whole'
    BY <1>1, <1>2, <1>3, Begins
  <1>6. /\ run'[r].ref = "branch"
        /\ \A q \in Runs : q # r => run'[q].ref = run[q].ref /\ run'[q].commit = run[q].commit
    <2>1. QueuedAs(r, "branch", c)
      BY <1>0, <1>1, <1>3, RunQueues
    <2> QED
      BY <2>1 DEF QueuedAs
  <1>7. run[r].ref = "branch"
    BY <1>0, <1>2 DEF IsNext, Begun
  <1>8. Tagged'
    <2>1. SUFFICES ASSUME NEW u \in Tags, NEW q \in Runs, run'[q].ref = u,
                          \A p \in Runs : run'[p].ref = u => p <= q
                   PROVE  run'[q].commit = tag[u]
      BY <1>2 DEF Tagged, Latest, Commit
    <2>2. q # r
      BY <1>6, <2>1, RefsAssumption
    <2>3. \A p \in Runs : run'[p].ref = run[p].ref
      BY <1>6, <1>7
    <2>4. q \in Latest(u)
      BY <2>1, <2>3 DEF Latest
    <2> QED
      BY <1>0, <1>6, <2>2, <2>4 DEF Tagged, Commit
  <1>9. Typed'
    BY <1>0, <1>2, <1>4 DEF Typed
  <1> QED
    BY <1>4, <1>8, <1>9 DEF ReleaseInv

\* The run r, and no other, goes to another stage.
GoesTo(r, stages) ==
  /\ run' \in [Runs -> RunType]
  /\ run'[r].stage \in stages
  /\ run'[r].ref = run[r].ref /\ run'[r].commit = run[r].commit
  /\ \A q \in Runs : q # r => run'[q] = run[q]

\* A run that starts, goes on or ends leaves the order of the runs as it should be.
LEMMA Progresses ==
  ASSUME ReleaseInv, NEW r \in Runs, GoesTo(r, {"prep", "build", "publish", "over"}),
         Active(r) \/ (run[r].stage = "queued" /\ GroupFree(r)),
         UNCHANGED <<tag, reruns, artifact>>
  PROVE  Begun' /\ Tagged' /\ Ordered'
  <1>0. Typed /\ Begun /\ Ordered /\ Tagged /\ tag' = tag /\ reruns' = reruns
        /\ artifact' = artifact
    BY DEF ReleaseInv
  <1>1. /\ run' \in [Runs -> RunType]
        /\ run'[r].stage \in {"prep", "build", "publish", "over"}
        /\ run'[r].ref = run[r].ref /\ run'[r].commit = run[r].commit
        /\ \A q \in Runs : q # r => run'[q] = run[q]
    BY DEF GoesTo
  <1>2. run[r].stage \in {"queued", "prep", "build", "publish"}
    BY DEF Active
  <1>3. /\ \A q \in Runs : run'[q].ref = run[q].ref /\ run'[q].commit = run[q].commit
        /\ \A q \in Runs : run'[q].stage = "none" <=> run[q].stage = "none"
    BY <1>1, <1>2
  <1>4. Begun'
    BY <1>0, <1>3 DEF Begun, Commit
  <1>5. Tagged'
    <2>1. \A t \in Tags : Latest(t)' = Latest(t)
      BY <1>3 DEF Latest
    <2>2. \A t \in Tags : Latest(t) \subseteq Runs
      BY DEF Latest
    <2> QED
      BY <1>0, <1>3, <2>1, <2>2 DEF Tagged, Commit
  <1>6. Ordered'
    <2>1. SUFFICES ASSUME NEW p \in Runs, NEW q \in Runs, p < q, run'[p].ref = run'[q].ref,
                          run'[q].stage # "none", p \notin reruns
                   PROVE  \/ run'[p].stage \in {"over", "cancelled"}
                          \/ run'[p].stage \in {"prep", "build", "publish"}
                             /\ run'[q].stage \in {"queued", "cancelled"} /\ q \notin reruns
      BY <1>0 DEF Ordered, Active
    <2>2. \/ run[p].stage \in {"over", "cancelled"}
          \/ run[p].stage \in {"prep", "build", "publish"}
             /\ run[q].stage \in {"queued", "cancelled"} /\ q \notin reruns
      BY <1>0, <1>3, <2>1 DEF Ordered, Active
    <2>3. p # q
      BY <2>1 DEF Runs
    <2>4. CASE p = r
      <3>1. run'[q] = run[q]
        BY <1>1, <2>3, <2>4
      <3> QED
        BY <1>1, <1>2, <2>2, <2>4, <3>1
    <2>5. CASE q = r
      <3>1. run'[p] = run[p] /\ run[p].ref = run[r].ref
        BY <1>1, <1>3, <2>1, <2>3, <2>5
      <3>2. run[r].stage = "queued" => run[p].stage \notin {"prep", "build", "publish"}
        BY <3>1 DEF GroupFree, Active
      <3> QED
        BY <1>2, <2>2, <2>5, <3>1, <3>2
    <2>6. CASE p # r /\ q # r
      BY <1>1, <2>2, <2>6
    <2> QED
      BY <2>4, <2>5, <2>6
  <1> QED
    BY <1>4, <1>5, <1>6

\* A move or the end of a run is such a step.
LEMMA MovesGo ==
  ASSUME Typed, NEW r \in Runs, NEW s \in {"prep", "build", "publish"}, Move(r, s)
  PROVE  /\ GoesTo(r, {"prep", "build", "publish", "over"}) /\ GoesTo(r, {s})
         /\ run'[r].result = run[r].result
  <1>1. s \in Stages
    BY DEF Stages
  <1> QED
    BY <1>1, RunMoves DEF GoesTo

\* So is the end of a run.
LEMMA EndsGo ==
  ASSUME Typed, NEW r \in Runs, NEW x \in {"invalid", "unpublished", "failed", "published"},
         Over(r, x)
  PROVE  /\ GoesTo(r, {"prep", "build", "publish", "over"}) /\ GoesTo(r, {"over"})
         /\ run'[r].result = x
  BY RunEnds DEF GoesTo

\* Unless a run goes to its stage, or its jobs change, it remains as it is.
LEMMA StagedElsewhere ==
  ASSUME Staged, NEW r \in Runs, NEW S, GoesTo(r, S), UNCHANGED <<job, artifact>>, StagedAt(r)'
  PROVE  Staged'
  <1>1. SUFFICES ASSUME NEW q \in Runs, q # r PROVE StagedAt(q)'
    BY DEF Staged
  <1>2. run'[q] = run[q] /\ job' = job /\ artifact' = artifact /\ StagedAt(q)
    BY <1>1 DEF GoesTo, Staged
  <1> QED
    BY <1>2 DEF StagedAt, AllPrepared

\* What was archived stays archived of its row when only the stage of a run changes.
LEMMA GenuineGoes ==
  ASSUME Typed, Genuine, NEW r \in Runs, NEW S, GoesTo(r, S),
         UNCHANGED <<job, linked, release, draft, lost>>
  PROVE  Genuine'
  <1>1. ASSUME NEW t \in Tags, NEW l \in Legs, release[t][l] # 0
        PROVE  run'[release[t][l]].ref = t /\ job[release[t][l]][l] = "ok"
    <2>1. release[t][l] \in 0..MaxRuns
      BY DEF Typed
    <2>2. release[t][l] \in Runs
      BY ONLY <1>1, <2>1, BoundsAssumption DEF Runs
    <2> QED
      BY <1>1, <2>2 DEF Genuine, GoesTo
  <1>2. job' = job /\ linked' = linked /\ release' = release /\ draft' = draft /\ lost' = lost
    OBVIOUS
  <1> QED
    BY <1>1, <1>2 DEF Genuine, Verified

\* Trees do not change with the stage of a run.
LEMMA WholeGoes ==
  ASSUME Whole, NEW r \in Runs, NEW S, GoesTo(r, S),
         UNCHANGED <<damaged, cache, work, job, artifact>>, compiled' \in [Runs -> SUBSET Jobs],
         \A q \in Runs : compiled'[q] \subseteq compiled[q]
  PROVE  Whole'
  <1>1. \A q \in Runs : run'[q].commit = run[q].commit
    BY DEF GoesTo
  <1>2. damaged' = damaged /\ cache' = cache /\ work' = work /\ job' = job /\ artifact' = artifact
    OBVIOUS
  <1> QED
    BY <1>1, <1>2 DEF Whole, Commit

\* What is published of a run that ended is not affected by the stage of another.
LEMMA PublishedGoes ==
  ASSUME Published, NEW r \in Runs, NEW S, GoesTo(r, S),
         run'[r].result = run[r].result \/ run'[r].result \notin {"published", "unpublished"},
         UNCHANGED <<job, release, draft, lost, reruns>>
  PROVE  Published'
  <1>1. /\ job' = job /\ release' = release /\ draft' = draft /\ lost' = lost /\ reruns' = reruns
        /\ \A q \in Runs : run'[q].ref = run[q].ref
        /\ \A q \in Runs : \/ run'[q].result = run[q].result
                           \/ run'[q].result \notin {"published", "unpublished"}
    BY DEF GoesTo
  <1>2. SUFFICES ASSUME NEW q \in Runs, run'[q].result \in {"published", "unpublished"},
                        NEW l \in Succeeded(q) \ lost[q]
                 PROVE  PublishedOf(q, l)'
    BY <1>1 DEF Published, Succeeded
  <1>3. PublishedOf(q, l) /\ l \in Legs
    BY <1>1, <1>2 DEF Published, Succeeded
  <1> QED
    BY <1>1, <1>3, PublishedHolds

\* Starting keeps the invariant: the runs of the ref before it are over.
LEMMA StartKeeps ==
  ASSUME ReleaseInv, NEW r \in Runs, Start(r)
  PROVE  ReleaseInv'
  <1>0. Typed /\ Begun /\ Staged /\ Ordered /\ Tagged /\ Genuine /\ Published /\ Whole
    BY DEF ReleaseInv
  <1>1. /\ run[r].stage = "queued" /\ GroupFree(r)
        /\ UNCHANGED <<tag, job, work, artifact, release, draft, lost, prebuilt, cache, compiled, linked,
                       damaged, reruns, packs>>
    BY DEF Start
  <1>2. /\ GoesTo(r, {"prep", "build", "publish", "over"})
        /\ \/ run'[r].result = "invalid" /\ run'[r].stage = "over"
           \/ /\ run'[r].result = run[r].result /\ run'[r].stage \in {"prep", "build"}
              /\ run'[r].stage = "build" => AllPrepared(r)
    <2>1. CASE Over(r, "invalid")
      BY <1>0, <2>1, EndsGo DEF GoesTo
    <2>2. CASE Move(r, IF \A g \in Groups : job[r][g] = "ok" THEN "build" ELSE "prep")
      <3>1. CASE AllPrepared(r) /\ Move(r, "build")
        BY <1>0, <3>1, MovesGo DEF GoesTo
      <3>2. CASE Move(r, "prep")
        BY <1>0, <3>2, MovesGo DEF GoesTo
      <3> QED
        BY <2>2, <3>1, <3>2 DEF AllPrepared
    <2> QED
      BY <2>1, <2>2 DEF Start
  <1>3. Begun' /\ Tagged' /\ Ordered'
    BY <1>1, <1>2, Progresses
  <1>4. Staged'
    <2>1. StagedAt(r) /\ job' = job /\ artifact' = artifact
      BY <1>0, <1>1 DEF Staged
    <2>2. run[r].result = "" /\ \A j \in Jobs : job[r][j] # "built"
      BY <1>1, <2>1, JobsAre DEF StagedAt
    <2>3. StagedAt(r)'
      BY <1>2, <2>1, <2>2, JobsAre DEF StagedAt, AllPrepared
    <2> QED
      BY <1>0, <1>1, <1>2, <2>3, StagedElsewhere
  <1>5. Genuine'
    BY <1>0, <1>1, <1>2, GenuineGoes
  <1>6. Published'
    BY <1>0, <1>1, <1>2, PublishedGoes
  <1>7. Whole'
    BY <1>0, <1>1, <1>2, WholeGoes DEF Typed
  <1>8. Typed'
    BY <1>0, <1>1, <1>2 DEF Typed, GoesTo
  <1> QED
    BY <1>3, <1>4, <1>5, <1>6, <1>7, <1>8 DEF ReleaseInv

\* The rows are built once all groups are prepared.
LEMMA StartBuildKeeps ==
  ASSUME ReleaseInv, NEW r \in Runs, StartBuild(r)
  PROVE  ReleaseInv'
  <1>0. Typed /\ Begun /\ Staged /\ Ordered /\ Tagged /\ Genuine /\ Published /\ Whole
    BY DEF ReleaseInv
  <1>1. /\ run[r].stage = "prep" /\ AllPrepared(r) /\ Move(r, "build")
        /\ UNCHANGED <<tag, job, work, artifact, release, draft, lost, prebuilt, cache, compiled, linked,
                       damaged, reruns, packs>>
    BY DEF StartBuild, PrepEnded
  <1>2. /\ GoesTo(r, {"prep", "build", "publish", "over"})
        /\ run'[r].stage = "build" /\ run'[r].result = run[r].result
    BY <1>0, <1>1, MovesGo DEF GoesTo
  <1>d. Active(r) \/ (run[r].stage = "queued" /\ GroupFree(r))
    BY <1>1 DEF Active
  <1>3. Begun' /\ Tagged' /\ Ordered'
    BY <1>1, <1>2, <1>d, Progresses
  <1>4. Staged'
    <2>1. StagedAt(r) /\ job' = job /\ artifact' = artifact
      BY <1>0, <1>1 DEF Staged
    <2>2. run[r].result = "" /\ \A j \in Jobs : job[r][j] # "built"
      BY <1>1, <2>1, JobsAre DEF StagedAt, AllPrepared
    <2>3. StagedAt(r)'
      BY <1>1, <1>2, <2>1, <2>2, JobsAre DEF StagedAt, AllPrepared
    <2> QED
      BY <1>0, <1>1, <1>2, <2>3, StagedElsewhere
  <1>5. Genuine'
    BY <1>0, <1>1, <1>2, GenuineGoes
  <1>6. Published'
    BY <1>0, <1>1, <1>2, PublishedGoes
  <1>7. Whole'
    BY <1>0, <1>1, <1>2, WholeGoes DEF Typed
  <1>8. Typed'
    BY <1>0, <1>1, <1>2 DEF Typed, GoesTo
  <1> QED
    BY <1>3, <1>4, <1>5, <1>6, <1>7, <1>8 DEF ReleaseInv

\* A run that does not publish has no row that succeeded.
LEMMA StartPublishKeeps ==
  ASSUME ReleaseInv, NEW r \in Runs, StartPublish(r)
  PROVE  ReleaseInv'
  <1>0. Typed /\ Begun /\ Staged /\ Ordered /\ Tagged /\ Genuine /\ Published /\ Whole
    BY DEF ReleaseInv
  <1>1. /\ \/ run[r].stage = "build" /\ \A l \in Legs : job[r][l] \in {"ok", "failed"}
           \/ run[r].stage = "prep" /\ \A g \in Groups : job[r][g] \in {"ok", "failed"}
        /\ compiled' = [compiled EXCEPT ![r] = {}]
        /\ UNCHANGED <<tag, job, work, artifact, release, draft, lost, prebuilt, cache, linked,
                       damaged, reruns, packs>>
    BY DEF StartPublish, PrepEnded
  <1>2. /\ GoesTo(r, {"prep", "build", "publish", "over"})
        /\ \/ run'[r].stage = "publish" /\ run'[r].result = run[r].result
           \/ run'[r].stage = "over" /\ run'[r].result = "unpublished" /\ ~AllPrepared(r)
    <2>1. CASE MayPublish(r) /\ Move(r, "publish")
      BY <1>0, <2>1, MovesGo DEF GoesTo
    <2>2. CASE ~MayPublish(r) /\ Over(r, "unpublished")
      <3>1. ~AllPrepared(r)
        BY <2>2 DEF MayPublish, BuildResult
      <3> QED
        BY <1>0, <2>2, <3>1, EndsGo DEF GoesTo
    <2> QED
      BY <2>1, <2>2 DEF StartPublish
  <1>d. Active(r) \/ (run[r].stage = "queued" /\ GroupFree(r))
    BY <1>1 DEF Active
  <1>3. Begun' /\ Tagged' /\ Ordered'
    BY <1>1, <1>2, <1>d, Progresses
  <1>a. StagedAt(r) /\ job' = job /\ artifact' = artifact
    BY <1>0, <1>1 DEF Staged
  <1>4. Staged'
    <2>2. run[r].result = "" /\ \A j \in Jobs : job[r][j] # "built"
      BY <1>1, <1>a, JobsAre DEF StagedAt, AllPrepared
    <2>3. AllPrepared(r)' <=> AllPrepared(r)
      BY <1>a DEF AllPrepared
    <2>4. StagedAt(r)'
      BY <1>2, <1>a, <2>2, <2>3, JobsAre DEF StagedAt
    <2> QED
      BY <1>0, <1>1, <1>2, <2>4, StagedElsewhere
  <1>5. Genuine'
    BY <1>0, <1>1, <1>2, GenuineGoes
  <1>6. Published'
    <2>1. CASE run'[r].result = run[r].result
      BY <1>0, <1>1, <1>2, <2>1, PublishedGoes
    <2>2. CASE ~AllPrepared(r)
      <3>1. Succeeded(r) = {}
        BY <1>a, <2>2 DEF StagedAt, Succeeded
      <3>2. job' = job /\ release' = release /\ draft' = draft /\ lost' = lost /\ reruns' = reruns
        BY <1>1
      <3>3. \A q \in Runs : Succeeded(q)' = Succeeded(q)
        BY <3>2 DEF Succeeded
      <3>4. \A q \in Runs : run'[q].ref = run[q].ref /\ (q # r => run'[q] = run[q])
        BY <1>2 DEF GoesTo
      <3>5. SUFFICES ASSUME NEW q \in Runs, run'[q].result \in {"published", "unpublished"},
                            NEW l \in Succeeded(q) \ lost[q]
                     PROVE  PublishedOf(q, l)'
        BY <3>2, <3>3 DEF Published
      <3>6. PublishedOf(q, l) /\ l \in Legs
        BY <1>0, <3>1, <3>4, <3>5 DEF Published, Succeeded
      <3> QED
        BY <3>2, <3>4, <3>6, PublishedHolds
    <2> QED
      BY <1>2, <2>1, <2>2
  <1>c. /\ compiled' \in [Runs -> SUBSET Jobs]
        /\ \A q \in Runs : compiled'[q] \subseteq compiled[q]
    <2>1. {} \in SUBSET Jobs
      OBVIOUS
    <2>2. /\ compiled' \in [Runs -> SUBSET Jobs] /\ compiled'[r] = {}
          /\ \A q \in Runs : q # r => compiled'[q] = compiled[q]
      BY <1>0, <1>1, <2>1, CompiledSet
    <2> QED
      BY <2>2
  <1>7. Whole'
    BY <1>0, <1>1, <1>2, <1>c, WholeGoes
  <1>8. Typed'
    BY <1>0, <1>1, <1>2, <1>c DEF Typed, GoesTo
  <1> QED
    BY <1>3, <1>4, <1>5, <1>6, <1>7, <1>8 DEF ReleaseInv

\* What is uploaded is of rows that succeeded, and replaces what is of earlier runs
\* unless this is a re-run.
LEMMA UploadKeeps ==
  ASSUME ReleaseInv, NEW r \in Runs, Publish(r) \/ PublishFails(r)
  PROVE  ReleaseInv'
  <1>0. Typed /\ Begun /\ Staged /\ Ordered /\ Tagged /\ Genuine /\ Published /\ Whole
    BY DEF ReleaseInv
  <1>1. /\ run[r].stage = "publish" /\ Upload(r)
        /\ \E result \in {"published", "failed"} : Over(r, result)
        /\ UNCHANGED <<tag, job, work, artifact, prebuilt, cache, compiled, linked,
                       damaged, reruns, packs>>
    BY DEF Publish, PublishFails, Upload
  <1>2. /\ GoesTo(r, {"prep", "build", "publish", "over"})
        /\ run'[r].stage = "over" /\ run'[r].result \in {"published", "failed"}
    BY <1>0, <1>1, EndsGo DEF GoesTo
  <1>d. Active(r) \/ (run[r].stage = "queued" /\ GroupFree(r))
    BY <1>1 DEF Active
  <1>3. Begun' /\ Tagged' /\ Ordered'
    BY <1>1, <1>2, <1>d, Progresses
  <1>4. Staged'
    <2>1. StagedAt(r) /\ job' = job /\ artifact' = artifact
      BY <1>0, <1>1 DEF Staged
    <2>2. \A j \in Jobs : job[r][j] # "built"
      BY <1>1, <2>1, JobsAre DEF StagedAt
    <2>3. StagedAt(r)'
      BY <1>1, <1>2, <2>1, <2>2, JobsAre DEF StagedAt, AllPrepared
    <2> QED
      BY <1>0, <1>1, <1>2, <2>3, StagedElsewhere
  <1>a. PICK up \in SUBSET Succeeded(r) :
          /\ lost' = [lost EXCEPT ![r] = Succeeded(r) \ up]
          /\ IF run[r].ref \in Tags
             THEN /\ \E gone \in SUBSET (Succeeded(r) \ up) :
                       release' = [release EXCEPT ![run[r].ref] = Uploaded(r, up, gone)]
                  /\ UNCHANGED draft
             ELSE draft' = [draft EXCEPT ![r] = @ \cup up] /\ UNCHANGED release
    BY <1>1 DEF Upload
  <1>b. up \subseteq Legs /\ Succeeded(r) \subseteq Legs /\ r \in 0..MaxRuns /\ 0 \in 0..MaxRuns
    BY BoundsAssumption DEF Runs, Succeeded
  <1>c. /\ lost' \in [Runs -> SUBSET Legs] /\ lost'[r] = Succeeded(r) \ up
        /\ \A q \in Runs : q # r => lost'[q] = lost[q]
    BY <1>0, <1>a, <1>b DEF Typed
  <1>5. /\ release' \in [Tags -> [Legs -> 0..MaxRuns]]
        /\ draft' \in [Runs -> SUBSET Legs]
        /\ \A t \in Tags, l \in Legs :
             \/ t = run[r].ref /\ l \in up /\ release'[t][l] = r
             \/ t = run[r].ref /\ l \in Succeeded(r) \ up /\ release'[t][l] = 0
             \/ release'[t][l] = release[t][l] /\ ~(t = run[r].ref /\ l \in up)
        /\ \A q \in Runs :
             draft'[q] = IF q = r /\ run[r].ref \notin Tags THEN draft[r] \cup up ELSE draft[q]
    <2>0. release \in [Tags -> [Legs -> 0..MaxRuns]] /\ draft \in [Runs -> SUBSET Legs]
      BY <1>0 DEF Typed
    <2>1. CASE run[r].ref \in Tags
      <3>1. PICK gone \in SUBSET (Succeeded(r) \ up) :
              release' = [release EXCEPT ![run[r].ref] = Uploaded(r, up, gone)]
        BY <1>a, <2>1
      <3> DEFINE fresh == Uploaded(r, up, gone)
      <3>2. /\ fresh \in [Legs -> 0..MaxRuns]
            /\ \A l \in Legs : fresh[l] = IF l \in up THEN r ELSE IF l \in gone THEN 0
                                          ELSE release[run[r].ref][l]
        BY <1>b, <2>0, <2>1 DEF Uploaded
      <3>3. release' = [release EXCEPT ![run[r].ref] = fresh] /\ draft' = draft
        BY <1>a, <2>1, <3>1
      <3> HIDE DEF fresh
      <3>4. /\ release' \in [Tags -> [Legs -> 0..MaxRuns]] /\ release'[run[r].ref] = fresh
            /\ \A t \in Tags : t # run[r].ref => release'[t] = release[t]
        BY <2>0, <2>1, <3>2, <3>3
      <3> QED
        BY <2>0, <2>1, <3>2, <3>3, <3>4
    <2>2. CASE run[r].ref \notin Tags
      <3>1. release' = release /\ draft' = [draft EXCEPT ![r] = @ \cup up]
        BY <1>a, <2>2
      <3> QED
        BY <1>b, <2>0, <2>2, <3>1
    <2> QED
      BY <2>1, <2>2
  <1>6. \A q \in Runs : run'[q].ref = run[q].ref /\ Succeeded(q)' = Succeeded(q)
    BY <1>1, <1>2 DEF GoesTo, Succeeded
  <1>7. Genuine'
    <2>1. \A q \in Runs : \A l \in draft'[q] \cup lost'[q] : job[q][l] = "ok"
      BY <1>0, <1>5, <1>c DEF Genuine, Succeeded
    <2>2. ASSUME NEW t \in Tags, NEW l \in Legs, release'[t][l] # 0
          PROVE  run'[release'[t][l]].ref = t /\ job[release'[t][l]][l] = "ok"
      <3>1. CASE t = run[r].ref /\ l \in up
        <4>1. release'[t][l] = r
          BY <1>5, <3>1
        <4>2. l \in Succeeded(r)
          BY <3>1
        <4> QED
          BY <1>6, <3>1, <4>1, <4>2 DEF Succeeded
      <3>2. CASE ~(t = run[r].ref /\ l \in up)
        <4>1. release'[t][l] = release[t][l]
          BY <1>5, <3>2, <2>2
        <4>2. release[t][l] \in 0..MaxRuns
          <5>1. release \in [Tags -> [Legs -> 0..MaxRuns]]
            BY <1>0 DEF Typed
          <5> QED
            BY <5>1
        <4>3. release[t][l] \in Runs
          BY ONLY <2>2, <4>1, <4>2, BoundsAssumption DEF Runs
        <4> QED
          BY <1>0, <1>6, <2>2, <4>1, <4>3 DEF Genuine
      <3> QED
        BY <3>1, <3>2
    <2>3. job' = job /\ linked' = linked
      BY <1>1
    <2> QED
      BY <1>0, <2>1, <2>2, <2>3 DEF Genuine, Verified
  <1>8. Published'
    <2>1. SUFFICES ASSUME NEW q \in Runs, run'[q].result \in {"published", "unpublished"},
                          NEW l \in Succeeded(q) \ lost'[q]
                   PROVE  PublishedOf(q, l)'
      BY <1>1, <1>6 DEF Published
    <2>2. l \in Legs
      BY <2>1 DEF Succeeded
    <2>3. CASE q = r
      <3>1. l \in up
        BY <1>c, <2>1, <2>3
      <3> QED
        BY <1>5, <1>6, <2>2, <2>3, <3>1 DEF PublishedOf, Runs
    <2>4. CASE q # r
      <3>1. run'[q] = run[q] /\ run[q].stage = "over"
        BY <1>0, <1>2, <2>1, <2>4 DEF GoesTo, Staged, StagedAt
      <3>2. PublishedOf(q, l)
        BY <1>0, <1>c, <2>1, <2>4, <3>1 DEF Published
      <3>3. CASE run[q].ref \notin Tags
        BY <1>5, <2>4, <3>1, <3>2, <3>3 DEF PublishedOf
      <3>4. CASE run[q].ref \in Tags /\ run[q].ref = run[r].ref /\ l \in Succeeded(r)
        <4>1. r > q \/ r \in reruns
          <5>1. r < q => r \in reruns
            BY <1>0, <1>1, <3>1, <3>4 DEF Ordered, Active
          <5> QED
            BY <2>4, <5>1 DEF Runs
        <4>2. CASE l \in up
          <5>1. release'[run'[q].ref][l] = r
            BY <1>5, <1>6, <2>2, <3>4, <4>2
          <5> QED
            BY <1>1, <1>6, <3>4, <4>1, <5>1 DEF PublishedOf, Runs
        <4>3. CASE l \notin up
          <5>1. Displaced(q, l)'
            BY <1>1, <1>6, <1>c, <3>4, <4>1, <4>3 DEF Displaced
          <5>2. release'[run[q].ref][l] \in {0, release[run[q].ref][l]}
            BY <1>5, <2>2, <3>4, <4>3
          <5> QED
            BY <1>1, <1>6, <3>2, <3>4, <5>1, <5>2 DEF PublishedOf
        <4> QED
          BY <4>2, <4>3
      <3>5. CASE run[q].ref \in Tags /\ ~(run[q].ref = run[r].ref /\ l \in Succeeded(r))
        <4>1. release'[run[q].ref][l] = release[run[q].ref][l]
          BY <1>5, <2>2, <3>5
        <4>2. Displaced(q, l) => Displaced(q, l)'
          <5>1. SUFFICES ASSUME NEW p \in Runs, run[p].ref = run[q].ref, l \in lost[p],
                                p > q \/ p \in reruns
                         PROVE  l \in lost'[p]
            BY <1>1, <1>6 DEF Displaced
          <5>2. job[p][l] = "ok"
            BY <1>0, <5>1 DEF Genuine
          <5>3. p # r
            BY <2>2, <3>5, <5>1, <5>2 DEF Succeeded
          <5> QED
            BY <1>c, <5>1, <5>3
        <4> QED
          BY <1>1, <1>6, <3>2, <3>5, <4>1, <4>2 DEF PublishedOf
      <3> QED
        BY <3>3, <3>4, <3>5
    <2> QED
      BY <2>3, <2>4
  <1>9. Whole'
    BY <1>0, <1>1, <1>2, WholeGoes DEF Typed
  <1>10. Typed'
    BY <1>0, <1>1, <1>2, <1>5, <1>c DEF Typed, GoesTo
  <1> QED
    BY <1>3, <1>4, <1>7, <1>8, <1>9, <1>10 DEF ReleaseInv

\* A re-run keeps what succeeded, and is from now on an exception to the order.
LEMMA RerunKeeps ==
  ASSUME ReleaseInv, NEW r \in Runs, Rerun(r)
  PROVE  ReleaseInv'
  <1>0. Typed /\ Begun /\ Staged /\ Ordered /\ Tagged /\ Genuine /\ Published /\ Whole
    BY DEF ReleaseInv
  <1>1. /\ run[r].stage = "over" /\ Queue(r, run[r].ref, run[r].commit)
        /\ job' = [job EXCEPT ![r] = [j \in Jobs |-> IF @[j] = "failed" THEN "waiting" ELSE @[j]]]
        /\ reruns' = reruns \cup {r}
        /\ UNCHANGED <<tag, work, artifact, release, draft, lost, prebuilt, cache, compiled, linked,
                       damaged, packs>>
    BY DEF Rerun, Commit
  <1>2. /\ run' \in [Runs -> RunType]
        /\ run'[r].stage = "queued" /\ run'[r].result = ""
        /\ \A q \in Runs : run'[q].ref = run[q].ref /\ run'[q].commit = run[q].commit
        /\ \A q \in Runs : q # r =>
             /\ run'[q].result = run[q].result
             /\ run'[q].stage = IF run[q].ref = run[r].ref /\ run[q].stage = "queued"
                                THEN "cancelled" ELSE run[q].stage
    <2>1. run[r] \in RunType
      BY <1>0 DEF Typed
    <2>2. run[r].ref \in Refs /\ run[r].commit \in Commits \cup {NoCommit}
      BY <2>1 DEF RunType
    <2>3. QueuedAs(r, run[r].ref, run[r].commit)
      BY <1>0, <1>1, <2>2, RunQueues
    <2> QED
      BY <2>3 DEF QueuedAs
  <1>3. /\ job' \in [Runs -> [Jobs -> Statuses]]
        /\ \A j \in Jobs : job'[r][j] = IF job[r][j] = "failed" THEN "waiting" ELSE job[r][j]
        /\ \A q \in Runs : q # r => job'[q] = job[q]
    <2> DEFINE again == [j \in Jobs |-> IF job[r][j] = "failed" THEN "waiting" ELSE job[r][j]]
    <2>1. job \in [Runs -> [Jobs -> Statuses]]
      BY <1>0 DEF Typed
    <2>2. job' = [job EXCEPT ![r] = again]
      BY <1>1, <2>1
    <2>3. again \in [Jobs -> Statuses]
          /\ \A j \in Jobs : again[j] = IF job[r][j] = "failed" THEN "waiting" ELSE job[r][j]
      BY <2>1 DEF Statuses
    <2> HIDE DEF again
    <2> QED
      BY <2>1, <2>2, <2>3
  <1>4. \A q \in Runs, j \in Jobs : /\ job'[q][j] = "ok" <=> job[q][j] = "ok"
                                    /\ job'[q][j] = "built" <=> job[q][j] = "built"
                                    /\ job[q][j] = "waiting" => job'[q][j] = "waiting"
    BY <1>3
  <1>g. \A q \in Runs, g \in Groups : /\ job'[q][g] = "ok" <=> job[q][g] = "ok"
                                      /\ job'[q][g] = "built" <=> job[q][g] = "built"
    BY <1>4, JobsAre
  <1>l. \A q \in Runs, l \in Legs : /\ job'[q][l] = "ok" <=> job[q][l] = "ok"
                                    /\ job'[q][l] = "built" <=> job[q][l] = "built"
                                    /\ job'[q][l] # "waiting" => job[q][l] # "waiting"
    BY <1>4, JobsAre
  <1>5. \A q \in Runs : run'[q].stage = "none" <=> run[q].stage = "none"
    BY <1>1, <1>2
  <1>6. Begun'
    <2>1. SUFFICES ASSUME NEW q \in Runs
                   PROVE  IF run[q].stage = "none"
                          THEN /\ run[q].ref = "branch" /\ q \notin reruns \cup {r}
                               /\ \A g \in Groups : artifact[q][g] = {}
                               /\ \A p \in Runs : p > q => run[p].stage = "none"
                          ELSE run[q].commit \in Commits
      BY <1>1, <1>2, <1>5 DEF Begun, Commit
    <2> QED
      BY <1>0, <1>1 DEF Begun, Commit
  <1>7. Staged'
    <2>1. SUFFICES ASSUME NEW q \in Runs PROVE StagedAt(q)'
      BY DEF Staged
    <2>2. StagedAt(q)
      BY <1>0 DEF Staged
    <2>3. /\ run[q].stage = "prep" => run'[q].stage = "prep"
          /\ run'[q].stage = "build" <=> run[q].stage = "build"
          /\ run'[q].result # "" => run'[q].stage = "over" /\ run'[q].result = run[q].result
      BY <1>1, <1>2, <2>2 DEF StagedAt
    <2>4. artifact' = artifact
      BY <1>1
    <2>5. AllPrepared(q)' <=> AllPrepared(q)
      BY <1>g DEF AllPrepared
    <2> QED
      <3>1. /\ \A g \in Groups : job'[q][g] = "built" => run'[q].stage = "prep"
            /\ \A l \in Legs : job'[q][l] = "built" => run'[q].stage = "build"
            /\ \A l \in Legs : job'[q][l] # "waiting" => AllPrepared(q)
            /\ \A g \in Groups : job'[q][g] = "ok" => artifact[q][g] # {}
        BY <1>g, <1>l, <2>2, <2>3 DEF StagedAt
      <3>2. /\ run'[q].stage = "build" => AllPrepared(q)
            /\ run'[q].result # "" => run'[q].stage = "over"
            /\ run'[q].result = "unpublished" => ~AllPrepared(q)
        BY <2>2, <2>3 DEF StagedAt
      <3> QED
        BY <2>4, <2>5, <3>1, <3>2 DEF StagedAt
  <1>8. Ordered'
    <2>1. SUFFICES ASSUME NEW p \in Runs, NEW q \in Runs, p < q, run'[p].ref = run'[q].ref,
                          run'[q].stage # "none", p \notin reruns, p # r
                   PROVE  \/ run'[p].stage \in {"over", "cancelled"}
                          \/ run'[p].stage \in {"prep", "build", "publish"}
                             /\ run'[q].stage \in {"queued", "cancelled"} /\ q \notin reruns \cup {r}
      BY <1>1 DEF Ordered, Active
    <2>2. \/ run[p].stage \in {"over", "cancelled"}
          \/ run[p].stage \in {"prep", "build", "publish"}
             /\ run[q].stage \in {"queued", "cancelled"} /\ q \notin reruns
      BY <1>0, <1>2, <1>5, <2>1 DEF Ordered, Active
    <2>3. q = r => run[q].stage = "over"
      BY <1>1
    <2> QED
      BY <1>2, <2>1, <2>2, <2>3
  <1>9. Tagged'
    <2>1. \A t \in Tags : Latest(t)' = Latest(t)
      BY <1>2 DEF Latest
    <2>2. \A t \in Tags : Latest(t) \subseteq Runs
      BY DEF Latest
    <2> QED
      BY <1>0, <1>1, <1>2, <2>1, <2>2 DEF Tagged, Commit
  <1>10. Genuine'
    <2>1. ASSUME NEW t \in Tags, NEW l \in Legs, release[t][l] # 0
          PROVE  run'[release[t][l]].ref = t /\ job'[release[t][l]][l] = "ok"
      <3>1. release[t][l] \in 0..MaxRuns
        BY <1>0 DEF Typed
      <3>2. release[t][l] \in Runs
        BY ONLY <2>1, <3>1, BoundsAssumption DEF Runs
      <3>3. run[release[t][l]].ref = t /\ job[release[t][l]][l] = "ok"
        BY <1>0, <2>1 DEF Genuine
      <3> QED
        BY <1>2, <1>l, <3>2, <3>3
    <2>2. linked' = linked /\ release' = release /\ draft' = draft /\ lost' = lost
      BY <1>1
    <2>3. \A q \in Runs, l \in Legs : job'[q][l] = "ok" => Verified(q, l)
      BY <1>0, <1>l DEF Genuine
    <2>4. ASSUME NEW q \in Runs, NEW l \in draft[q] \cup lost[q] PROVE job'[q][l] = "ok"
      <3>1. l \in Legs
        BY <1>0 DEF Typed
      <3> QED
        BY <1>0, <1>l, <3>1 DEF Genuine
    <2> QED
      BY <2>1, <2>2, <2>3, <2>4 DEF Genuine, Verified
  <1>11. Published'
    <2>1. \A q \in Runs : Succeeded(q)' = Succeeded(q)
      BY <1>l DEF Succeeded
    <2>2. reruns \subseteq reruns' /\ release' = release /\ draft' = draft /\ lost' = lost
      BY <1>1
    <2>3. SUFFICES ASSUME NEW q \in Runs, run'[q].result \in {"published", "unpublished"},
                          NEW l \in Succeeded(q) \ lost[q]
                   PROVE  PublishedOf(q, l)'
      BY <2>1, <2>2 DEF Published
    <2>4. PublishedOf(q, l) /\ l \in Legs
      BY <1>0, <1>2, <2>3 DEF Published, Succeeded
    <2> QED
      BY <1>2, <2>2, <2>4, PublishedHolds
  <1>12. Whole'
    <2>1. damaged' = damaged /\ cache' = cache /\ work' = work /\ artifact' = artifact
          /\ compiled' = compiled
      BY <1>1
    <2>2. SUFFICES ASSUME damaged = "no", NEW q \in Runs, NEW g \in Groups
                   PROVE  /\ job'[q][g] = "built" => work[q][g].trees[run'[q].commit.td] = "whole"
                          /\ \A trees \in artifact[q][g] :
                               trees \in Unbroken /\ trees[run'[q].commit.td] = "whole"
      BY <1>0, <2>1 DEF Whole, Commit
    <2>3. run'[q].commit = run[q].commit
      BY <1>2
    <2> QED
      BY <1>0, <1>g, <2>2, <2>3 DEF Whole, Commit
  <1>13. Typed'
    BY <1>0, <1>1, <1>2, <1>3 DEF Typed
  <1> QED
    BY <1>6, <1>7, <1>8, <1>9, <1>10, <1>11, <1>12, <1>13 DEF ReleaseInv

\* Jobs do not move runs.
LEMMA RunsStay ==
  ASSUME ReleaseInv, UNCHANGED <<tag, run, reruns>>
  PROVE  Ordered' /\ Tagged'
  <1>1. run' = run /\ tag' = tag /\ reruns' = reruns
    OBVIOUS
  <1> QED
    BY <1>1 DEF ReleaseInv, Ordered, Active, Tagged, Latest, Commit

\* What unpacking and compiling make of trees.
LEMMA TreesAre ==
  ASSUME NEW s \in Trees, NEW t \in Trees, NEW d \in TDs
  PROVE  /\ Overlay(s, t) \in Trees
         /\ CargoBuild(s, d) \in Trees /\ CargoBuild(s, d)[d] = "whole"
         /\ s[d] = "whole" => CargoBuild(s, d) = s
         /\ t[d] = "whole" => Overlay(s, t)[d] = "whole"
         /\ s \in Unbroken /\ t \in Unbroken => Overlay(s, t) \in Unbroken
         /\ s \in Unbroken => CargoBuild(s, d) \in Unbroken
  <1>1. /\ \A i \in TDs : s[i] \in {"none", "partial", "whole"}
        /\ \A i \in TDs : t[i] \in {"none", "partial", "whole"}
    BY DEF Trees
  <1>2. /\ Overlay(s, t) = [i \in TDs |-> Better(s[i], t[i])]
        /\ \A i \in TDs : Overlay(s, t)[i] = Better(s[i], t[i])
    BY DEF Overlay
  <1>3. \A i \in TDs : Better(s[i], t[i]) \in {"none", "partial", "whole"}
    BY DEF Better
  <1>4. t[d] = "whole" => Better(s[d], t[d]) = "whole"
    BY DEF Better
  <1>5. ASSUME s \in Unbroken, t \in Unbroken PROVE Overlay(s, t) \in Unbroken
    <2>1. \A i \in TDs : s[i] \in {"none", "whole"} /\ t[i] \in {"none", "whole"}
      BY <1>5 DEF Unbroken
    <2>2. \A i \in TDs : Better(s[i], t[i]) \in {"none", "whole"}
      BY <2>1 DEF Better
    <2> QED
      BY <1>2, <2>2 DEF Unbroken
  <1>6. /\ CargoBuild(s, d) \in Trees /\ CargoBuild(s, d)[d] = "whole"
        /\ s[d] = "whole" => CargoBuild(s, d) = s
        /\ s \in Unbroken => CargoBuild(s, d) \in Unbroken
    BY DEF CargoBuild, Trees, Unbroken
  <1>7. Overlay(s, t) \in Trees
    BY <1>2, <1>3 DEF Trees
  <1> QED
    BY <1>2, <1>4, <1>5, <1>6, <1>7

\* Restored and fetched trees are trees ...
LEMMA FoundAre ==
  ASSUME Typed
  PROVE  /\ \A r, g : Restored(r, g) \subseteq Trees
         /\ \A g : \A d \in TDs : Fetched(g, d) \subseteq Trees
  <1>1. NoTrees \in Trees
    BY DEF NoTrees, Trees
  <1>2. ASSUME NEW r, NEW g, NEW trees \in Restored(r, g) PROVE trees \in Trees
    <2>1. trees = NoTrees \/ \E k \in Keys : trees \in cache[k]
      BY <1>2 DEF Restored, Exact, Entries, EntriesOf
    <2>2. \A k \in Keys : cache[k] \subseteq Trees
      BY DEF Typed
    <2> QED
      BY <1>1, <2>1, <2>2
  <1>3. ASSUME NEW g, NEW d \in TDs, NEW trees \in Fetched(g, d) PROVE trees \in Trees
    <2>1. trees = NoTrees \/ \E s \in {"partial", "whole"} : trees = [NoTrees EXCEPT ![d] = s]
      BY <1>3 DEF Fetched
    <2> QED
      BY <1>1, <2>1 DEF Trees
  <1> QED
    BY <1>2, <1>3

\* ... not broken ones, of a cache without these, ...
LEMMA RestoredUnbroken ==
  ASSUME NEW r, NEW g, NEW trees \in Restored(r, g),
         \A k \in Keys : cache[k] \subseteq Unbroken
  PROVE  trees \in Unbroken
  <1>1. NoTrees \in Unbroken
    BY DEF NoTrees, Unbroken
  <1>2. trees = NoTrees \/ \E k \in Keys : trees \in cache[k]
    BY DEF Restored, Exact, Entries, EntriesOf
  <1> QED
    BY <1>1, <1>2

\* ... and when the prebuilt one was not unpacked in part.
LEMMA FetchedUnbroken ==
  ASSUME NEW g, NEW d \in TDs, NEW trees \in Fetched(g, d), trees[d] # "partial"
  PROVE  trees \in Unbroken
  <1>1. NoTrees \in Unbroken
    BY DEF NoTrees, Unbroken
  <1>2. CASE trees = NoTrees
    BY <1>1, <1>2
  <1>3. CASE trees \in {[NoTrees EXCEPT ![d] = s] : s \in {"partial", "whole"}}
    <2>1. PICK s \in {"partial", "whole"} : trees = [NoTrees EXCEPT ![d] = s]
      BY <1>3
    <2>2. s = "whole"
      BY <2>1 DEF NoTrees
    <2> QED
      BY <2>1, <2>2, <1>1 DEF NoTrees, Unbroken
  <1> QED
    BY <1>2, <1>3 DEF Fetched

\* A runner with its trees, and an empty one.
LEMMA Runner ==
  ASSUME NEW trees \in Trees, NEW b \in BOOLEAN
  PROVE  /\ [trees |-> trees, missed |-> b] \in WorkType
         /\ [trees |-> trees, missed |-> b].trees = trees
         /\ NoWork \in WorkType /\ NoWork.trees \in Unbroken
  <1>1. NoTrees \in Trees /\ NoTrees \in Unbroken
    BY DEF NoTrees, Trees, Unbroken
  <1> QED
    BY <1>1 DEF WorkType, NoWork

\* What is assigned when a job has its trees.
LEMMA Uses ==
  ASSUME Typed, NEW r \in Runs, NEW j \in Jobs, NEW found, NEW made \in Trees,
         Use(r, j, found, made)
  PROVE  /\ work' \in [Runs -> [Jobs -> WorkType]]
         /\ work'[r][j].trees = made
         /\ \A q \in Runs, i \in Jobs : q # r \/ i # j => work'[q][i] = work[q][i]
         /\ compiled' \in [Runs -> SUBSET Jobs]
         /\ compiled'[r] = IF made = found THEN compiled[r] ELSE compiled[r] \cup {j}
         /\ \A q \in Runs : q # r => compiled'[q] = compiled[q]
  <1> DEFINE w == [trees |-> made, missed |-> Exact(r, GroupOf(j)) = {}]
             c == IF made = found THEN compiled[r] ELSE compiled[r] \cup {j}
  <1>1. (Exact(r, GroupOf(j)) = {}) \in BOOLEAN
    OBVIOUS
  <1>2. w \in WorkType /\ w.trees = made
    BY <1>1, Runner
  <1>3. compiled \in [Runs -> SUBSET Jobs]
    BY DEF Typed
  <1>4. c \in SUBSET Jobs
    BY <1>3
  <1>5. work' = [work EXCEPT ![r][j] = w] /\ compiled' = [compiled EXCEPT ![r] = c]
    BY <1>3 DEF Use
  <1> HIDE DEF w, c
  <1>6. /\ work' \in [Runs -> [Jobs -> WorkType]] /\ work'[r][j] = w
        /\ \A q \in Runs, i \in Jobs : q # r \/ i # j => work'[q][i] = work[q][i]
    <2>1. w \in WorkType /\ work' = [work EXCEPT ![r][j] = w]
      BY <1>2, <1>5
    <2> QED
      BY <2>1, WorkSet
  <1>7. /\ compiled' \in [Runs -> SUBSET Jobs] /\ compiled'[r] = c
        /\ \A q \in Runs : q # r => compiled'[q] = compiled[q]
    BY <1>4, <1>5, CompiledSet
  <1> QED
    BY <1>2, <1>6, <1>7 DEF c

\* What is assigned when a job saves its trees.
LEMMA Saves ==
  ASSUME Typed, NEW r \in Runs, NEW j \in Jobs, SaveCache(r, j)
  PROVE  /\ cache' \in [Keys -> SUBSET Trees]
         /\ \A k \in Keys : cache'[k] = cache[k] \/ cache'[k] = {work[r][j].trees}
  <1>1. cache \in [Keys -> SUBSET Trees] /\ work[r][j].trees \in Trees
    BY DEF Typed, WorkType
  <1> QED
    BY <1>1 DEF SaveCache

\* The commit of a run that began names a pin.
LEMMA Pinned ==
  ASSUME Begun, NEW r \in Runs, run[r].stage # "none"
  PROVE  Commit(r).td \in TDs
  BY CommitsAssumption DEF Begun

\* A job that goes on in the run r, and how its binary is linked.
JobGoes(r, j, s) ==
  /\ job' \in [Runs -> [Jobs -> Statuses]]
  /\ job'[r][j] = s
  /\ \A q \in Runs, i \in Jobs : q # r \/ i # j => job'[q][i] = job[q][i]

\* What is published stays so: the job was not one of those that succeeded, and a row
\* that succeeds is verified.
LEMMA ArchivesStay ==
  ASSUME ReleaseInv, NEW r \in Runs, NEW j \in Jobs, NEW s \in Statuses, JobGoes(r, j, s),
         job[r][j] \in {"waiting", "built"}, run[r].stage \in {"prep", "build"},
         \A q \in Runs, l \in Legs : q # r \/ l # j => linked'[q][l] = linked[q][l],
         s = "ok" /\ j \in Legs => linked'[r][j] = linked[r][j] /\ Verified(r, j),
         UNCHANGED <<run, reruns, release, draft, lost>>
  PROVE  Genuine' /\ Published'
  <1>0. Typed /\ Staged /\ Genuine /\ Published /\ run' = run /\ reruns' = reruns
        /\ release' = release /\ draft' = draft /\ lost' = lost
    BY DEF ReleaseInv
  <1>1. /\ job'[r][j] = s
        /\ \A q \in Runs, l \in Legs : q # r \/ l # j => job'[q][l] = job[q][l]
        /\ \A q \in Runs, l \in Legs : job[q][l] = "ok" => job'[q][l] = "ok"
    BY JobsAre DEF JobGoes
  <1>2. \A q \in Runs, l \in Legs : job'[q][l] = "ok" => Verified(q, l)'
    <2>1. SUFFICES ASSUME NEW q \in Runs, NEW l \in Legs, job'[q][l] = "ok"
                   PROVE  LegGroup[l] \in MuslGroups => linked'[q][l] = "static"
      BY DEF Verified
    <2>2. CASE q = r /\ l = j
      <3>1. linked'[r][j] = linked[r][j] /\ Verified(r, j)
        BY <1>1, <2>1, <2>2
      <3> QED
        BY <2>2, <3>1 DEF Verified
    <2>3. CASE q # r \/ l # j
      <3>1. Verified(q, l) /\ linked'[q][l] = linked[q][l]
        BY <1>0, <1>1, <2>1, <2>3 DEF Genuine
      <3> QED
        BY <3>1 DEF Verified
    <2> QED
      BY <2>2, <2>3
  <1>3. ASSUME NEW t \in Tags, NEW l \in Legs, release[t][l] # 0
        PROVE  run[release[t][l]].ref = t /\ job'[release[t][l]][l] = "ok"
    <2>1. release[t][l] \in 0..MaxRuns
      BY <1>0 DEF Typed
    <2>2. release[t][l] \in Runs
      BY ONLY <1>3, <2>1, BoundsAssumption DEF Runs
    <2>3. run[release[t][l]].ref = t /\ job[release[t][l]][l] = "ok"
      BY <1>0, <1>3 DEF Genuine
    <2> QED
      BY <1>1, <2>2, <2>3
  <1>4. ASSUME NEW q \in Runs, NEW l \in draft[q] \cup lost[q] PROVE job'[q][l] = "ok"
    <2>1. l \in Legs
      BY <1>0 DEF Typed
    <2> QED
      BY <1>0, <1>1, <2>1 DEF Genuine
  <1>5. Genuine'
    BY <1>0, <1>2, <1>3, <1>4 DEF Genuine
  <1>6. Published'
    <2>1. SUFFICES ASSUME NEW q \in Runs, run[q].result \in {"published", "unpublished"},
                          NEW l \in Legs \ lost[q], job'[q][l] = "ok"
                   PROVE  PublishedOf(q, l)'
      BY <1>0 DEF Published, Succeeded
    <2>2. q # r
      BY <1>0, <2>1 DEF Staged, StagedAt
    <2>3. l \in Succeeded(q)
      BY <1>1, <2>1, <2>2 DEF Succeeded
    <2>4. PublishedOf(q, l)
      BY <1>0, <2>1, <2>3 DEF Published
    <2> QED
      BY <1>0, <2>4, PublishedHolds
  <1> QED
    BY <1>5, <1>6

\* The stage of the other runs is not concerned.
LEMMA OthersStaged ==
  ASSUME Staged, NEW r \in Runs, NEW j \in Jobs, NEW s, JobGoes(r, j, s), run' = run,
         \A q \in Runs : q # r => artifact'[q] = artifact[q], StagedAt(r)'
  PROVE  Staged'
  <1>1. SUFFICES ASSUME NEW q \in Runs, q # r PROVE StagedAt(q)'
    BY DEF Staged
  <1>2. /\ StagedAt(q) /\ artifact'[q] = artifact[q]
        /\ \A i \in Jobs : job'[q][i] = job[q][i]
    BY <1>1 DEF Staged, JobGoes
  <1>3. AllPrepared(q)' <=> AllPrepared(q)
    BY <1>2, JobsAre DEF AllPrepared
  <1>4. /\ \A g \in Groups : job'[q][g] = job[q][g]
        /\ \A l \in Legs : job'[q][l] = job[q][l]
    BY <1>2, JobsAre
  <1> QED
    BY <1>2, <1>3, <1>4 DEF StagedAt

\* Runs that began stay so.
LEMMA BegunStays ==
  ASSUME Begun, NEW r \in Runs, run[r].stage # "none", UNCHANGED <<run, reruns>>,
         \A q \in Runs : q # r => artifact'[q] = artifact[q]
  PROVE  Begun'
  <1>1. run' = run /\ reruns' = reruns
    OBVIOUS
  <1>2. \A q \in Runs : run[q].stage = "none" => artifact'[q] = artifact[q]
    OBVIOUS
  <1> QED
    BY <1>1, <1>2 DEF Begun, Commit

\* The preparation makes whole trees, and only it compiles.
LEMMA PrepBuildKeeps ==
  ASSUME ReleaseInv, NEW r \in Runs, NEW g \in Groups, PrepBuild(r, g)
  PROVE  ReleaseInv'
  <1>0. Typed /\ Begun /\ Staged /\ Whole
    BY DEF ReleaseInv
  <1>1. /\ run[r].stage = "prep" /\ job[r][g] = "waiting" /\ Status(r, g, "built")
        /\ UNCHANGED <<tag, run, artifact, release, draft, lost, prebuilt, cache, linked, reruns, packs>>
    BY DEF PrepBuild
  <1> DEFINE d == Commit(r).td
  <1>2. PICK fetched \in Fetched(g, d), cached \in Restored(r, g) :
          LET trees == Overlay(fetched, cached)
          IN /\ damaged' = IF fetched[d] = "partial" THEN "yes" ELSE damaged
             /\ Use(r, g, trees, IF tdlib_ready(trees, d) THEN trees ELSE CargoBuild(trees, d))
    BY DEF PrepBuild
  <1> DEFINE trees == Overlay(fetched, cached)
             made == IF tdlib_ready(trees, d) THEN trees ELSE CargoBuild(trees, d)
  <1>3. d \in TDs /\ g \in Jobs /\ g \notin Legs /\ "built" \in Statuses
    BY <1>0, <1>1, Pinned, JobsAre DEF Statuses
  <1>4. /\ fetched \in Trees /\ cached \in Trees
        /\ damaged' = IF fetched[d] = "partial" THEN "yes" ELSE damaged
        /\ Use(r, g, trees, made)
    BY <1>0, <1>2, <1>3, FoundAre
  <1>5. trees \in Trees /\ made \in Trees
    <2>1. trees \in Trees
      BY <1>3, <1>4, TreesAre
    <2> QED
      BY <2>1, <1>3, TreesAre
  <1>6. ASSUME damaged' = "no"
        PROVE  damaged = "no" /\ made \in Unbroken /\ made[d] = "whole"
    <2>1. damaged = "no" /\ fetched[d] # "partial"
      BY <1>4, <1>6
    <2>2. fetched \in Unbroken /\ cached \in Unbroken
      <3>1. \A k \in Keys : cache[k] \subseteq Unbroken
        BY <1>0, <2>1 DEF Whole
      <3>2. cached \in Unbroken
        BY <3>1, RestoredUnbroken
      <3>3. fetched \in Unbroken
        BY <1>3, <2>1, FetchedUnbroken
      <3> QED
        BY <3>2, <3>3
    <2>3. trees \in Unbroken
      BY <1>3, <1>4, <2>2, TreesAre
    <2>4. trees[d] \in {"none", "whole"}
      BY <1>3, <2>3 DEF Unbroken
    <2> QED
      BY <1>3, <1>5, <2>1, <2>3, <2>4, TreesAre DEF tdlib_ready
  <1> HIDE DEF d, trees, made
  <1>7. JobGoes(r, g, "built")
    BY <1>0, <1>1, <1>3, JobSet DEF JobGoes
  <1>8. /\ work' \in [Runs -> [Jobs -> WorkType]]
        /\ work'[r][g].trees = made
        /\ \A q \in Runs, i \in Jobs : q # r \/ i # g => work'[q][i] = work[q][i]
        /\ compiled' \in [Runs -> SUBSET Jobs]
        /\ compiled'[r] = IF made = trees THEN compiled[r] ELSE compiled[r] \cup {g}
        /\ \A q \in Runs : q # r => compiled'[q] = compiled[q]
    BY <1>0, <1>3, <1>4, <1>5, Uses
  <1>9. Typed'
    <2>1. damaged' \in {"no", "yes"}
      BY <1>0, <1>4 DEF Typed
    <2> QED
      BY <1>0, <1>1, <1>7, <1>8, <2>1 DEF Typed, JobGoes
  <1>10. Ordered' /\ Tagged'
    BY <1>1, RunsStay
  <1>11. Begun'
    BY <1>0, <1>1, BegunStays
  <1>12. Staged'
    <2>1. StagedAt(r) /\ run' = run /\ artifact' = artifact
      BY <1>0, <1>1 DEF Staged
    <2>2. ~AllPrepared(r) /\ ~AllPrepared(r)'
      BY <1>1, <1>7 DEF AllPrepared, JobGoes
    <2>3. /\ \A l \in Legs : job'[r][l] = job[r][l]
          /\ \A h \in Groups : h # g => job'[r][h] = job[r][h]
          /\ job'[r][g] = "built"
      BY <1>3, <1>7, JobsAre DEF JobGoes
    <2>4. StagedAt(r)'
      BY <1>1, <2>1, <2>2, <2>3 DEF StagedAt
    <2> QED
      BY <1>0, <1>3, <1>7, <2>1, <2>4, OthersStaged
  <1>13. Genuine' /\ Published'
    BY <1>1, <1>3, <1>7, ArchivesStay
  <1>14. Whole'
    <2>0. run' = run /\ cache' = cache /\ artifact' = artifact
      BY <1>1
    <2>1. SUFFICES ASSUME damaged' = "no" PROVE Whole'
      BY DEF Whole
    <2>2. damaged = "no" /\ made \in Unbroken /\ made[Commit(r).td] = "whole"
      BY <1>6, <2>1 DEF d
    <2>3. \A q \in Runs : compiled'[q] \subseteq Groups
      BY <1>0, <1>8, <2>2 DEF Whole
    <2>4. \A q \in Runs, i \in Jobs : work'[q][i].trees \in Unbroken
      BY <1>0, <1>8, <2>2 DEF Whole
    <2>5. ASSUME NEW q \in Runs, NEW h \in Groups, job'[q][h] = "built"
          PROVE  work'[q][h].trees[Commit(q).td] = "whole"
      <3>1. CASE q = r /\ h = g
        BY <1>8, <2>2, <3>1
      <3>2. CASE q # r \/ h # g
        BY <1>0, <1>7, <1>8, <2>2, <2>5, <3>2, JobsAre DEF Whole, JobGoes
      <3> QED
        BY <3>1, <3>2
    <2> QED
      BY <1>0, <2>0, <2>2, <2>3, <2>4, <2>5 DEF Whole, Commit
  <1> QED
    BY <1>9, <1>10, <1>11, <1>12, <1>13, <1>14 DEF ReleaseInv

\* What it uploads, and saves, is whole.
LEMMA PrepUploadKeeps ==
  ASSUME ReleaseInv, NEW r \in Runs, NEW g \in Groups, PrepUpload(r, g)
  PROVE  ReleaseInv'
  <1>0. Typed /\ Begun /\ Staged /\ Whole
    BY DEF ReleaseInv
  <1>1. /\ run[r].stage = "prep" /\ job[r][g] = "built" /\ Status(r, g, "ok")
        /\ artifact' = [artifact EXCEPT ![r][g] = {work[r][g].trees}]
        /\ SaveCache(r, g)
        /\ work' = [work EXCEPT ![r][g] = NoWork]
        /\ UNCHANGED <<tag, run, release, draft, lost, prebuilt, compiled, linked, damaged, reruns, packs>>
    BY DEF PrepUpload
  <1> DEFINE trees == work[r][g].trees
  <1>2. g \in Jobs /\ g \notin Legs /\ "ok" \in Statuses
    BY JobsAre DEF Statuses
  <1>3. trees \in Trees
    <2>1. work \in [Runs -> [Jobs -> WorkType]]
      BY <1>0 DEF Typed
    <2>2. work[r][g] \in WorkType
      BY <1>2, <2>1
    <2> QED
      BY <2>2 DEF WorkType
  <1>4. damaged = "no" => trees \in Unbroken /\ trees[Commit(r).td] = "whole"
    BY <1>0, <1>1, <1>2 DEF Whole
  <1>5. JobGoes(r, g, "ok")
    BY <1>0, <1>1, <1>2, JobSet DEF JobGoes
  <1>6. /\ work' \in [Runs -> [Jobs -> WorkType]] /\ work'[r][g] = NoWork
        /\ \A q \in Runs, i \in Jobs : q # r \/ i # g => work'[q][i] = work[q][i]
    <2>1. NoWork \in WorkType /\ work' = [work EXCEPT ![r][g] = NoWork]
      BY <1>1, <1>3, Runner
    <2> QED
      BY <1>0, <1>2, <2>1 DEF Typed
  <1>7. /\ cache' \in [Keys -> SUBSET Trees]
        /\ \A k \in Keys : cache'[k] = cache[k] \/ cache'[k] = {trees}
    BY <1>0, <1>1, <1>2, Saves
  <1>8. /\ artifact' \in [Runs -> [Groups -> SUBSET Trees]] /\ artifact'[r][g] = {trees}
        /\ \A q \in Runs, h \in Groups : q # r \/ h # g => artifact'[q][h] = artifact[q][h]
        /\ \A q \in Runs : q # r => artifact'[q] = artifact[q]
    <2>1. artifact \in [Runs -> [Groups -> SUBSET Trees]] /\ {trees} \in SUBSET Trees
      BY <1>0, <1>3 DEF Typed
    <2>2. artifact' = [artifact EXCEPT ![r][g] = {trees}]
      BY <1>1
    <2> HIDE DEF trees
    <2> QED
      BY <2>1, <2>2
  <1> HIDE DEF trees
  <1>9. Typed'
    BY <1>0, <1>1, <1>5, <1>6, <1>7, <1>8 DEF Typed, JobGoes
  <1>10. Ordered' /\ Tagged'
    BY <1>1, RunsStay
  <1>11. Begun'
    BY <1>0, <1>1, <1>8, BegunStays
  <1>12. Staged'
    <2>1. StagedAt(r) /\ run' = run
      BY <1>0, <1>1 DEF Staged
    <2>2. ~AllPrepared(r)
      BY <1>1 DEF AllPrepared
    <2>3. /\ \A l \in Legs : job'[r][l] = job[r][l]
          /\ \A h \in Groups : h # g => job'[r][h] = job[r][h]
          /\ job'[r][g] = "ok"
      BY <1>2, <1>5, JobsAre DEF JobGoes
    <2>4. /\ \A l \in Legs : job'[r][l] = "waiting"
          /\ run[r].result = ""
      BY <1>1, <2>1, <2>2, <2>3 DEF StagedAt
    <2>5. \A h \in Groups : job'[r][h] = "ok" => artifact'[r][h] # {}
      BY <1>8, <2>1, <2>3 DEF StagedAt
    <2>6. StagedAt(r)'
      BY <1>1, <2>1, <2>3, <2>4, <2>5 DEF StagedAt
    <2> QED
      BY <1>0, <1>2, <1>5, <1>8, <2>1, <2>6, OthersStaged
  <1>13. Genuine' /\ Published'
    BY <1>1, <1>2, <1>5, ArchivesStay
  <1>14. Whole'
    <2>0. run' = run /\ compiled' = compiled /\ damaged' = damaged
      BY <1>1
    <2>1. SUFFICES ASSUME damaged = "no" PROVE Whole'
      BY <2>0 DEF Whole
    <2>2. \A k \in Keys : cache'[k] \subseteq Unbroken
      BY <1>0, <1>4, <1>7, <2>1 DEF Whole
    <2>3. NoWork.trees \in Unbroken
      BY <1>3, Runner
    <2>4. \A q \in Runs, i \in Jobs : work'[q][i].trees \in Unbroken
      BY <1>0, <1>6, <2>1, <2>3 DEF Whole
    <2>5. ASSUME NEW q \in Runs, NEW h \in Groups, job'[q][h] = "built"
          PROVE  work'[q][h].trees[Commit(q).td] = "whole"
      <3>1. q # r \/ h # g
        BY <1>5, <2>5 DEF JobGoes
      <3> QED
        BY <1>0, <1>5, <1>6, <2>1, <2>5, <3>1, JobsAre DEF Whole, JobGoes
    <2>6. ASSUME NEW q \in Runs, NEW h \in Groups, NEW x \in artifact'[q][h]
          PROVE  x \in Unbroken /\ x[Commit(q).td] = "whole"
      <3>1. CASE q = r /\ h = g
        BY <1>4, <1>8, <2>1, <2>6, <3>1
      <3>2. CASE q # r \/ h # g
        BY <1>0, <1>8, <2>1, <2>6, <3>2 DEF Whole
      <3> QED
        BY <3>1, <3>2
    <2> QED
      BY <1>0, <2>0, <2>1, <2>2, <2>4, <2>5, <2>6 DEF Whole, Commit
  <1> QED
    BY <1>9, <1>10, <1>11, <1>12, <1>13, <1>14 DEF ReleaseInv

\* A job that fails takes nothing back that succeeded.
LEMMA JobFailsKeeps ==
  ASSUME ReleaseInv, NEW r \in Runs, NEW j \in Jobs, JobFails(r, j)
  PROVE  ReleaseInv'
  <1>0. Typed /\ Begun /\ Staged /\ Whole
    BY DEF ReleaseInv
  <1>1. /\ job[r][j] = "built" /\ Status(r, j, "failed")
        /\ work' = [work EXCEPT ![r][j] = NoWork]
        /\ linked' = IF j \in Legs THEN [linked EXCEPT ![r][j] = ""] ELSE linked
        /\ UNCHANGED <<tag, run, artifact, release, draft, lost, prebuilt, cache, compiled, damaged,
                       reruns, packs>>
    BY DEF JobFails
  <1>2. "failed" \in Statuses
    BY DEF Statuses
  <1>3. StagedAt(r) /\ run' = run /\ artifact' = artifact
    BY <1>0, <1>1 DEF Staged
  <1>4. run[r].stage \in {"prep", "build"} /\ run[r].result = ""
    BY <1>1, <1>3, JobsAre DEF StagedAt
  <1>5. JobGoes(r, j, "failed")
    BY <1>0, <1>1, <1>2, JobSet DEF JobGoes
  <1>6. NoWork \in WorkType /\ NoWork.trees \in Unbroken
    <2>1. work \in [Runs -> [Jobs -> WorkType]]
      BY <1>0 DEF Typed
    <2>2. work[r][j] \in WorkType
      BY <2>1
    <2>3. work[r][j].trees \in Trees
      BY <2>2 DEF WorkType
    <2> QED
      BY <2>3, Runner
  <1>7. /\ work' \in [Runs -> [Jobs -> WorkType]] /\ work'[r][j] = NoWork
        /\ \A q \in Runs, i \in Jobs : q # r \/ i # j => work'[q][i] = work[q][i]
    <2>1. NoWork \in WorkType /\ work' = [work EXCEPT ![r][j] = NoWork]
      BY <1>1, <1>6
    <2> QED
      BY <1>0, <2>1 DEF Typed
  <1>8. /\ linked' \in [Runs -> [Legs -> {"", "static", "dynamic"}]]
        /\ \A q \in Runs, l \in Legs : q # r \/ l # j => linked'[q][l] = linked[q][l]
    <2>1. CASE j \in Legs
      <3>1. linked' = [linked EXCEPT ![r][j] = ""] /\ "" \in {"", "static", "dynamic"}
        BY <1>1, <2>1
      <3> QED
        BY <1>0, <2>1, <3>1, LinkedSet
    <2>2. CASE j \notin Legs
      BY <1>0, <1>1, <2>2 DEF Typed
    <2> QED
      BY <2>1, <2>2
  <1>9. Typed'
    BY <1>0, <1>1, <1>5, <1>7, <1>8 DEF Typed, JobGoes
  <1>10. Ordered' /\ Tagged'
    BY <1>1, RunsStay
  <1>11. Begun'
    BY <1>0, <1>1, <1>4, BegunStays
  <1>12. Staged'
    <2>1. \A i \in Jobs : i # j => job'[r][i] = job[r][i]
      BY <1>5 DEF JobGoes
    <2>2. job'[r][j] = "failed"
      BY <1>5 DEF JobGoes
    <2>3. AllPrepared(r)' <=> AllPrepared(r)
      BY <1>1, <2>1, <2>2, JobsAre DEF AllPrepared
    <2>4. /\ \A g \in Groups : job'[r][g] = "built" => job[r][g] = "built"
          /\ \A g \in Groups : job'[r][g] = "ok" => job[r][g] = "ok"
          /\ \A l \in Legs : job'[r][l] = "built" => job[r][l] = "built"
          /\ \A l \in Legs : job'[r][l] # "waiting" => job[r][l] # "waiting"
      BY <1>1, <2>1, <2>2, JobsAre
    <2>5. StagedAt(r)'
      BY <1>3, <1>4, <2>3, <2>4 DEF StagedAt
    <2> QED
      BY <1>0, <1>3, <1>5, <2>5, OthersStaged
  <1>13. Genuine' /\ Published'
    <2>1. job[r][j] \in {"waiting", "built"} /\ UNCHANGED <<run, reruns, release, draft, lost>>
          /\ ("failed" = "ok" /\ j \in Legs => linked'[r][j] = linked[r][j] /\ Verified(r, j))
      BY <1>1
    <2>2. \A q \in Runs, l \in Legs : q # r \/ l # j => linked'[q][l] = linked[q][l]
      BY <1>8
    <2> QED
      BY <1>2, <1>4, <1>5, <2>1, <2>2, ArchivesStay
  <1>14. Whole'
    <2>0. cache' = cache /\ compiled' = compiled /\ damaged' = damaged
      BY <1>1
    <2>1. SUFFICES ASSUME damaged = "no" PROVE Whole'
      BY <2>0 DEF Whole
    <2>4. \A q \in Runs, i \in Jobs : work'[q][i].trees \in Unbroken
      BY <1>0, <1>6, <1>7, <2>1 DEF Whole
    <2>5. ASSUME NEW q \in Runs, NEW h \in Groups, job'[q][h] = "built"
          PROVE  work'[q][h].trees[Commit(q).td] = "whole"
      <3>1. q # r \/ h # j
        BY <1>5, <2>5 DEF JobGoes
      <3> QED
        BY <1>0, <1>5, <1>7, <2>1, <2>5, <3>1, JobsAre DEF Whole, JobGoes
    <2> QED
      BY <1>0, <1>3, <2>0, <2>1, <2>4, <2>5 DEF Whole, Commit
  <1> QED
    BY <1>9, <1>10, <1>11, <1>12, <1>13, <1>14 DEF ReleaseInv

\* A row finds the tree of its pin whole: it has nothing to compile.
LEMMA LegBuildKeeps ==
  ASSUME ReleaseInv, NEW r \in Runs, NEW l \in Legs, LegBuild(r, l)
  PROVE  ReleaseInv'
  <1>0. Typed /\ Begun /\ Staged /\ Whole
    BY DEF ReleaseInv
  <1>1. /\ run[r].stage = "build" /\ job[r][l] = "waiting" /\ Status(r, l, "built")
        /\ UNCHANGED <<tag, run, artifact, release, draft, lost, prebuilt, cache, damaged, reruns, packs>>
    BY DEF LegBuild
  <1> DEFINE d == Commit(r).td
  <1>2. l \in Jobs /\ l \notin Groups /\ LegGroup[l] \in Groups /\ "built" \in Statuses /\ d \in TDs
    BY <1>0, <1>1, Pinned, JobsAre DEF Statuses
  <1>3. PICK cached \in Restored(r, LegGroup[l]), prepared \in artifact[r][LegGroup[l]] :
          LET trees == Overlay(cached, prepared) IN Use(r, l, trees, CargoBuild(trees, d))
    BY DEF LegBuild
  <1>4. PICK how \in IF LegGroup[l] \in MuslGroups THEN {"static", "dynamic"} ELSE {"dynamic"} :
          linked' = [linked EXCEPT ![r][l] = how]
    BY DEF LegBuild
  <1> DEFINE trees == Overlay(cached, prepared)
             made == CargoBuild(trees, d)
  <1>5. cached \in Trees /\ Use(r, l, trees, made)
    BY <1>0, <1>3, FoundAre
  <1>6. prepared \in Trees /\ trees \in Trees /\ made \in Trees
    <2>1. prepared \in Trees
      <3>1. artifact \in [Runs -> [Groups -> SUBSET Trees]]
        BY <1>0 DEF Typed
      <3>2. artifact[r][LegGroup[l]] \in SUBSET Trees
        BY <1>2, <3>1
      <3> QED
        BY <3>2
    <2>2. trees \in Trees
      BY <1>2, <1>5, <2>1, TreesAre
    <2> QED
      BY <1>2, <1>5, <2>1, <2>2, TreesAre
  <1>7. ASSUME damaged = "no"
        PROVE  made \in Unbroken /\ made = trees
    <2>1. prepared \in Unbroken /\ prepared[d] = "whole"
      BY <1>0, <1>2, <1>7 DEF Whole
    <2>2. cached \in Unbroken
      <3>1. \A k \in Keys : cache[k] \subseteq Unbroken
        BY <1>0, <1>7 DEF Whole
      <3> QED
        BY <3>1, RestoredUnbroken
    <2>3. trees \in Unbroken /\ trees[d] = "whole"
      BY <1>2, <1>5, <1>6, <2>1, <2>2, TreesAre
    <2> QED
      BY <1>2, <1>6, <2>3, TreesAre
  <1> HIDE DEF d, trees, made
  <1>8. JobGoes(r, l, "built")
    BY <1>0, <1>1, <1>2, JobSet DEF JobGoes
  <1>9. /\ work' \in [Runs -> [Jobs -> WorkType]]
        /\ work'[r][l].trees = made
        /\ \A q \in Runs, i \in Jobs : q # r \/ i # l => work'[q][i] = work[q][i]
        /\ compiled' \in [Runs -> SUBSET Jobs]
        /\ compiled'[r] = IF made = trees THEN compiled[r] ELSE compiled[r] \cup {l}
        /\ \A q \in Runs : q # r => compiled'[q] = compiled[q]
    BY <1>0, <1>2, <1>5, <1>6, Uses
  <1>10. /\ linked' \in [Runs -> [Legs -> {"", "static", "dynamic"}]]
         /\ \A q \in Runs, i \in Legs : q # r \/ i # l => linked'[q][i] = linked[q][i]
    <2>1. how \in {"", "static", "dynamic"} /\ linked' = [linked EXCEPT ![r][l] = how]
      BY <1>4
    <2> QED
      BY <1>0, <2>1 DEF Typed
  <1>11. Typed'
    BY <1>0, <1>1, <1>8, <1>9, <1>10 DEF Typed, JobGoes
  <1>12. Ordered' /\ Tagged'
    BY <1>1, RunsStay
  <1>13. Begun'
    BY <1>0, <1>1, BegunStays
  <1>14. Staged'
    <2>1. StagedAt(r) /\ run' = run /\ artifact' = artifact
      BY <1>0, <1>1 DEF Staged
    <2>2. /\ \A g \in Groups : job'[r][g] = job[r][g]
          /\ \A i \in Legs : i # l => job'[r][i] = job[r][i]
          /\ job'[r][l] = "built"
      BY <1>2, <1>8, JobsAre DEF JobGoes
    <2>3. AllPrepared(r) /\ AllPrepared(r)'
      BY <1>1, <2>1, <2>2 DEF StagedAt, AllPrepared
    <2>4. StagedAt(r)'
      BY <1>1, <2>1, <2>2, <2>3 DEF StagedAt
    <2> QED
      BY <1>0, <1>2, <1>8, <2>1, <2>4, OthersStaged
  <1>15. Genuine' /\ Published'
    BY <1>1, <1>2, <1>8, <1>10, ArchivesStay
  <1>16. Whole'
    <2>0. run' = run /\ cache' = cache /\ artifact' = artifact /\ damaged' = damaged
      BY <1>1
    <2>1. SUFFICES ASSUME damaged = "no" PROVE Whole'
      BY <2>0 DEF Whole
    <2>2. made \in Unbroken /\ made = trees
      BY <1>7, <2>1
    <2>3. \A q \in Runs : compiled'[q] \subseteq Groups
      BY <1>0, <1>9, <2>1, <2>2 DEF Whole
    <2>4. \A q \in Runs, i \in Jobs : work'[q][i].trees \in Unbroken
      BY <1>0, <1>9, <2>1, <2>2 DEF Whole
    <2>5. ASSUME NEW q \in Runs, NEW h \in Groups, job'[q][h] = "built"
          PROVE  work'[q][h].trees[Commit(q).td] = "whole"
      <3>1. h # l /\ h \in Jobs
        BY <1>2, JobsAre
      <3>2. job[q][h] = "built" /\ work'[q][h] = work[q][h]
        BY <1>8, <1>9, <2>5, <3>1 DEF JobGoes
      <3> QED
        BY <1>0, <2>1, <3>2 DEF Whole
    <2> QED
      BY <1>0, <2>0, <2>1, <2>3, <2>4, <2>5 DEF Whole, Commit
  <1> QED
    BY <1>11, <1>12, <1>13, <1>14, <1>15, <1>16 DEF ReleaseInv

\* A row succeeds only when it is verified.
LEMMA LegUploadKeeps ==
  ASSUME ReleaseInv, NEW r \in Runs, NEW l \in Legs, LegUpload(r, l)
  PROVE  ReleaseInv'
  <1>0. Typed /\ Begun /\ Staged /\ Whole
    BY DEF ReleaseInv
  <1>1. /\ run[r].stage = "build" /\ job[r][l] = "built" /\ Status(r, l, "ok")
        /\ Verified(r, l) /\ SaveCache(r, l)
        /\ work' = [work EXCEPT ![r][l] = NoWork]
        /\ UNCHANGED <<tag, run, artifact, release, draft, lost, prebuilt, compiled, linked, damaged,
                       reruns, packs>>
    BY DEF LegUpload
  <1>2. l \in Jobs /\ l \notin Groups /\ "ok" \in Statuses
    BY JobsAre DEF Statuses
  <1>3. work[r][l].trees \in Trees
    <2>1. work \in [Runs -> [Jobs -> WorkType]]
      BY <1>0 DEF Typed
    <2>2. work[r][l] \in WorkType
      BY <1>2, <2>1
    <2> QED
      BY <2>2 DEF WorkType
  <1>4. NoWork \in WorkType /\ NoWork.trees \in Unbroken
    BY <1>3, Runner
  <1>5. JobGoes(r, l, "ok")
    BY <1>0, <1>1, <1>2, JobSet DEF JobGoes
  <1>6. /\ work' \in [Runs -> [Jobs -> WorkType]] /\ work'[r][l] = NoWork
        /\ \A q \in Runs, i \in Jobs : q # r \/ i # l => work'[q][i] = work[q][i]
    BY <1>0, <1>1, <1>2, <1>4 DEF Typed
  <1>7. /\ cache' \in [Keys -> SUBSET Trees]
        /\ \A k \in Keys : cache'[k] = cache[k] \/ cache'[k] = {work[r][l].trees}
    BY <1>0, <1>1, <1>2, Saves
  <1>8. Typed'
    BY <1>0, <1>1, <1>5, <1>6, <1>7 DEF Typed, JobGoes
  <1>9. Ordered' /\ Tagged'
    BY <1>1, RunsStay
  <1>10. Begun'
    BY <1>0, <1>1, BegunStays
  <1>11. Staged'
    <2>1. StagedAt(r) /\ run' = run /\ artifact' = artifact
      BY <1>0, <1>1 DEF Staged
    <2>2. /\ \A g \in Groups : job'[r][g] = job[r][g]
          /\ \A i \in Legs : i # l => job'[r][i] = job[r][i]
          /\ job'[r][l] = "ok"
      BY <1>2, <1>5, JobsAre DEF JobGoes
    <2>3. AllPrepared(r) /\ AllPrepared(r)'
      BY <1>1, <2>1, <2>2 DEF StagedAt, AllPrepared
    <2>4. StagedAt(r)'
      BY <1>1, <2>1, <2>2, <2>3 DEF StagedAt
    <2> QED
      BY <1>0, <1>2, <1>5, <2>1, <2>4, OthersStaged
  <1>12. Genuine' /\ Published'
    <2>1. linked' = linked /\ UNCHANGED <<run, reruns, release, draft, lost>>
      BY <1>1
    <2>2. \A q \in Runs, i \in Legs : q # r \/ i # l => linked'[q][i] = linked[q][i]
      BY <2>1
    <2>3. "ok" = "ok" /\ l \in Legs => linked'[r][l] = linked[r][l] /\ Verified(r, l)
      BY <1>1, <2>1
    <2>4. job[r][l] \in {"waiting", "built"} /\ run[r].stage \in {"prep", "build"}
      BY <1>1
    <2> QED
      BY <1>2, <1>5, <2>1, <2>2, <2>3, <2>4, ArchivesStay
  <1>13. Whole'
    <2>0. run' = run /\ compiled' = compiled /\ damaged' = damaged /\ artifact' = artifact
      BY <1>1
    <2>1. SUFFICES ASSUME damaged = "no" PROVE Whole'
      BY <2>0 DEF Whole
    <2>2. \A k \in Keys : cache'[k] \subseteq Unbroken
      <3>1. work[r][l].trees \in Unbroken
        BY <1>0, <1>2, <2>1 DEF Whole
      <3>2. \A k \in Keys : cache[k] \subseteq Unbroken
        BY <1>0, <2>1 DEF Whole
      <3> QED
        BY <1>7, <3>1, <3>2
    <2>4. \A q \in Runs, i \in Jobs : work'[q][i].trees \in Unbroken
      BY <1>0, <1>4, <1>6, <2>1 DEF Whole
    <2>5. ASSUME NEW q \in Runs, NEW h \in Groups, job'[q][h] = "built"
          PROVE  work'[q][h].trees[Commit(q).td] = "whole"
      <3>1. h # l /\ h \in Jobs
        BY <1>2, JobsAre
      <3>2. job[q][h] = "built" /\ work'[q][h] = work[q][h]
        BY <1>5, <1>6, <2>5, <3>1 DEF JobGoes
      <3> QED
        BY <1>0, <2>1, <3>2 DEF Whole
    <2> QED
      BY <1>0, <2>0, <2>1, <2>2, <2>4, <2>5 DEF Whole, Commit
  <1> QED
    BY <1>8, <1>9, <1>10, <1>11, <1>12, <1>13 DEF ReleaseInv

\* The workflow for prebuilt trees adds whole ones.
LEMMA PackKeeps ==
  ASSUME ReleaseInv, NEW g \in Groups, Pack(g)
  PROVE  ReleaseInv'
  <1>0. Typed /\ Begun /\ Staged /\ Genuine /\ Published /\ Whole
    BY DEF ReleaseInv
  <1>1. PICK c \in Commits :
          LET k == <<"branch", g, c.fingerprint>>
          IN /\ prebuilt' = prebuilt \cup {<<g, c.td>>}
             /\ cache' = [cache EXCEPT ![k] =
                            IF @ = {} THEN {[NoTrees EXCEPT ![c.td] = "whole"]} ELSE @]
    BY DEF Pack
  <1>2. /\ packs < MaxPacks /\ packs' = packs + 1
        /\ UNCHANGED <<tag, run, job, work, artifact, release, draft, lost, compiled, linked, damaged,
                       reruns>>
    BY DEF Pack
  <1> DEFINE whole == [NoTrees EXCEPT ![c.td] = "whole"]
  <1>3. whole \in Trees /\ whole \in Unbroken
    BY CommitsAssumption DEF NoTrees, Trees, Unbroken
  <1>4. /\ cache' \in [Keys -> SUBSET Trees]
        /\ \A k \in Keys : cache'[k] = cache[k] \/ cache'[k] = {whole}
    <2> DEFINE k == <<"branch", g, c.fingerprint>>
    <2>1. cache' = [cache EXCEPT ![k] = IF @ = {} THEN {whole} ELSE @]
      BY <1>1
    <2>2. cache \in [Keys -> SUBSET Trees]
      BY <1>0 DEF Typed
    <2> HIDE DEF k, whole
    <2> QED
      BY <1>3, <2>1, <2>2
  <1> HIDE DEF whole
  <1>5. packs' \in 0..MaxPacks
    <2>1. packs \in 0..MaxPacks
      BY <1>0 DEF Typed
    <2> QED
      BY ONLY <1>2, <2>1, BoundsAssumption
  <1>6. prebuilt' \subseteq Groups \X TDs
    <2>1. <<g, c.td>> \in Groups \X TDs
      BY CommitsAssumption
    <2> QED
      BY <1>0, <1>1, <2>1 DEF Typed
  <1>7. Typed'
    BY <1>0, <1>2, <1>4, <1>5, <1>6 DEF Typed
  <1>8. Ordered' /\ Tagged'
    BY <1>2, RunsStay
  <1>9. Begun' /\ Staged' /\ Genuine' /\ Published'
    <2>1. run' = run /\ job' = job /\ artifact' = artifact /\ release' = release
          /\ draft' = draft /\ lost' = lost /\ linked' = linked /\ reruns' = reruns
      BY <1>2
    <2>2. Begun' /\ Published'
      BY <1>0, <2>1 DEF Begun, Commit, Published, PublishedOf, Displaced, Succeeded
    <2>3. Staged'
      <3>1. SUFFICES ASSUME NEW q \in Runs PROVE StagedAt(q)'
        BY DEF Staged
      <3>2. StagedAt(q)
        BY <1>0 DEF Staged
      <3> QED
        BY <2>1, <3>2 DEF StagedAt, AllPrepared
    <2>4. Genuine'
      BY <1>0, <2>1 DEF Genuine, Verified
    <2> QED
      BY <2>2, <2>3, <2>4
  <1>10. Whole'
    <2>1. run' = run /\ job' = job /\ artifact' = artifact /\ work' = work
          /\ compiled' = compiled /\ damaged' = damaged
      BY <1>2
    <2> QED
      BY <1>0, <1>3, <1>4, <2>1 DEF Whole, Commit
  <1> QED
    BY <1>7, <1>8, <1>9, <1>10 DEF ReleaseInv

\* The invariant holds at first.
LEMMA InitKeeps ==
  ASSUME Init
  PROVE  ReleaseInv
  <1>1. NoWork \in WorkType /\ NoWork.trees \in Unbroken
    <2>1. NoTrees \in Trees
      BY DEF NoTrees, Trees
    <2> QED
      BY <2>1, Runner
  <1>2. [ref |-> "branch", commit |-> NoCommit, stage |-> "none", result |-> ""] \in RunType
    BY DEF RunType, Refs, Stages
  <1>3. 0 \in 0..MaxRuns /\ 0 \in 0..MaxPacks
    BY BoundsAssumption
  <1>4. "waiting" \in Statuses
    BY DEF Statuses
  <1>5. Typed
    BY <1>1, <1>2, <1>3, <1>4 DEF Init, Typed
  <1>6. Begun
    BY DEF Init, Begun, Commit
  <1>7. /\ \A r \in Runs : run[r].stage = "none" /\ run[r].result = "" /\ run[r].ref = "branch"
        /\ \A r \in Runs, j \in Jobs : job[r][j] = "waiting"
    BY DEF Init
  <1>8. Staged
    <2>1. SUFFICES ASSUME NEW q \in Runs PROVE StagedAt(q)
      BY DEF Staged
    <2>2. /\ \A g \in Groups : job[q][g] = "waiting"
          /\ \A l \in Legs : job[q][l] = "waiting"
          /\ run[q].stage = "none" /\ run[q].result = ""
      <3>1. \A j \in Jobs : job[q][j] = "waiting"
        BY <1>7
      <3>2. run[q].stage = "none" /\ run[q].result = ""
        BY <1>7
      <3> QED
        BY <3>1, <3>2, JobsAre
    <2> QED
      BY <2>2 DEF StagedAt
  <1>9. Ordered /\ Tagged /\ Published
    BY <1>7, RefsAssumption DEF Ordered, Tagged, Latest, Published
  <1>10. Genuine
    BY <1>7, JobsAre DEF Init, Genuine
  <1>11. Whole
    BY <1>1, <1>7, JobsAre DEF Init, Whole
  <1> QED
    BY <1>5, <1>6, <1>8, <1>9, <1>10, <1>11 DEF ReleaseInv

\* The inductive invariant holds in every run of the workflow.
LEMMA ReleaseCorrect == Spec => []ReleaseInv
  <1>1. Init => ReleaseInv
    BY InitKeeps
  <1>2. ReleaseInv /\ [Next]_vars => ReleaseInv'
    <2>1. SUFFICES ASSUME ReleaseInv, [Next]_vars PROVE ReleaseInv'
      OBVIOUS
    <2>2. ASSUME NEW r \in Runs, PushTag(r) PROVE ReleaseInv'
      BY <2>1, <2>2, PushTagKeeps
    <2>3. ASSUME NEW r \in Runs, Dispatch(r) PROVE ReleaseInv'
      BY <2>1, <2>3, DispatchKeeps
    <2>4. ASSUME NEW r \in Runs, Start(r) PROVE ReleaseInv'
      BY <2>1, <2>4, StartKeeps
    <2>5. ASSUME NEW r \in Runs, StartBuild(r) PROVE ReleaseInv'
      BY <2>1, <2>5, StartBuildKeeps
    <2>6. ASSUME NEW r \in Runs, StartPublish(r) PROVE ReleaseInv'
      BY <2>1, <2>6, StartPublishKeeps
    <2>7. ASSUME NEW r \in Runs, Publish(r) PROVE ReleaseInv'
      BY <2>1, <2>7, UploadKeeps
    <2>8. ASSUME NEW r \in Runs, PublishFails(r) PROVE ReleaseInv'
      BY <2>1, <2>8, UploadKeeps
    <2>9. ASSUME NEW r \in Runs, Rerun(r) PROVE ReleaseInv'
      BY <2>1, <2>9, RerunKeeps
    <2>10. ASSUME NEW r \in Runs, NEW g \in Groups, PrepBuild(r, g) PROVE ReleaseInv'
      BY <2>1, <2>10, PrepBuildKeeps
    <2>11. ASSUME NEW r \in Runs, NEW g \in Groups, PrepUpload(r, g) PROVE ReleaseInv'
      BY <2>1, <2>11, PrepUploadKeeps
    <2>12. ASSUME NEW r \in Runs, NEW l \in Legs, LegBuild(r, l) PROVE ReleaseInv'
      BY <2>1, <2>12, LegBuildKeeps
    <2>13. ASSUME NEW r \in Runs, NEW l \in Legs, LegUpload(r, l) PROVE ReleaseInv'
      BY <2>1, <2>13, LegUploadKeeps
    <2>14. ASSUME NEW r \in Runs, NEW j \in Jobs, JobFails(r, j) PROVE ReleaseInv'
      BY <2>1, <2>14, JobFailsKeeps
    <2>15. ASSUME NEW g \in Groups, Pack(g) PROVE ReleaseInv'
      BY <2>1, <2>15, PackKeeps
    <2>16. CASE UNCHANGED vars
      <3>1. /\ tag' = tag /\ run' = run /\ job' = job /\ work' = work /\ artifact' = artifact
            /\ release' = release /\ draft' = draft /\ lost' = lost /\ prebuilt' = prebuilt /\ cache' = cache
            /\ compiled' = compiled /\ linked' = linked /\ damaged' = damaged
            /\ reruns' = reruns /\ packs' = packs
        BY <2>16 DEF vars
      <3>2. Typed' /\ Begun' /\ Whole'
        BY <2>1, <3>1 DEF ReleaseInv, Typed, Begun, Whole, Commit
      <3>3. Staged'
        BY <2>1, <3>1 DEF ReleaseInv, Staged, StagedAt, AllPrepared
      <3>4. Ordered' /\ Tagged'
        BY <2>1, <3>1, RunsStay
      <3>5. Genuine' /\ Published'
        BY <2>1, <3>1 DEF ReleaseInv, Genuine, Verified, Published, PublishedOf, Displaced,
                          Succeeded
      <3> QED
        BY <3>2, <3>3, <3>4, <3>5 DEF ReleaseInv
    <2> QED
      BY <2>1, <2>2, <2>3, <2>4, <2>5, <2>6, <2>7, <2>8, <2>9, <2>10, <2>11, <2>12, <2>13,
        <2>14, <2>15, <2>16 DEF Next, Finished
  <1> QED
    BY <1>1, <1>2, PTL DEF Spec

\* Among some of the runs there is a last one.
LEMMA LastRun ==
  ASSUME NEW S \in SUBSET Runs, S # {}
  PROVE  \E r \in S : \A q \in S : q <= r
<1> DEFINE I == {r..MaxRuns : r \in S}
           R == StrictSubsetOrdering(Nat)
<1>1. IsWellFoundedOn(R, FiniteSubsetsOf(Nat))
  BY FS_StrictSubsetOrderingWellFounded
<1>2. I \subseteq FiniteSubsetsOf(Nat)
  <2>1. SUFFICES ASSUME NEW r \in S PROVE r..MaxRuns \in FiniteSubsetsOf(Nat)
    OBVIOUS
  <2>2. r \in Int /\ MaxRuns \in Int /\ r..MaxRuns \subseteq Nat
    BY BoundsAssumption DEF Runs
  <2>3. IsFiniteSet(r..MaxRuns)
    BY ONLY <2>2, FS_Interval
  <2> QED
    BY <2>2, <2>3 DEF FiniteSubsetsOf
<1>3. I # {}
  OBVIOUS
<1> HIDE DEF I, R
<1>4. PICK m \in I : \A n \in I : ~(<<n, m>> \in R)
  BY <1>1, <1>2, <1>3, WFMin
<1>5. PICK r \in S : m = r..MaxRuns
  BY DEF I
<1>6. ASSUME NEW q \in S, r < q PROVE FALSE
  <2>1. q..MaxRuns \subseteq r..MaxRuns /\ r \in r..MaxRuns /\ r \notin q..MaxRuns
    BY <1>6, BoundsAssumption DEF Runs
  <2>2. r..MaxRuns \subseteq Nat /\ q..MaxRuns \subseteq Nat
    BY BoundsAssumption DEF Runs
  <2>3. <<q..MaxRuns, m>> \in R
    BY <2>1, <2>2, <1>5 DEF R, StrictSubsetOrdering
  <2> QED
    BY <2>3, <1>4 DEF I
<1> QED
  BY <1>6 DEF Runs

\* Type correctness, for any matrix of groups and rows and any number of runs.
THEOREM ReleaseTypes == Spec => []TypeOK
  <1>1. ReleaseInv => TypeOK
    <2>1. SUFFICES ASSUME ReleaseInv PROVE TypeOK
      OBVIOUS
    <2>2. Typed /\ Staged
      BY <2>1 DEF ReleaseInv
    <2>3. ASSUME NEW r \in Runs
          PROVE  /\ \A j \in Jobs : work[r][j].trees \in Trees
                 /\ \A g \in Groups : artifact[r][g] \subseteq Trees
                 /\ run[r].stage = "build" => \A g \in Groups : artifact[r][g] # {}
      <3>1. work \in [Runs -> [Jobs -> WorkType]]
        BY <2>2 DEF Typed
      <3>2. \A j \in Jobs : work[r][j].trees \in Trees
        <4>1. SUFFICES ASSUME NEW j \in Jobs PROVE work[r][j].trees \in Trees
          OBVIOUS
        <4>2. work[r][j] \in WorkType
          BY <3>1
        <4> QED
          BY <4>2 DEF WorkType
      <3>3. run[r].stage = "build" => \A g \in Groups : artifact[r][g] # {}
        BY <2>2 DEF Staged, StagedAt, AllPrepared
      <3>4. artifact \in [Runs -> [Groups -> SUBSET Trees]]
        BY <2>2 DEF Typed
      <3>5. \A g \in Groups : artifact[r][g] \subseteq Trees
        BY <3>4
      <3> QED
        BY <3>2, <3>3, <3>5
    <2> QED
      BY <2>2, <2>3 DEF Typed, TypeOK
  <1> QED
    BY <1>1, ReleaseCorrect, PTL

\* CompiledOnce (release.yml:177): unless a prebuilt tree was unpacked in part, no row
\* of a run compiles TDLib, and so no two jobs of a group do.
THEOREM NoRowCompiles == Spec => []CompiledOnce
  <1>1. ReleaseInv => CompiledOnce
    <2>1. SUFFICES ASSUME ReleaseInv, damaged = "no", NEW r \in Runs, NEW g \in Groups
                   PROVE  Cardinality({j \in compiled[r] : GroupOf(j) = g}) <= 1
      BY DEF CompiledOnce
    <2> DEFINE who == {j \in compiled[r] : GroupOf(j) = g}
    <2>2. compiled[r] \subseteq Groups
      BY <2>1 DEF ReleaseInv, Whole
    <2>3. who = {} \/ who = {g}
      BY <2>2, JobsAre
    <2>4. Cardinality({}) = 0 /\ Cardinality({g}) = 1
      BY FS_EmptySet, FS_Singleton
    <2> QED
      BY <2>3, <2>4
  <1> QED
    BY <1>1, ReleaseCorrect, PTL

\* PublishesWhatSucceeded (release.yml:257, 273): in every order of runs, failures, lost
\* archives and re-runs, what is published is of rows that succeeded, and after a run that
\* ended well all of them are but those that got lost in it, or by what came after it.
THEOREM ArchivesAreOfSuccess == Spec => []PublishesWhatSucceeded
  <1>1. ReleaseInv => PublishesWhatSucceeded
    <2>1. SUFFICES ASSUME ReleaseInv, NEW r \in Runs
                   PROVE  \A l \in Legs :
                            l \in draft[r] \/ (\E t \in Tags : release[t][l] = r) =>
                              job[r][l] = "ok"
                              /\ (LegGroup[l] \in MuslGroups => linked[r][l] = "static")
      BY DEF ReleaseInv, Published, PublishedOf, PublishesWhatSucceeded
    <2>2. r # 0
      BY DEF Runs
    <2> QED
      BY <2>1, <2>2 DEF ReleaseInv, Genuine, Verified
  <1> QED
    BY <1>1, ReleaseCorrect, PTL

\* StaleArchiveHasCause (release.yml:20, 257): an archive of an older commit in a tag's
\* release is explained by a re-run, or by what became of its row in the latest run of
\* the tag: not published, failed, or lost in a publication that may have ended well.
THEOREM StaleIsExplained == Spec => []StaleArchiveHasCause
  <1>1. ReleaseInv => StaleArchiveHasCause
    <2>1. SUFFICES ASSUME ReleaseInv, NEW t \in Tags, NEW l \in Legs,
                          release[t][l] # 0, Commit(release[t][l]) # tag[t],
                          release[t][l] \notin reruns
                   PROVE  \E r \in Latest(t) :
                            run[r].result # "published" \/ job[r][l] # "ok" \/ l \in lost[r]
      BY DEF StaleArchiveHasCause
    <2> DEFINE k == release[t][l]
    <2>2. k \in Runs
      <3>1. k \in 0..MaxRuns
        <4>1. release \in [Tags -> [Legs -> 0..MaxRuns]]
          BY <2>1 DEF ReleaseInv, Typed
        <4> QED
          BY <4>1
      <3> QED
        BY ONLY <2>1, <3>1, BoundsAssumption DEF Runs
    <2>3. run[k].ref = t
      BY <2>1 DEF ReleaseInv, Genuine
    <2>4. PICK r \in {q \in Runs : run[q].ref = t} : \A q \in {p \in Runs : run[p].ref = t} : q <= r
      <3>1. {q \in Runs : run[q].ref = t} # {} /\ {q \in Runs : run[q].ref = t} \in SUBSET Runs
        BY <2>2, <2>3
      <3> QED
        BY ONLY <3>1, LastRun
    <2>5. r \in Latest(t)
      BY <2>4 DEF Latest
    <2>6. ASSUME run[r].result = "published", job[r][l] = "ok", l \notin lost[r] PROVE FALSE
      <3>1. k >= r
        BY <2>1, <2>4, <2>6 DEF ReleaseInv, Published, PublishedOf, Succeeded
      <3>2. k <= r
        BY <2>2, <2>3, <2>4
      <3>3. k = r
        BY <2>2, <2>4, <3>1, <3>2 DEF Runs
      <3> QED
        BY <2>1, <2>5, <3>3 DEF ReleaseInv, Tagged
    <2> QED
      BY <2>5, <2>6
  <1> QED
    BY <1>1, ReleaseCorrect, PTL
=============================================================================
