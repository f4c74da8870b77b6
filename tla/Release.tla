------------------------------ MODULE Release ------------------------------
(***************************************************************************)
(* The release workflow (.github/workflows/release.yml) over several runs: *)
(* TDLib is prepared once per group, the rows of the matrix are built in   *)
(* the prepared trees, and whatever rows succeeded is published.  Runs     *)
(* share the prebuilt trees, actions/cache and the GitHub release of a     *)
(* tag.  GitHub, cargo and tar are external.                               *)
(***************************************************************************)
EXTENDS Naturals, FiniteSets

CONSTANTS
  Commits,    \* commits released: [td : TDs, fingerprint : Fingerprints]
  TDs,        \* values of TD_COMMIT
  Fingerprints, \* contents hashed into the cache key (ci/tdlib-build-fingerprint and others)
  Groups,     \* tdlib_cache_group
  MuslGroups, \* the groups whose rows are verified to be fully static
  Legs, LegGroup,  \* the rows of the matrix (suffix), and the group of each
  Tags, Malformed,  \* tags; those that are not MAJOR.MINOR.PATCH
  NoCommit,
  MaxRuns, MaxReruns, MaxPacks  \* bounds: runs, re-runs, prebuilt workflow runs

ASSUME CommitsAssumption == \A c \in Commits : c.td \in TDs /\ c.fingerprint \in Fingerprints
ASSUME LegsAssumption == LegGroup \in [Legs -> Groups] /\ Legs \cap Groups = {}
ASSUME GroupsAssumption == MuslGroups \subseteq Groups /\ Malformed \subseteq Tags
ASSUME RefsAssumption == "branch" \notin Tags
ASSUME BoundsAssumption == MaxRuns \in Nat /\ MaxReruns \in Nat /\ MaxPacks \in Nat

VARIABLES
  tag,       \* the commit of each tag
  run,       \* the workflow runs
  job,       \* status of each job of each run
  work,      \* tdlib-build-cache on the runner of each job
  artifact,  \* tdlib-prep-<group> of each run
  release,   \* the run each archive of a tag's release comes from, 0 without one
  draft,     \* the archives in the draft releases of each run
  lost,      \* history: the archives of each run that its publication did not upload
  prebuilt,  \* assets of the release tdlib-prebuilt
  cache,     \* actions/cache entries
  compiled,  \* history: the jobs of each run under way that compiled TDLib
  linked,    \* history: how the binary of each row was linked
  damaged,   \* history: a prebuilt tree was unpacked in part
  reruns,    \* history: the runs that were re-run
  packs      \* runs of the prebuilt workflow

vars == <<tag, run, job, work, artifact, release, draft, lost, prebuilt, cache, compiled,
          linked, damaged, reruns, packs>>

Runs == 1..MaxRuns
Jobs == Groups \cup Legs
GroupOf(j) == IF j \in Groups THEN j ELSE LegGroup[j]
Refs == Tags \cup {"branch"}
Stages == {"none", "queued", "prep", "build", "publish", "over", "cancelled"}
Statuses == {"waiting", "built", "ok", "failed"}

(* A tree of build.rs for each TD_COMMIT: absent, unpacked in part, or whole. *)
Trees == [TDs -> {"none", "partial", "whole"}]
NoTrees == [d \in TDs |-> "none"]
NoWork == [trees |-> NoTrees, missed |-> FALSE]
Better(a, b) == IF "whole" \in {a, b} THEN "whole"
                ELSE IF "partial" \in {a, b} THEN "partial" ELSE "none"

\* Mutant of Overlay: what is unpacked second is lost.
KeepFirst(s, t) == s

\* The archive t unpacked over s.
Overlay(s, t) == [d \in TDs |-> Better(s[d], t[d])]

\* Cache entries are of a ref.
Keys == Refs \X Groups \X Fingerprints

Init ==
  /\ tag = [t \in Tags |-> NoCommit]
  /\ run = [r \in Runs |-> [ref |-> "branch", commit |-> NoCommit, stage |-> "none", result |-> ""]]
  /\ job = [r \in Runs |-> [j \in Jobs |-> "waiting"]]
  /\ work = [r \in Runs |-> [j \in Jobs |-> NoWork]]
  /\ artifact = [r \in Runs |-> [g \in Groups |-> {}]]
  /\ release = [t \in Tags |-> [l \in Legs |-> 0]]
  /\ draft = [r \in Runs |-> {}] /\ lost = [r \in Runs |-> {}]
  /\ prebuilt = {}
  /\ cache = [k \in Keys |-> {}]
  /\ compiled = [r \in Runs |-> {}]
  /\ linked = [r \in Runs |-> [l \in Legs |-> ""]]
  /\ damaged = "no"
  /\ reruns = {} /\ packs = 0

Commit(r) == run[r].commit
Active(r) == run[r].stage \in {"prep", "build", "publish"}
Move(r, stage) == run' = [run EXCEPT ![r].stage = stage]
Over(r, result) == run' = [run EXCEPT ![r].stage = "over", ![r].result = result]
Status(r, j, s) == job' = [job EXCEPT ![r][j] = s]

-----------------------------------------------------------------------------
(* Runs: one at a time for a ref, and at most one waiting.                 *)

\* A run that waits gives way to the next one of its ref.
Queue(r, ref, c) ==
  run' = [q \in Runs |->
    IF q = r THEN [ref |-> ref, commit |-> c, stage |-> "queued", result |-> ""]
    ELSE IF run[q].ref = ref /\ run[q].stage = "queued"
         THEN [run[q] EXCEPT !.stage = "cancelled"] ELSE run[q]]

IsNext(r) == run[r].stage = "none" /\ \A q \in Runs : q < r => run[q].stage # "none"

\* A tag is pushed, or moved to another commit.
PushTag(r) ==
  /\ IsNext(r)
  /\ \E t \in Tags, c \in Commits :
       /\ c # tag[t]
       /\ tag' = [tag EXCEPT ![t] = c]
       /\ Queue(r, t, c)
  /\ UNCHANGED <<job, work, artifact, release, draft, lost, prebuilt, cache, compiled, linked,
                 damaged, reruns, packs>>

\* workflow_dispatch on the branch.
Dispatch(r) ==
  /\ IsNext(r)
  /\ \E c \in Commits : Queue(r, "branch", c)
  /\ UNCHANGED <<tag, job, work, artifact, release, draft, lost, prebuilt, cache, compiled,
                 linked, damaged, reruns, packs>>

\* Mutant of GroupFree: runs of a ref are not kept apart.
AlwaysFree(r) == TRUE

\* concurrency: release-<ref>.
GroupFree(r) == \A q \in Runs : run[q].ref = run[r].ref => ~Active(q)

\* validate-tag, then the first jobs that are still to be done.
Start(r) ==
  /\ run[r].stage = "queued" /\ GroupFree(r)
  /\ \/ /\ run[r].ref \in Malformed \cup {"branch"}  \* version_label may be malformed
        /\ r \notin reruns
        /\ Over(r, "invalid")
     \/ /\ run[r].ref \notin Malformed
        /\ Move(r, IF \A g \in Groups : job[r][g] = "ok" THEN "build" ELSE "prep")
  /\ UNCHANGED <<tag, job, work, artifact, release, draft, lost, prebuilt, cache, compiled,
                 linked, damaged, reruns, packs>>

-----------------------------------------------------------------------------
(* The jobs.                                                               *)

\* actions/cache: the entry of the key, or else any entry of the group; those of the
\* branch are looked at when the ref of the run has none.
EntriesOf(ref, g) == {k \in Keys : k[1] = ref /\ k[2] = g /\ cache[k] # {}}
Entries(r, g) == EntriesOf(IF EntriesOf(run[r].ref, g) # {} THEN run[r].ref ELSE "branch", g)
Exact(r, g) == {k \in Entries(r, g) : k[3] = Commit(r).fingerprint}
Restored(r, g) ==
  IF Entries(r, g) = {} THEN {NoTrees}
  ELSE UNION {cache[k] : k \in IF Exact(r, g) # {} THEN Exact(r, g) ELSE Entries(r, g)}

\* Its post step, when the job succeeded: an entry is written once, and not by a job
\* that found one of its key.
SaveCache(r, j) ==
  LET k == <<run[r].ref, GroupOf(j), Commit(r).fingerprint>>
  IN cache' = IF work[r][j].missed /\ cache[k] = {}
              THEN [cache EXCEPT ![k] = {work[r][j].trees}] ELSE cache

\* fetch-tdlib-prebuilt.sh: absent, unpacked, or unpacked in part (hit is not read).
Fetched(g, d) ==
  {NoTrees} \cup IF <<g, d>> \in prebuilt
                 THEN {[NoTrees EXCEPT ![d] = s] : s \in {"partial", "whole"}} ELSE {}

\* tdlib-cmake-install-ready.sh asks only for tdlib-install/lib: a tree unpacked in
\* part passes.
tdlib_ready(trees, d) == trees[d] # "none"

\* cargo build in the tree of the pin: what is missing of it is compiled.
CargoBuild(trees, d) == [trees EXCEPT ![d] = "whole"]

\* The runner of a job once it is through with the trees it found.
Use(r, j, found, made) ==
  /\ work' = [work EXCEPT ![r][j] = [trees |-> made, missed |-> Exact(r, GroupOf(j)) = {}]]
  /\ compiled' = [compiled EXCEPT ![r] = IF made = found THEN @ ELSE @ \cup {j}]

\* prep-tdlib: the prebuilt tree, the cache unpacked over it, and cargo build if no
\* tree is there.
PrepBuild(r, g) ==
  /\ run[r].stage = "prep" /\ job[r][g] = "waiting"
  /\ \E fetched \in Fetched(g, Commit(r).td), cached \in Restored(r, g) :
       LET d == Commit(r).td  trees == Overlay(fetched, cached)
       IN /\ damaged' = IF fetched[d] = "partial" THEN "yes" ELSE damaged
          /\ Use(r, g, trees, IF tdlib_ready(trees, d) THEN trees ELSE CargoBuild(trees, d))
  /\ Status(r, g, "built")
  /\ UNCHANGED <<tag, run, artifact, release, draft, lost, prebuilt, cache, linked,
                 reruns, packs>>

PrepUpload(r, g) ==
  /\ run[r].stage = "prep" /\ job[r][g] = "built"
  /\ artifact' = [artifact EXCEPT ![r][g] = {work[r][g].trees}]
  /\ SaveCache(r, g)
  /\ work' = [work EXCEPT ![r][g] = NoWork]
  /\ Status(r, g, "ok")
  /\ UNCHANGED <<tag, run, release, draft, lost, prebuilt, compiled, linked, damaged,
                 reruns, packs>>

\* Any step of a job may fail, or the job may take longer than 180 minutes; what it
\* did is lost with its runner.
JobFails(r, j) ==
  /\ job[r][j] = "built"
  /\ Status(r, j, "failed")
  /\ work' = [work EXCEPT ![r][j] = NoWork]
  /\ linked' = IF j \in Legs THEN [linked EXCEPT ![r][j] = ""] ELSE linked
  /\ UNCHANGED <<tag, run, artifact, release, draft, lost, prebuilt, cache, compiled,
                 damaged, reruns, packs>>

\* Mutant of AllPrepared: build runs whatever became of the preparation.
AllEnded(r) == \A g \in Groups : job[r][g] \in {"ok", "failed"}

\* needs: [validate-tag, prep-tdlib].
AllPrepared(r) == \A g \in Groups : job[r][g] = "ok"

PrepEnded(r) == run[r].stage = "prep" /\ \A g \in Groups : job[r][g] \in {"ok", "failed"}
StartBuild(r) ==
  /\ PrepEnded(r) /\ AllPrepared(r)
  /\ Move(r, "build")
  /\ UNCHANGED <<tag, job, work, artifact, release, draft, lost, prebuilt, cache, compiled,
                 linked, damaged, reruns, packs>>

\* A row: the cache, the tree of prep-tdlib over it, and cargo build or cross build;
\* a musl binary may turn out not to be static.
LegBuild(r, l) ==
  /\ run[r].stage = "build" /\ job[r][l] = "waiting"
  /\ \E cached \in Restored(r, LegGroup[l]), prepared \in artifact[r][LegGroup[l]] :
       LET trees == Overlay(cached, prepared)
       IN Use(r, l, trees, CargoBuild(trees, Commit(r).td))
  /\ \E how \in IF LegGroup[l] \in MuslGroups THEN {"static", "dynamic"} ELSE {"dynamic"} :
       linked' = [linked EXCEPT ![r][l] = how]
  /\ Status(r, l, "built")
  /\ UNCHANGED <<tag, run, artifact, release, draft, lost, prebuilt, cache, damaged,
                 reruns, packs>>

\* Mutant of Verified: the check is skipped.
NotVerified(r, l) == TRUE

\* verify-fully-static.sh, for the musl rows.
Verified(r, l) == LegGroup[l] \in MuslGroups => linked[r][l] = "static"

LegUpload(r, l) ==
  /\ run[r].stage = "build" /\ job[r][l] = "built"
  /\ Verified(r, l)
  /\ SaveCache(r, l)
  /\ work' = [work EXCEPT ![r][l] = NoWork]
  /\ Status(r, l, "ok")
  /\ UNCHANGED <<tag, run, artifact, release, draft, lost, prebuilt, compiled, linked,
                 damaged, reruns, packs>>

-----------------------------------------------------------------------------
(* Publishing, re-runs, and the workflow that makes the prebuilt trees.    *)

Succeeded(r) == {l \in Legs : job[r][l] = "ok"}

\* needs.build.result.
BuildResult(r) == CASE ~AllPrepared(r) -> "skipped"
                    [] AllPrepared(r) /\ Succeeded(r) = Legs -> "success"
                    [] OTHER -> "failure"

\* Mutant of MayPublish: the default condition, success().
OnSuccess(r) == BuildResult(r) = "success"

\* always() and build was not skipped.
MayPublish(r) == BuildResult(r) # "skipped"

StartPublish(r) ==
  /\ \/ run[r].stage = "build" /\ \A l \in Legs : job[r][l] \in {"ok", "failed"}
     \/ PrepEnded(r) /\ ~AllPrepared(r)
  /\ IF MayPublish(r) THEN Move(r, "publish") ELSE Over(r, "unpublished")
  /\ compiled' = [compiled EXCEPT ![r] = {}]
  /\ UNCHANGED <<tag, job, work, artifact, release, draft, lost, prebuilt, cache, linked,
                 damaged, reruns, packs>>

\* A tag's release is updated (allowUpdates): an asset of the same name is removed, and
\* the archive takes its place unless that upload fails.
Uploaded(r, up, gone) ==
  [l \in Legs |-> IF l \in up THEN r ELSE IF l \in gone THEN 0 ELSE release[run[r].ref][l]]

\* What the download of the archives brought is uploaded.  That it failed, in whole or
\* in part, does not fail the job (continue-on-error), and a failed upload only warns.
\* A dispatch gets a draft of its own.
Upload(r) ==
  /\ run[r].stage = "publish"
  /\ \E up \in SUBSET Succeeded(r) :
       /\ lost' = [lost EXCEPT ![r] = Succeeded(r) \ up]
       /\ IF run[r].ref \in Tags
          THEN /\ \E gone \in SUBSET (Succeeded(r) \ up) :
                    release' = [release EXCEPT ![run[r].ref] = Uploaded(r, up, gone)]
               /\ UNCHANGED draft
          ELSE draft' = [draft EXCEPT ![r] = @ \cup up] /\ UNCHANGED release
  /\ UNCHANGED <<tag, job, work, artifact, prebuilt, cache, compiled, linked, damaged,
                 reruns, packs>>

\* So the job ends well with all of it published, or some, or nothing, ...
Publish(r) == Upload(r) /\ Over(r, "published")

\* ... and it fails when release-action does, or GitHub, before or after some uploads.
PublishFails(r) == Upload(r) /\ Over(r, "failed")

\* "Re-run failed jobs": of the commit the run was made for, wherever its tag is now.
Rerun(r) ==
  /\ run[r].stage = "over" /\ run[r].result # "invalid"
  /\ r \notin reruns /\ Cardinality(reruns) < MaxReruns
  /\ run[r].result = "failed" \/ \E j \in Jobs : job[r][j] = "failed"
  /\ Queue(r, run[r].ref, Commit(r))
  /\ job' = [job EXCEPT ![r] = [j \in Jobs |-> IF @[j] = "failed" THEN "waiting" ELSE @[j]]]
  /\ reruns' = reruns \cup {r}
  /\ UNCHANGED <<tag, work, artifact, release, draft, lost, prebuilt, cache, compiled,
                 linked, damaged, packs>>

\* tdlib-prebuilt.yml for one group: cargo build makes the tree of the pin whole, it is
\* saved as a cache entry of the branch and uploaded (bound: between runs).
Pack(g) ==
  /\ packs < MaxPacks /\ \A r \in Runs : ~Active(r)
  /\ \E c \in Commits :
       LET k == <<"branch", g, c.fingerprint>>
       IN /\ prebuilt' = prebuilt \cup {<<g, c.td>>}
          /\ cache' = [cache EXCEPT ![k] = IF @ = {} THEN {[NoTrees EXCEPT ![c.td] = "whole"]} ELSE @]
  /\ packs' = packs + 1
  /\ UNCHANGED <<tag, run, job, work, artifact, release, draft, lost, compiled, linked,
                 damaged, reruns>>

Finished ==
  /\ \A r \in Runs : run[r].stage \in {"over", "cancelled"}
  /\ UNCHANGED vars

Next ==
  \/ \E r \in Runs :
       \/ PushTag(r) \/ Dispatch(r) \/ Start(r) \/ StartBuild(r) \/ StartPublish(r)
       \/ Publish(r) \/ PublishFails(r) \/ Rerun(r)
       \/ \E g \in Groups : PrepBuild(r, g) \/ PrepUpload(r, g)
       \/ \E l \in Legs : LegBuild(r, l) \/ LegUpload(r, l)
       \/ \E j \in Jobs : JobFails(r, j)
  \/ \E g \in Groups : Pack(g)
  \/ Finished

Spec == Init /\ [][Next]_vars

-----------------------------------------------------------------------------
RunType == [ref : Refs, commit : Commits \cup {NoCommit}, stage : Stages,
            result : {"", "invalid", "unpublished", "failed", "published"}]

\* Every variable is of its kind, and while the rows of a run are built the trees of
\* all groups are there (release.yml:132).
TypeOK ==
  /\ tag \in [Tags -> Commits \cup {NoCommit}]
  /\ run \in [Runs -> RunType]
  /\ job \in [Runs -> [Jobs -> Statuses]]
  /\ \A r \in Runs : /\ \A j \in Jobs : work[r][j].trees \in Trees
                     /\ \A g \in Groups : artifact[r][g] \subseteq Trees
                     /\ run[r].stage = "build" => \A g \in Groups : artifact[r][g] # {}
  /\ release \in [Tags -> [Legs -> 0..MaxRuns]]
  /\ draft \in [Runs -> SUBSET Legs] /\ lost \in [Runs -> SUBSET Legs]
  /\ prebuilt \subseteq Groups \X TDs
  /\ \A k \in Keys : cache[k] \subseteq Trees
  /\ compiled \in [Runs -> SUBSET Jobs] /\ linked \in [Runs -> [Legs -> {"", "static", "dynamic"}]]
  /\ damaged \in {"no", "yes"} /\ reruns \subseteq Runs /\ packs \in 0..MaxPacks

\* In one run at most one job of a group compiles TDLib (release.yml:177, README.md:194),
\* also when the fingerprint was not bumped with TD_COMMIT, when the cache holds trees of
\* other pins only, and when jobs are re-run; unless a prebuilt tree was once unpacked
\* in part, which counts as ready, is passed on to every row and stays in the cache.
CompiledOnce ==
  damaged = "no" =>
    \A r \in Runs, g \in Groups : Cardinality({j \in compiled[r] : GroupOf(j) = g}) <= 1

Latest(t) == {r \in Runs : run[r].ref = t /\ \A q \in Runs : run[q].ref = t => q <= r}

\* An archive in a tag's release that is not of the tag's commit has a cause: the run of
\* that commit has not published, or it published without the archive because the row
\* failed or the archive got lost on its way (a green run may have published nothing),
\* or the archive comes from a re-run of an older run (release.yml:20, 257, 273).
StaleArchiveHasCause ==
  \A t \in Tags, l \in Legs :
    LET k == release[t][l]
    IN k # 0 /\ Commit(k) # tag[t] =>
         \/ k \in reruns
         \/ \E r \in Latest(t) :
              run[r].result # "published" \/ job[r][l] # "ok" \/ l \in lost[r]

\* A later run of the ref, or a re-run, lost its archive of the row.
Displaced(r, l) ==
  \E q \in Runs : run[q].ref = run[r].ref /\ l \in lost[q] /\ (q > r \/ q \in reruns)

\* When a run ended well each row that succeeded is published, whatever became of the
\* others, unless its archive got lost on its way; it stays there until a later run or a
\* re-run replaces it or fails to.  What is published is of a row that succeeded, static
\* if it is a musl row (README.md:194, release.yml:248).
PublishesWhatSucceeded ==
  \A r \in Runs :
    /\ run[r].result \in {"published", "unpublished"} => \A l \in Succeeded(r) \ lost[r] :
         IF run[r].ref \in Tags
         THEN LET k == release[run[r].ref][l]
              IN \/ k >= r \/ k \in reruns
                 \/ k = 0 /\ Displaced(r, l)
         ELSE l \in draft[r]
    /\ \A l \in Legs :
         l \in draft[r] \/ (\E t \in Tags : release[t][l] = r) =>
           job[r][l] = "ok" /\ (LegGroup[l] \in MuslGroups => linked[r][l] = "static")
=============================================================================
