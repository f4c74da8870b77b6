--------------------------- MODULE TdSourceCache ---------------------------
(***************************************************************************)
(* resolve_td_source (build.rs): a build looks for an unpacked TDLib       *)
(* source tree in the target directory and otherwise removes what is       *)
(* there, downloads, verifies and unpacks the pinned tarball, and stamps   *)
(* the tree.  Cargo locks a target directory for a profile, so the builds  *)
(* of one profile follow one another and those of two may meet: nothing    *)
(* locks source/<TD_COMMIT>.  Any build may be killed between two steps.   *)
(***************************************************************************)
EXTENDS Naturals

CONSTANTS
  Profiles,    \* profiles built in one target directory
  Files,       \* the files of the source tree
  CMakeLists,  \* the one that is looked for
  MaxKills,    \* bound: builds killed
  MaxFaults    \* bound: failed removals, failed or damaged downloads

ASSUME FilesAssumption == CMakeLists \in Files
ASSUME BoundsAssumption == MaxKills \in Nat /\ MaxFaults \in Nat

VARIABLES
  pc,         \* where the build of each profile is
  left,       \* the files it has still to unpack
  trouble,    \* whether it met a fault
  submodule,  \* third_party/td is checked out
  tarball, tree, stamp,  \* what source/<TD_COMMIT> holds
  met,        \* history: the builds that worked in the cache with another at work in it
  spoiled,    \* history: one of these ended at work, and the cache was not renewed since
  kills, faults

cacheVars == <<tarball, tree, stamp>>
vars == <<pc, left, trouble, submodule, cacheVars, met, spoiled, kills, faults>>

FillPcs == {"removing", "download", "downloading", "verify", "unpacking", "search",
            "stamping"}
Pcs == FillPcs \cup {"check", "using", "panicked"}

\* An unpacked tree may have come with a target directory copied from elsewhere:
\* its stamp then names a path that does not exist.
Init ==
  /\ pc = [p \in Profiles |-> "check"] /\ left = [p \in Profiles |-> {}]
  /\ trouble = [p \in Profiles |-> "none"]
  /\ submodule \in BOOLEAN
  /\ tarball = "absent"
  /\ \/ tree = {} /\ stamp = "absent"
     \/ tree = Files /\ stamp = "elsewhere"
  /\ met = {} /\ spoiled = "no" /\ kills = 0 /\ faults = 0

Filling(p) == pc[p] \in FillPcs
OtherFilling(p) == \E q \in Profiles \ {p} : Filling(q)

Goto(p, from, to) ==
  /\ pc[p] = from /\ pc' = [pc EXCEPT ![p] = to]
  /\ UNCHANGED <<submodule, kills>>
\* What a build that met another leaves behind is anything.
Ends(p, to) == spoiled' = IF to = "panicked" /\ p \in met THEN "yes" ELSE spoiled
Step(p, from, to) == Goto(p, from, to) /\ Ends(p, to) /\ UNCHANGED <<left, met>>
NoFault == UNCHANGED <<trouble, faults>>
Fault(p) ==
  /\ faults < MaxFaults /\ faults' = faults + 1
  /\ trouble' = [trouble EXCEPT ![p] = "met"]

UseSubmodule(p) ==
  submodule /\ Step(p, "check", "using") /\ NoFault /\ UNCHANGED cacheVars

\* Mutant of Reusable: the stamp is not asked for.
AnyTree == CMakeLists \in tree

\* The stamp names a directory that has a CMakeLists.txt; an empty one does not.
Reusable == stamp = "path" /\ CMakeLists \in tree

\* The look at the stamp and what is decided on it: a build meets those at work in
\* the cache, and they meet it if it is going to work there too.
Look(p, to) ==
  /\ ~submodule /\ Goto(p, "check", to)
  /\ met' = met \cup (IF OtherFilling(p) THEN {p} ELSE {})
                 \cup (IF to = "using" THEN {} ELSE {q \in Profiles \ {p} : Filling(q)})
  /\ NoFault /\ UNCHANGED <<left, cacheVars, spoiled>>

Reuse(p) == Reusable /\ Look(p, "using")

\* Mutant of StartOver: what an earlier build left is not removed.
KeepLeftovers(p) == ~Reusable /\ Look(p, "download")

StartOver(p) == ~Reusable /\ Look(p, "removing")

\* The directory is taken away under a build by another one: between the looks at
\* the stamp, or at any step once two of them are at work.  An expect() panics.
TakenAway(p) ==
  /\ \/ pc[p] = "check" /\ ~submodule /\ OtherFilling(p) /\ UNCHANGED spoiled
     \/ Filling(p) /\ pc[p] # "removing" /\ p \in met /\ Ends(p, "panicked")
  /\ pc' = [pc EXCEPT ![p] = "panicked"] /\ met' = met \cup {p}
  /\ NoFault /\ UNCHANGED <<left, submodule, cacheVars, kills>>

\* remove_dir_all takes the entries one by one, in the order of the file system.
RemoveEntry(p) ==
  /\ Step(p, "removing", "removing") /\ NoFault
  /\ \/ tarball' = "absent" /\ UNCHANGED <<tree, stamp>>
     \/ \E f \in tree : tree' = tree \ {f} /\ UNCHANGED <<tarball, stamp>>
     \/ stamp' = "absent" /\ UNCHANGED <<tarball, tree>>

\* Its failure, or what another build put there meanwhile, is ignored: the build
\* goes on with what is left.
Empty == tarball = "absent" /\ tree = {} /\ stamp = "absent"
RemoveEnd(p) ==
  /\ Goto(p, "removing", "download")
  /\ IF Empty \/ p \in met THEN NoFault ELSE Fault(p)
  /\ spoiled' = IF Empty /\ p \notin met THEN "no" ELSE spoiled
  /\ UNCHANGED <<cacheVars, left, met>>

\* download_file: a tarball that is there is taken for the download.
SkipDownload(p) ==
  tarball # "absent" /\ Step(p, "download", "verify") /\ NoFault /\ UNCHANGED cacheVars

StartDownload(p) ==
  /\ tarball = "absent" /\ tarball' = "partial"
  /\ Step(p, "download", "downloading") /\ NoFault /\ UNCHANGED <<tree, stamp>>

\* curl or wget ends with success, with the pinned bytes or with others (or in a
\* file that another build has unlinked) ...
EndDownload(p) ==
  /\ Step(p, "downloading", "verify")
  /\ \/ tarball' = "good" /\ NoFault
     \/ tarball' = "bad" /\ Fault(p)
     \/ p \in met /\ UNCHANGED tarball /\ NoFault
  /\ UNCHANGED <<tree, stamp>>

\* ... or both fail and leave what they wrote.
NoDownload(p) ==
  Step(p, "downloading", "panicked") /\ Fault(p) /\ UNCHANGED cacheVars

\* verify_tarball: the SHA-256 of the pinned tarball, or a panic.
verify_tarball(p) ==
  /\ LET to == IF tarball = "good" THEN "unpacking" ELSE "panicked"
     IN Goto(p, "verify", to) /\ Ends(p, to)
  /\ left' = [left EXCEPT ![p] = Files]
  /\ NoFault /\ UNCHANGED <<cacheVars, met>>

\* unpack writes the files of the pinned tarball one by one.
UnpackFile(p) ==
  /\ Goto(p, "unpacking", "unpacking") /\ NoFault
  /\ \E f \in left[p] : tree' = tree \cup {f} /\ left' = [left EXCEPT ![p] = @ \ {f}]
  /\ UNCHANGED <<tarball, stamp, met, spoiled>>

UnpackEnd(p) ==
  left[p] = {} /\ Step(p, "unpacking", "search") /\ NoFault /\ UNCHANGED cacheVars

\* Mutant of FindRoot: the stamp is to name the file that was found.
StampFile(p) ==
  /\ Step(p, "search", IF CMakeLists \in tree THEN "stamping" ELSE "panicked") /\ NoFault
  /\ stamp' = IF CMakeLists \in tree THEN CMakeLists ELSE stamp
  /\ UNCHANGED <<tarball, tree>>

\* The search for td-*/CMakeLists.txt; fs::write then creates the stamp empty ...
FindRoot(p) ==
  /\ Step(p, "search", IF CMakeLists \in tree THEN "stamping" ELSE "panicked") /\ NoFault
  /\ stamp' = IF CMakeLists \in tree THEN "empty" ELSE stamp
  /\ UNCHANGED <<tarball, tree>>

\* ... and fills it: another build may have unlinked it and put its own there.
WriteStamp(p) ==
  /\ Goto(p, "stamping", "using") /\ NoFault
  /\ stamp' \in IF stamp = "absent" THEN {"absent"}
              ELSE IF p \in met THEN {stamp, "path"} ELSE {"path"}
  /\ spoiled' = IF p \in met THEN spoiled ELSE "no"
  /\ UNCHANGED <<tarball, tree, left, met>>

\* The profile's next build, after the end of one or after a panic.
NextBuild(p) ==
  /\ pc[p] \in {"using", "panicked"}
  /\ pc' = [pc EXCEPT ![p] = "check"] /\ trouble' = [trouble EXCEPT ![p] = "none"]
  /\ met' = met \ {p}
  /\ UNCHANGED <<left, submodule, cacheVars, spoiled, kills, faults>>

Kill(p) ==
  /\ kills < MaxKills /\ kills' = kills + 1
  /\ pc' = [pc EXCEPT ![p] = "check"] /\ trouble' = [trouble EXCEPT ![p] = "none"]
  /\ left' = [left EXCEPT ![p] = {}] /\ met' = met \ {p}
  /\ spoiled' = IF Filling(p) /\ p \in met THEN "yes" ELSE spoiled
  /\ UNCHANGED <<submodule, cacheVars, faults>>

Clear(p) == UseSubmodule(p) \/ Reuse(p) \/ StartOver(p) \/ RemoveEntry(p) \/ RemoveEnd(p)
Download(p) ==
  \/ SkipDownload(p) \/ StartDownload(p) \/ EndDownload(p) \/ NoDownload(p)
  \/ verify_tarball(p)
Unpack(p) == UnpackFile(p) \/ UnpackEnd(p) \/ FindRoot(p) \/ WriteStamp(p)
Next ==
  \E p \in Profiles :
    Clear(p) \/ TakenAway(p) \/ Download(p) \/ Unpack(p) \/ NextBuild(p) \/ Kill(p)
Spec == Init /\ [][Next]_vars

-----------------------------------------------------------------------------
TypeOK ==
  /\ pc \in [Profiles -> Pcs] /\ left \in [Profiles -> SUBSET Files]
  /\ trouble \in [Profiles -> {"none", "met"}]
  /\ submodule \in BOOLEAN
  /\ tarball \in {"absent", "partial", "bad", "good"}
  /\ tree \subseteq Files
  /\ stamp \in {"absent", "elsewhere", "empty", "path"}
  /\ met \subseteq Profiles /\ spoiled \in {"no", "yes"} /\ kills \in Nat /\ faults \in Nat

\* A build that met no other runs CMake on a complete tree, whatever builds were killed
\* before and whatever they failed to download or to remove, and also after builds have
\* met, when they all came to their end: the last of them that removed anything unpacked
\* everything again.  Only when one that met another was killed or panicked at its work
\* may its stamp, or the other's, stand by an incomplete tree, until a build alone in the
\* cache has emptied or refilled it (build.rs:306, 314, 344).
UsedTreeIsComplete ==
  spoiled = "no" /\ ~submodule =>
    \A p \in Profiles \ met : pc[p] = "using" => tree = Files

\* A build that met no other panics only for a fault of its own, never for what those
\* before it left in the cache, whether they met, were killed or failed.
PanicHasCause ==
  \A p \in Profiles \ met : pc[p] = "panicked" => trouble[p] = "met"
=============================================================================
