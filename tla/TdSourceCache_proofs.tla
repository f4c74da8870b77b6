------------------------ MODULE TdSourceCache_proofs ------------------------
(***************************************************************************)
(* Theorems about TdSourceCache, for any set of profiles and of files and  *)
(* any number of kills and faults.                                         *)
(***************************************************************************)
EXTENDS TdSourceCache, TLAPS

\* Two builds that fill the cache have met, and a build that has not looked yet has
\* met none.
Alone == \A p, q \in Profiles : Filling(p) /\ Filling(q) /\ p # q => p \in met
Fresh == \A p \in met : pc[p] # "check"

\* Build r will still unpack file f, whatever is taken away before.
Owes(r, f) ==
  \/ pc[r] \in {"removing", "download", "downloading", "verify"}
  \/ pc[r] = "unpacking" /\ f \in left[r]

\* A file that is missing is still to come from somebody, when a stamp stands or a
\* build is at work, unless one that met another did not come to its end.
Covered == \A f \in Files \ tree : \E r \in Profiles : Owes(r, f)
Repaired ==
  spoiled = "no" /\ (stamp = "path" \/ \E p \in Profiles : Filling(p)) => Covered

\* What each place of a build that met no other may rely on: it has the cache for
\* itself; without a fault of its own it has removed everything and downloaded the
\* pinned bytes; what it is done with is unpacked; a tree in use is stamped.
Relied(p) ==
  /\ Filling(p) /\ spoiled = "no" => stamp # "path"
  /\ pc[p] = "using" /\ ~submodule => Reusable /\ \A q \in Profiles : ~Filling(q)
  /\ pc[p] = "download" /\ trouble[p] = "none" => tarball = "absent"
  /\ pc[p] = "verify" /\ trouble[p] = "none" => tarball = "good"
  /\ pc[p] = "unpacking" => Files \ left[p] \subseteq tree
  /\ pc[p] \in {"search", "stamping"} => tree = Files
  /\ pc[p] = "stamping" => stamp # "absent"
  /\ pc[p] = "panicked" => trouble[p] = "met"

Meetings == Alone /\ Fresh
CacheInv == TypeOK /\ Meetings /\ Repaired /\ \A p \in Profiles \ met : Relied(p)

\* The invariant holds before the first build.
LEMMA CacheInit == Init => CacheInv
  BY BoundsAssumption
     DEF Init, CacheInv, TypeOK, Meetings, Alone, Fresh, Repaired, Relied, Filling, FillPcs, Pcs

\* Types are kept by a build that goes from one place to another.
LEMMA TypeStep ==
  ASSUME TypeOK, NEW p \in Profiles,
         \/ Clear(p) \/ TakenAway(p) \/ Download(p) \/ Unpack(p) \/ NextBuild(p) \/ Kill(p)
  PROVE  TypeOK'
  <1> USE DEF TypeOK, Goto, Step, Ends, NoFault, Fault, cacheVars, Pcs, FillPcs
  <1>1. CASE Clear(p)
    BY <1>1 DEF Clear, UseSubmodule, Reuse, StartOver, RemoveEntry, RemoveEnd, Look
  <1>2. CASE TakenAway(p)
    BY <1>2 DEF TakenAway
  <1>3. CASE Download(p)
    <2>1. CASE SkipDownload(p) \/ StartDownload(p) \/ NoDownload(p)
      BY <2>1 DEF SkipDownload, StartDownload, NoDownload
    <2>2. CASE EndDownload(p)
      BY <2>2 DEF EndDownload
    <2>3. CASE verify_tarball(p)
      BY <2>3 DEF verify_tarball
    <2> QED
      BY <1>3, <2>1, <2>2, <2>3 DEF Download
  <1>4. CASE Unpack(p)
    <2>1. CASE UnpackFile(p)
      BY <2>1 DEF UnpackFile
    <2>2. CASE UnpackEnd(p) \/ FindRoot(p) \/ WriteStamp(p)
      BY <2>2 DEF UnpackEnd, FindRoot, WriteStamp
    <2> QED
      BY <1>4, <2>1, <2>2 DEF Unpack
  <1>5. CASE NextBuild(p)
    BY <1>5 DEF NextBuild
  <1>6. CASE Kill(p)
    BY <1>6, BoundsAssumption DEF Kill
  <1> QED
    BY <1>1, <1>2, <1>3, <1>4, <1>5, <1>6

\* The steps of a build that go on with its work in the cache ...
Work(p) == RemoveEntry(p) \/ RemoveEnd(p) \/ Download(p) \/ Unpack(p)

\* ... are those of a build that fills it, touch no other build, and none of them
\* makes two builds meet.
LEMMA WorkIsOwn ==
  ASSUME TypeOK, NEW p \in Profiles, Work(p)
  PROVE  /\ Filling(p) /\ UNCHANGED <<met, submodule>>
         /\ pc'[p] \in Pcs \ {"check"} /\ pc' = [pc EXCEPT ![p] = pc'[p]]
         /\ \A q \in Profiles \ {p} : left'[q] = left[q] /\ trouble'[q] = trouble[q]
  <1> USE DEF TypeOK, Goto, Step, Ends, NoFault, Fault, cacheVars, Filling, FillPcs, Pcs
  <1>1. CASE RemoveEntry(p) \/ RemoveEnd(p)
    BY <1>1 DEF RemoveEntry, RemoveEnd
  <1>2. CASE Download(p)
    <2>1. CASE SkipDownload(p) \/ StartDownload(p) \/ NoDownload(p)
      BY <2>1 DEF SkipDownload, StartDownload, NoDownload
    <2>2. CASE EndDownload(p)
      BY <2>2 DEF EndDownload
    <2>3. CASE verify_tarball(p)
      BY <2>3 DEF verify_tarball
    <2> QED
      BY <1>2, <2>1, <2>2, <2>3 DEF Download
  <1>3. CASE Unpack(p)
    <2>1. CASE UnpackFile(p)
      BY <2>1 DEF UnpackFile
    <2>2. CASE UnpackEnd(p) \/ FindRoot(p) \/ WriteStamp(p)
      BY <2>2 DEF UnpackEnd, FindRoot, WriteStamp
    <2> QED
      BY <1>3, <2>1, <2>2 DEF Unpack
  <1> QED
    BY <1>1, <1>2, <1>3 DEF Work

\* Who has met whom is kept by the work, ...
LEMMA WorkMeetings ==
  ASSUME TypeOK, Meetings, NEW p \in Profiles, Work(p)
  PROVE  Meetings'
  <1> USE DEF TypeOK, Filling
  <1>1. \A q \in Profiles \ {p} : pc'[q] = pc[q]
    BY WorkIsOwn
  <1>2. Alone'
    BY <1>1, WorkIsOwn DEF Meetings, Alone
  <1>3. Fresh'
    BY <1>1, WorkIsOwn DEF Meetings, Fresh
  <1> QED
    BY <1>2, <1>3 DEF Meetings

\* ... and a build that met none finds nothing changed by another's work: while it
\* fills the cache or uses it, there is no other at work.
LEMMA OthersRely ==
  ASSUME CacheInv, NEW p \in Profiles, Work(p), NEW q \in Profiles \ met, q # p
  PROVE  Relied(q)'
  <1>1. ~Filling(q) /\ pc'[q] = pc[q] /\ trouble'[q] = trouble[q] /\ submodule' = submodule
    BY WorkIsOwn DEF CacheInv, Meetings, Alone, TypeOK
  <1>2. ~(pc[q] = "using" /\ ~submodule)
    BY WorkIsOwn DEF CacheInv, Relied
  <1>3. pc[q] = "panicked" => trouble[q] = "met"
    BY DEF CacheInv, Relied
  <1> QED
    BY <1>1, <1>2, <1>3 DEF Relied, Filling, FillPcs

\* What is missing is still to come as long as the build at work owes what it takes
\* away and puts there what it no longer owes.
LEMMA StillCovered ==
  ASSUME TypeOK, Covered, NEW p \in Profiles, Work(p),
         \A f \in Files : f \in tree \/ Owes(p, f) => f \in tree' \/ Owes(p, f)'
  PROVE  Covered'
  <1>1. \A f \in Files, r \in Profiles \ {p} : Owes(r, f) => Owes(r, f)'
    BY WorkIsOwn DEF Owes, TypeOK
  <1> SUFFICES ASSUME NEW f \in Files, f \notin tree' PROVE \E r \in Profiles : Owes(r, f)'
    BY DEF Covered
  <1>2. CASE f \in tree
    BY <1>2
  <1>3. CASE f \notin tree
    <2>1. PICK r \in Profiles : Owes(r, f)
      BY <1>3 DEF Covered
    <2>2. CASE r = p
      BY <2>1, <2>2
    <2>3. CASE r # p
      BY <1>1, <2>1, <2>3
    <2> QED
      BY <2>2, <2>3
  <1> QED
    BY <1>2, <1>3

\* A build at work keeps the promise, or panics.  When one that met none panics, there
\* is no stamp and nobody else at work.
LEMMA WorkRepaired ==
  ASSUME CacheInv, NEW p \in Profiles, Work(p)
  PROVE  Repaired'
  <1> USE DEF CacheInv, TypeOK, Goto, Step, Ends, Filling, FillPcs
  <1>1. Filling(p) /\ UNCHANGED met
    BY WorkIsOwn
  <1>2. spoiled = "no" => Covered
    BY <1>1 DEF Repaired
  <1>3. CASE RemoveEntry(p)
    <2>1. \A f : Owes(p, f)' /\ UNCHANGED spoiled
      BY <1>3 DEF RemoveEntry, Owes
    <2> QED
      BY <1>2, <2>1, StillCovered DEF Repaired
  <1>4. CASE RemoveEnd(p)
    <2>1. \A f : Owes(p, f)'
      BY <1>4 DEF RemoveEnd, Owes
    <2> QED
      BY <2>1 DEF Repaired, Covered
  <1>5. CASE pc'[p] = "panicked"
    <2>1. CASE p \in met
      <3>1. spoiled' = "yes"
        BY <1>5, <2>1 DEF Work, RemoveEntry, RemoveEnd, Download, SkipDownload, StartDownload,
             EndDownload, NoDownload, verify_tarball, Unpack, UnpackFile, UnpackEnd, FindRoot,
             WriteStamp
      <3> QED
        BY <3>1 DEF Repaired
    <2>2. CASE p \notin met
      <3>1. \A q \in Profiles : ~Filling(q)'
        BY <1>1, <1>5, <2>2, WorkIsOwn DEF Meetings, Alone
      <3>2. UNCHANGED spoiled
        BY <1>5, <2>2 DEF Work, RemoveEntry, RemoveEnd, Download, SkipDownload, StartDownload,
             EndDownload, NoDownload, verify_tarball, Unpack, UnpackFile, UnpackEnd, FindRoot,
             WriteStamp
      <3>3. stamp' = stamp \/ stamp' = "empty"
        BY <1>5 DEF Work, RemoveEntry, RemoveEnd, Download, SkipDownload, StartDownload,
             EndDownload, NoDownload, verify_tarball, Unpack, UnpackFile, UnpackEnd, FindRoot,
             WriteStamp, cacheVars
      <3>4. spoiled = "no" => stamp # "path"
        BY <1>1, <2>2 DEF Relied
      <3> QED
        BY <3>1, <3>2, <3>3, <3>4 DEF Repaired
    <2> QED
      BY <2>1, <2>2
  <1>6. CASE Download(p) /\ pc'[p] # "panicked"
    <2>1. UNCHANGED <<tree, spoiled>> /\ \A f \in Files : Owes(p, f)'
      BY <1>6 DEF Download, SkipDownload, StartDownload, EndDownload, NoDownload,
                  verify_tarball, cacheVars, Owes
    <2> QED
      BY <1>2, <1>6, <2>1, StillCovered DEF Repaired, Work
  <1>7. CASE UnpackFile(p)
    <2>1. UNCHANGED spoiled /\ \A f \in Files : f \in tree \/ Owes(p, f) => f \in tree' \/ Owes(p, f)'
      BY <1>7 DEF UnpackFile, Owes
    <2> QED
      BY <1>2, <1>7, <2>1, StillCovered DEF Repaired, Work, Unpack
  <1>8. CASE UnpackEnd(p) \/ (FindRoot(p) /\ pc'[p] # "panicked")
    <2>1. UNCHANGED <<spoiled, tree>> /\ \A f : ~Owes(p, f)
      BY <1>8 DEF UnpackEnd, FindRoot, Owes, cacheVars
    <2> QED
      BY <1>2, <1>8, <2>1, StillCovered DEF Repaired, Work, Unpack
  <1>9. CASE WriteStamp(p)
    <2>1. UNCHANGED tree /\ \A f : ~Owes(p, f)
      BY <1>9 DEF WriteStamp, Owes
    <2>2. CASE p \in met
      BY <1>2, <1>9, <2>1, <2>2, StillCovered DEF Repaired, Work, Unpack, WriteStamp
    <2>3. CASE p \notin met
      BY <1>9, <2>1, <2>3 DEF Relied, Repaired, Covered, WriteStamp
    <2> QED
      BY <2>2, <2>3
  <1> QED
    BY <1>3, <1>4, <1>5, <1>6, <1>7, <1>8, <1>9 DEF Work, Unpack, Download

\* A build that has the cache for itself may rely on its own last step.
LEMMA WorkRelies ==
  ASSUME CacheInv, NEW p \in Profiles \ met, Work(p)
  PROVE  Relied(p)'
  <1> USE DEF TypeOK, Goto, Step, Ends, NoFault, Fault, FillPcs
  <1>1. TypeOK /\ Relied(p) /\ Filling(p)
    BY WorkIsOwn DEF CacheInv
  <1>2. \A q \in Profiles \ {p} : pc'[q] = pc[q] /\ ~Filling(q)
    BY WorkIsOwn DEF CacheInv, Meetings, Alone
  <1>3. CASE RemoveEntry(p)
    BY <1>1, <1>3 DEF RemoveEntry, Relied, Filling
  <1>4. CASE RemoveEnd(p)
    BY <1>1, <1>4 DEF RemoveEnd, Relied, Filling, Empty, cacheVars
  <1>5. CASE Download(p)
    <2>1. CASE SkipDownload(p) \/ NoDownload(p)
      BY <1>1, <2>1 DEF SkipDownload, NoDownload, Relied, Filling, cacheVars
    <2>2. CASE StartDownload(p)
      BY <1>1, <2>2 DEF StartDownload, Relied, Filling
    <2>3. CASE EndDownload(p)
      BY <1>1, <2>3 DEF EndDownload, Relied, Filling
    <2>4. CASE verify_tarball(p)
      BY <1>1, <2>4 DEF verify_tarball, Relied, Filling, cacheVars
    <2> QED
      BY <1>5, <2>1, <2>2, <2>3, <2>4 DEF Download
  <1>6. CASE UnpackFile(p)
    BY <1>1, <1>6 DEF UnpackFile, Relied, Filling
  <1>7. CASE UnpackEnd(p)
    BY <1>1, <1>7 DEF UnpackEnd, Relied, Filling, cacheVars
  <1>8. CASE FindRoot(p)
    BY <1>1, <1>8, FilesAssumption DEF FindRoot, Relied, Filling
  <1>9. CASE WriteStamp(p)
    <2>1. pc'[p] = "using" /\ stamp' = "path" /\ tree' = Files
      BY <1>1, <1>9 DEF WriteStamp, Relied
    <2>2. \A q \in Profiles : ~Filling(q)'
      BY <1>2, <2>1 DEF Filling
    <2> QED
      BY <2>1, <2>2, FilesAssumption DEF Relied, Filling, Reusable
  <1> QED
    BY <1>3, <1>4, <1>5, <1>6, <1>7, <1>8, <1>9 DEF Work, Unpack

\* So the work of a build preserves the invariant.
LEMMA WorkStep ==
  ASSUME CacheInv, NEW p \in Profiles, Work(p)
  PROVE  CacheInv'
  <1>1. TypeOK'
    BY TypeStep DEF CacheInv, Work, Clear
  <1>2. Meetings' /\ Repaired' /\ UNCHANGED met
    BY WorkMeetings, WorkRepaired, WorkIsOwn DEF CacheInv
  <1>3. \A q \in Profiles \ met : Relied(q)'
    BY WorkRelies, OthersRely
  <1> QED
    BY <1>1, <1>2, <1>3 DEF CacheInv

\* A look at the stamp: builds at work meet, and a stamp that is found stands by a tree
\* nobody is at work on, or its reader has met whoever is.
LEMMA LookStep ==
  ASSUME CacheInv, NEW p \in Profiles, Reuse(p) \/ StartOver(p)
  PROVE  CacheInv'
  <1> USE DEF Goto, Filling, FillPcs
  <1> DEFINE to == IF Reusable THEN "using" ELSE "removing"
  <1>1. Look(p, to) /\ TypeOK
    BY DEF Reuse, StartOver, CacheInv
  <1>2. /\ pc[p] = "check" /\ pc' = [pc EXCEPT ![p] = to] /\ met \subseteq met'
        /\ UNCHANGED <<submodule, left, trouble, tarball, tree, stamp, spoiled>>
    BY <1>1 DEF Look, NoFault, cacheVars
  <1>3. TypeOK'
    BY TypeStep DEF Clear, CacheInv
  <1>4. Alone' /\ Fresh'
    BY <1>1, <1>2 DEF CacheInv, Meetings, Alone, Fresh, Look, OtherFilling, TypeOK
  <1>5. CASE Reusable
    <2>1. \A q \in Profiles : Filling(q)' <=> Filling(q)
      BY <1>1, <1>2, <1>5 DEF TypeOK
    <2>2. \A f : \A r \in Profiles : Owes(r, f) => Owes(r, f)'
      BY <1>1, <1>2 DEF Owes, TypeOK
    <2>3. Repaired'
      BY <1>2, <2>1, <2>2 DEF CacheInv, Repaired, Covered
    <2>4. ASSUME p \notin met' PROVE Relied(p)'
      BY <1>1, <1>2, <1>5, <2>1, <2>4 DEF Relied, Look, OtherFilling, TypeOK, Reusable
    <2>5. ASSUME NEW q \in Profiles \ met', q # p PROVE Relied(q)'
      BY <1>1, <1>2, <2>1, <2>5 DEF CacheInv, Relied, TypeOK, Reusable
    <2> QED
      BY <1>3, <1>4, <2>3, <2>4, <2>5 DEF CacheInv, Meetings
  <1>6. CASE ~Reusable
    <2>1. \A f : Owes(p, f)'
      BY <1>1, <1>2, <1>6 DEF Owes, TypeOK
    <2>2. Repaired'
      BY <2>1 DEF Repaired, Covered
    <2>3. ASSUME p \notin met' PROVE Relied(p)'
      <3>1. \A q \in Profiles : ~Filling(q)
        BY <1>1, <1>2, <2>3 DEF Look, OtherFilling
      <3>2. \A q \in Profiles, f \in Files : ~Owes(q, f)
        BY <3>1 DEF Owes
      <3>3. spoiled = "no" => stamp # "path"
        BY <1>6, <3>2, FilesAssumption DEF CacheInv, Repaired, Covered, Reusable
      <3> QED
        BY <1>1, <1>2, <1>6, <3>3 DEF Relied, TypeOK
    <2>4. ASSUME NEW q \in Profiles \ met', q # p PROVE Relied(q)'
      <3>1. ~Filling(q) /\ Relied(q)
        BY <1>1, <1>2, <1>6, <2>4 DEF Look, CacheInv
      <3>2. ~(pc[q] = "using" /\ ~submodule)
        BY <1>6, <3>1 DEF Relied
      <3> QED
        BY <1>1, <1>2, <2>4, <3>1, <3>2 DEF Relied, TypeOK
    <2> QED
      BY <1>3, <1>4, <2>2, <2>3, <2>4 DEF CacheInv, Meetings
  <1> QED
    BY <1>5, <1>6

\* The checked out sources, the next build, a kill and a directory taken away leave the
\* cache as it is: what they change is who is at work in it.
LEMMA QuietStep ==
  ASSUME CacheInv, NEW p \in Profiles,
         UseSubmodule(p) \/ NextBuild(p) \/ Kill(p) \/ TakenAway(p)
  PROVE  CacheInv'
  <1> USE DEF Goto, Step, Ends, Filling, FillPcs, cacheVars
  <1>1. TypeOK /\ TypeOK'
    BY TypeStep DEF Clear, CacheInv
  <1>2. /\ pc'[p] \in {"using", "check", "panicked"} /\ pc' = [pc EXCEPT ![p] = pc'[p]]
        /\ UNCHANGED <<submodule, tarball, tree, stamp>>
        /\ met \ {p} \subseteq met' /\ met' \subseteq met \cup {p}
        /\ \A q \in Profiles \ {p} : left'[q] = left[q] /\ trouble'[q] = trouble[q]
    BY <1>1 DEF UseSubmodule, NextBuild, Kill, TakenAway, NoFault, TypeOK
  <1>3. pc'[p] = "check" => p \notin met'
    BY <1>1 DEF UseSubmodule, NextBuild, Kill, TakenAway, TypeOK
  <1>4. Alone' /\ Fresh'
    BY <1>1, <1>2, <1>3 DEF CacheInv, Meetings, Alone, Fresh, TypeOK
  <1>5. Repaired'
    <2>1. CASE ~Filling(p)
      <3>1. spoiled' = spoiled
        BY <2>1 DEF UseSubmodule, NextBuild, Kill, TakenAway
      <3>2. \A f : \A r \in Profiles : Owes(r, f) => Owes(r, f)'
        BY <1>1, <1>2, <2>1 DEF Owes, TypeOK
      <3>3. (\E r \in Profiles : Filling(r)') => \E r \in Profiles : Filling(r)
        BY <1>1, <1>2 DEF TypeOK
      <3> QED
        BY <1>2, <3>1, <3>2, <3>3 DEF CacheInv, Repaired, Covered
    <2>2. CASE Filling(p) /\ p \in met
      <3>1. spoiled' = "yes"
        BY <2>2 DEF UseSubmodule, NextBuild, Kill, TakenAway
      <3> QED
        BY <3>1 DEF Repaired
    <2>3. CASE Filling(p) /\ p \notin met
      <3>1. spoiled' = spoiled /\ Relied(p)
        BY <2>3 DEF UseSubmodule, NextBuild, Kill, TakenAway, CacheInv
      <3>2. \A r \in Profiles : ~Filling(r)'
        BY <1>1, <1>2, <2>3 DEF CacheInv, Meetings, Alone, TypeOK
      <3> QED
        BY <1>2, <2>3, <3>1, <3>2 DEF Repaired, Relied
    <2> QED
      BY <2>1, <2>2, <2>3
  <1>6. ASSUME p \notin met' PROVE Relied(p)'
    BY <1>1, <1>2, <1>6 DEF UseSubmodule, NextBuild, Kill, TakenAway, Relied, TypeOK
  <1>7. ASSUME NEW q \in Profiles \ met', q # p PROVE Relied(q)'
    <2>1. Relied(q) /\ pc'[q] = pc[q]
      BY <1>1, <1>2, <1>7 DEF CacheInv, TypeOK
    <2>2. \A r \in Profiles : Filling(r)' => Filling(r)
      BY <1>1, <1>2 DEF TypeOK
    <2>3. Filling(q) /\ spoiled' = "no" => spoiled = "no"
      BY DEF UseSubmodule, NextBuild, Kill, TakenAway
    <2> QED
      BY <1>2, <1>7, <2>1, <2>2, <2>3 DEF Relied, Reusable
  <1> QED
    BY <1>1, <1>4, <1>5, <1>6, <1>7 DEF CacheInv, Meetings

\* The invariant of the cache.
LEMMA CacheKept == Spec => []CacheInv
  <1>1. CacheInv /\ [Next]_vars => CacheInv'
    <2> SUFFICES ASSUME CacheInv, [Next]_vars PROVE CacheInv'
      OBVIOUS
    <2>1. CASE UNCHANGED vars
      BY <2>1 DEF vars, cacheVars, CacheInv, TypeOK, Meetings, Alone, Fresh, Repaired, Covered,
                  Owes, Relied, Filling, Reusable
    <2>2. CASE Next
      BY <2>2, WorkStep, LookStep, QuietStep DEF Next, Clear, Work
    <2> QED
      BY <2>1, <2>2
  <1> QED
    BY <1>1, CacheInit, PTL DEF Spec

\* The types of the cache and of the builds, however many there are and wherever they
\* are killed.
THEOREM CacheTypes == Spec => []TypeOK
  <1>1. CacheInv => TypeOK
    BY DEF CacheInv
  <1> QED
    BY <1>1, CacheKept, PTL

\* CMake is run on a complete tree by every build that met no other, whatever builds
\* were killed, failed or met before it, except while what a build left that met another
\* and did not come to its end has not been renewed ...
THEOREM CacheCorrect == Spec => []UsedTreeIsComplete
  <1>1. CacheInv => UsedTreeIsComplete
    <2> SUFFICES ASSUME CacheInv, spoiled = "no", ~submodule,
                        NEW p \in Profiles \ met, pc[p] = "using"
                 PROVE  tree = Files
      BY DEF UsedTreeIsComplete
    <2>1. Reusable /\ \A q \in Profiles : ~Filling(q)
      BY DEF CacheInv, Relied
    <2>2. \A q \in Profiles, f \in Files : ~Owes(q, f)
      BY <2>1 DEF Owes, Filling, FillPcs
    <2> QED
      BY <2>1, <2>2 DEF CacheInv, TypeOK, Repaired, Covered, Reusable
  <1> QED
    BY <1>1, CacheKept, PTL

\* ... and a build that met no other panics only for a fault of its own, without any
\* exception for what stands in the cache.
THEOREM PanicsHaveCause == Spec => []PanicHasCause
  <1>1. CacheInv => PanicHasCause
    BY DEF CacheInv, Relied, PanicHasCause
  <1> QED
    BY <1>1, CacheKept, PTL

\* With the builds of one profile only, which Cargo keeps apart, there is no
\* condition: the used tree is complete, whatever was killed or failed before.
THEOREM OneProfile ==
  ASSUME \A p, q \in Profiles : p = q
  PROVE  Spec => [](\A p \in Profiles : pc[p] = "using" /\ ~submodule => tree = Files)
  <1> DEFINE I == TypeOK /\ met = {} /\ spoiled = "no"
  <1>1. Init => I
    BY BoundsAssumption DEF Init, TypeOK, Pcs
  <1>2. I /\ [Next]_vars => I'
    <2> SUFFICES ASSUME I, [Next]_vars PROVE I'
      OBVIOUS
    <2>1. CASE UNCHANGED vars
      BY <2>1 DEF vars, cacheVars, TypeOK
    <2>2. ASSUME NEW p \in Profiles,
                 \/ Clear(p) \/ TakenAway(p) \/ Download(p) \/ Unpack(p)
                 \/ NextBuild(p) \/ Kill(p)
          PROVE  I'
      <3>1. TypeOK'
        BY <2>2, TypeStep
      <3>2. ~OtherFilling(p) /\ Profiles \ {p} = {}
        BY DEF OtherFilling
      <3>3. met' = {} /\ spoiled' = "no"
        BY <2>2, <3>2 DEF TakenAway, Clear, UseSubmodule, Reuse, StartOver, Look,
                RemoveEntry, RemoveEnd, Download, SkipDownload, StartDownload, EndDownload,
                NoDownload, verify_tarball, Unpack, UnpackFile, UnpackEnd, FindRoot,
                WriteStamp, NextBuild, Kill, Step, Ends
      <3> QED
        BY <3>1, <3>3
    <2> QED
      BY <2>1, <2>2 DEF Next
  <1>3. I /\ UsedTreeIsComplete => \A p \in Profiles : pc[p] = "using" /\ ~submodule => tree = Files
    BY DEF UsedTreeIsComplete
  <1> QED
    BY <1>1, <1>2, <1>3, CacheCorrect, PTL DEF Spec
=============================================================================
