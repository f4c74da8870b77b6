---------------------------- MODULE TdBuild_proofs ----------------------------
(***************************************************************************)
(* Theorems about TdBuild, for any environments, machines and profiles.    *)
(***************************************************************************)
EXTENDS TdBuild, TLAPS

\* Values of the variables.
UserType == (Roots \cup {Unset}) \X (Roots \cup {Unset}) \X {"", "own"}
TreeType == [config : DefinitionsType, lib : [Archives -> SUBSET DefinitionsType],
             users : SUBSET UserType, last : SUBSET (Profiles \X Envs)]
Written == [panic : {FALSE}, items : SUBSET [lib : Libs, how : Hows, at : Places],
            search : SUBSET Places]
ScriptType == [env : SUBSET Envs, line : Written]

Typed ==
  /\ disk \subseteq Files /\ tools \in ToolchainType /\ target \in Targets
  /\ tree \in [Segments -> TreeType]
  /\ pc \in [Profiles -> Stages] /\ left \in [Profiles -> SUBSET Archives]
  /\ env \in [Profiles -> Envs \cup {{}}]
  /\ line \in [Profiles -> Written] /\ script \in [Profiles -> ScriptType]
  /\ builds \in 0..MaxBuilds

\* The environments of the builds of this target directory.
Ours == {e \in Envs : e.target = target}
Environed == \A p \in Profiles : IF pc[p] = "idle" THEN env[p] = {} ELSE env[p] \in Ours

Tree(e) == tree[td_cmake_cache_segment(e)]

\* A tree configured for one user only is configured, and its libraries are compiled,
\* as each environment of that user asks; with a cache id that holds of zlib at least.
Fresh == \A s \in Segments :
  tree[s].users = {} => tree[s].config = Blank /\ \A a \in Archives : tree[s].lib[a] = {}
Configured == \A e \in Ours :
  Tree(e).users = {User(e)} =>
    /\ Tree(e).config.zlib_library = Definitions(e, disk).zlib_library
    /\ e.cache_id = "" =>
         /\ Tree(e).config = Definitions(e, disk)
         /\ \A a \in Archives : Tree(e).lib[a] \subseteq {Definitions(e, disk)}

\* The tree of e was configured for e, all libraries are there, and so is the libz.a
\* that CMake was told of.
Built(e) ==
  /\ User(e) \in Tree(e).users
  /\ \A a \in Archives : Tree(e).lib[a] # {}
  /\ LET z == Definitions(e, disk).zlib_library
     IN Tree(e).users = {User(e)} /\ z # <<>> => Has(disk, z[1], z[2], "z")

InstallingAt(p) ==
  /\ pc[p] = "install" =>
       /\ User(env[p]) \in Tree(env[p]).users
       /\ \A a \in Archives \ left[p] : Tree(env[p]).lib[a] # {}
  /\ pc[p] \in {"emit", "link"} => Built(env[p])
Installing == \A p \in Profiles : InstallingAt(p)

\* What is linked, and what Cargo would link again, is what the environment asks for.
Lined == \A p \in Profiles : pc[p] = "link" => line[p] = link(env[p], disk, tools)
Recorded == \A p \in Profiles : \A e \in script[p].env :
  e \in Ours /\ script[p].line = link(e, disk, tools) /\ Built(e)

\* What a tree holds of its own configuration: everything e tells CMake, all libraries
\* compiled as it says, and the libz.a it names.
Told(e) == \A k \in DOMAIN Definitions(e, disk) :
  Tree(e).config[k] = Definitions(e, disk)[k] \/ Definitions(e, disk)[k] = Blank[k]
Compiled(e, libs) == \A a \in libs : Tree(e).lib[a] = {Tree(e).config}
Whole(e) ==
  /\ Compiled(e, Archives)
  /\ LET z == Tree(e).config.zlib_library IN z # <<>> => Has(disk, z[1], z[2], "z")

\* A tree that p configured last, for e, is told what e tells, and is whole once p's
\* script has run to its end in e: until then p does not skip it.
OwnedAt(p, e) == Tree(e).last = {<<p, e>>} =>
  /\ Told(e)
  /\ script[p].env = {e} => Whole(e)
  /\ pc[p] = "install" /\ env[p] = e => Compiled(e, Archives \ left[p])
  /\ pc[p] \in {"emit", "link"} /\ env[p] = e => Whole(e)
Owned == \A p \in Profiles, e \in Ours : OwnedAt(p, e)
Rerun == \A p \in Profiles :
  pc[p] \in {"configure", "install", "emit"} => script[p].env # {env[p]}

BuildInv ==
  /\ Typed /\ Environed /\ Fresh /\ Configured /\ Installing /\ Lined /\ Recorded
  /\ Owned /\ Rerun

-----------------------------------------------------------------------------
(* What the link lines hold, for every environment and machine.            *)

ItemType == [lib : Libs, how : Hows, at : Places]

\* The prefixes that are searched: one or two, and which.
LEMMA RootsAre ==
  ASSUME NEW e \in EnvType
  PROVE  /\ DOMAIN musl_prefix_roots(e) \subseteq {1, 2}
         /\ \A i \in DOMAIN musl_prefix_roots(e) : musl_prefix_roots(e)[i] \in Roots
         /\ e.openssl # Unset =>
              /\ 1 \in DOMAIN musl_prefix_roots(e) /\ musl_prefix_roots(e)[1] = e.openssl
              /\ e.zlib \in {Unset, e.openssl} <=> 2 \notin DOMAIN musl_prefix_roots(e)
              /\ 2 \in DOMAIN musl_prefix_roots(e) => musl_prefix_roots(e)[2] = e.zlib
  <1>0. e.openssl \in Roots \cup {Unset} /\ e.zlib \in Roots \cup {Unset} /\ MuslLocal \in Roots
    BY RootsAssumption DEF EnvType
  <1>1. CASE e.openssl = Unset
    <2>1. musl_prefix_roots(e) = <<MuslLocal>> \/ (musl_prefix_roots(e) = <<e.zlib>> /\ e.zlib # Unset)
      BY <1>1 DEF musl_prefix_roots
    <2> QED
      BY <1>0, <1>1, <2>1
  <1>2. CASE e.openssl # Unset /\ e.zlib \in {Unset, e.openssl}
    <2>1. musl_prefix_roots(e) = <<e.openssl>>
      BY <1>2 DEF musl_prefix_roots
    <2> QED
      BY <1>0, <1>2, <2>1
  <1>3. CASE e.openssl # Unset /\ e.zlib \notin {Unset, e.openssl}
    <2>1. musl_prefix_roots(e) = <<e.openssl, e.zlib>>
      BY <1>3 DEF musl_prefix_roots
    <2> QED
      BY <1>0, <1>3, <2>1
  <1> QED
    BY <1>1, <1>2, <1>3

\* Where a library is found is a place, and one that holds it.
LEMMA FoundIsPlace ==
  ASSUME NEW e \in EnvType, NEW d \in SUBSET Files, NEW stem \in Stems
  PROVE  /\ musl_find_static_archive(e, d, stem) \in Places
         /\ LET roots == musl_prefix_roots(e)
                Holds(r) == \E s \in Subs : Has(d, r, s, stem)
            IN /\ \A i \in DOMAIN roots : roots[i] \in Roots
               /\ \A i \in DOMAIN roots :
                    Holds(roots[i]) /\ (\A j \in DOMAIN roots : Holds(roots[j]) => i <= j) =>
                      musl_find_static_archive(e, d, stem)
                        = At(roots[i], IF Has(d, roots[i], "lib", stem) THEN "lib" ELSE "lib64")
               /\ (\A i \in DOMAIN roots : ~Holds(roots[i])) =>
                    musl_find_static_archive(e, d, stem) = <<>>
  <1> DEFINE roots == musl_prefix_roots(e)
             Holds(r) == \E s \in Subs : Has(d, r, s, stem)
             found == {i \in DOMAIN roots : Holds(roots[i])}
             place(i) == At(roots[i], IF Has(d, roots[i], "lib", stem) THEN "lib" ELSE "lib64")
             first == CHOOSE i \in found : \A j \in found : i <= j
  <1>1. /\ DOMAIN roots \subseteq {1, 2} /\ \A i \in DOMAIN roots : roots[i] \in Roots
    BY RootsAre
  <1>2. found \subseteq {1, 2}
    BY <1>1
  <1>3. musl_find_static_archive(e, d, stem) = IF found = {} THEN <<>> ELSE place(first)
    BY DEF musl_find_static_archive
  <1>4. \A i \in DOMAIN roots : place(i) \in Places
    BY <1>1 DEF At, Places, Subs
  <1> HIDE DEF roots, Holds, place
  <1>5. ASSUME found # {} PROVE \E i \in found : \A j \in found : i <= j
    <2>1. CASE 1 \in found
      BY <2>1, <1>2
    <2>2. CASE 1 \notin found
      BY <2>2, <1>2, <1>5
    <2> QED
      BY <2>1, <2>2
  <1>6. found # {} => first \in found /\ \A j \in found : first <= j
    BY <1>5
  <1>7. ASSUME NEW i \in DOMAIN roots, Holds(roots[i]),
               \A j \in DOMAIN roots : Holds(roots[j]) => i <= j
        PROVE  musl_find_static_archive(e, d, stem) = place(i)
    <2>1. i \in found /\ first \in found
      BY <1>6, <1>7
    <2>2. i <= first /\ first <= i
      BY <2>1, <1>6, <1>7
    <2>3. i = first
      BY <2>1, <2>2, <1>2
    <2> QED
      BY <2>1, <2>3, <1>3
  <1>8. (\A i \in DOMAIN roots : ~Holds(roots[i])) => musl_find_static_archive(e, d, stem) = <<>>
    BY <1>3
  <1>9. musl_find_static_archive(e, d, stem) \in Places
    BY <1>3, <1>4, <1>6 DEF Places
  <1> QED
    BY <1>1, <1>7, <1>8, <1>9 DEF roots, Holds, place

\* Libraries, each kind in its way.
LEMMA ItemsAre ==
  ASSUME NEW L \in SUBSET Libs
  PROVE  /\ Dylibs(L) \subseteq ItemType /\ Statics(L) \subseteq ItemType
         /\ \A i \in Dylibs(L) : i.how = "dylib" /\ i.lib \in L
         /\ \A i \in Statics(L) : i.how = "static" /\ i.lib \in L
         /\ \A l \in L : Item(l, "dylib", <<>>) \in Dylibs(L) /\ Item(l, "dylib", <<>>).lib = l
  BY DEF Dylibs, Statics, Item, ItemType, Hows, Places

\* The directories that are searched are places.
LEMMA SearchIsPlaces ==
  ASSUME NEW e, NEW d \in SUBSET Files
  PROVE  musl_dependency_lib_dirs(e, d) \subseteq Places
  BY DEF musl_dependency_lib_dirs, At, Files, Places

\* What a written line is.
LEMMA LineIs ==
  ASSUME NEW items \in SUBSET ItemType, NEW search \in SUBSET Places
  PROVE  /\ Line(items, search) \in Written
         /\ Line(items, search).items = items /\ ~Line(items, search).panic
  BY DEF Line, Written, ItemType

\* The libraries of a line, and whether zstd was compiled in.
LibsOf(items) == {i.lib : i \in items}
CompiledIn(e, t) == t.nm /\ t.zstd /\ e.target # "windows-msvc"

\* OpenSSL, zlib, zstd and the system libraries.
LEMMA SystemItems ==
  ASSUME NEW e \in EnvType, NEW t \in ToolchainType
  PROVE  LET items == link_system_crypto_z(e, t)
         IN /\ items \subseteq ItemType /\ {"ssl", "crypto", "z"} \subseteq LibsOf(items)
            /\ CompiledIn(e, t) => "zstd" \in LibsOf(items)
            /\ \A i \in items : i.how \in {"dylib", "static"}
  <1> DEFINE base == {"ssl", "crypto", "z"} \cup Zstd(e, t)
             more == CASE e.target = "macos" -> {}
                       [] musl_static_tdlib(e) -> Statics({"pthread"})
                       [] e.target = "linux-gnu" -> Dylibs({"dl", "pthread"})
                       [] OTHER -> Dylibs({"pthread"})
  <1>1. base \subseteq Libs /\ (CompiledIn(e, t) => "zstd" \in base)
    BY DEF Zstd, tdlib_built_with_zstd, Libs, CompiledIn
  <1>2. /\ Dylibs(base) \subseteq ItemType /\ \A i \in Dylibs(base) : i.how = "dylib"
        /\ \A l \in base : l \in LibsOf(Dylibs(base))
    BY <1>1, ItemsAre DEF LibsOf
  <1>3. {"pthread"} \subseteq Libs /\ {"dl", "pthread"} \subseteq Libs
    BY DEF Libs
  <1>4. more = {} \/ more = Statics({"pthread"}) \/ more = Dylibs({"dl", "pthread"}) \/ more = Dylibs({"pthread"})
    BY DEF musl_static_tdlib, is_musl_target
  <1> HIDE DEF more
  <1>5. more \subseteq ItemType /\ \A i \in more : i.how \in {"dylib", "static"}
    BY <1>3, <1>4, ItemsAre
  <1>6. link_system_crypto_z(e, t) = Dylibs(base) \cup more
    BY DEF link_system_crypto_z, more
  <1>7. {"ssl", "crypto", "z"} \subseteq base
    OBVIOUS
  <1> HIDE DEF base
  <1> QED
    BY <1>1, <1>2, <1>5, <1>6, <1>7 DEF LibsOf

\* The line of a build that links TDLib as a shared library.
LEMMA SharedLine ==
  ASSUME NEW e \in EnvType, NEW d \in SUBSET Files, NEW t \in ToolchainType
  PROVE  LET l == link_local_shared(e, d, t)
         IN /\ l \in Written /\ ~l.panic
            /\ {"ssl", "crypto", "z"} \subseteq LibsOf(l.items)
            /\ CompiledIn(e, t) => "zstd" \in LibsOf(l.items)
            /\ e.target \in {"linux-gnu", "linux-musl"} => "stdc++" \in LibsOf(l.items)
            /\ e.target = "macos" => "c++" \in LibsOf(l.items)
            /\ \A i \in l.items : i.how # "archive"
  <1> DEFINE base == {"tdjson", "ssl", "crypto", "z"} \cup Zstd(e, t)
             more == CASE e.target = "macos" -> {Item("tdjson", "rpath", <<>>)} \cup Dylibs({"c++"})
                       [] e.target \in {"linux-gnu", "linux-musl"} ->
                            {Item("tdjson", "rpath", <<>>)} \cup Dylibs({"stdc++"})
                       [] e.target = "windows-msvc" /\ t.dll -> {Item("tdjson", "copy", <<>>)}
                       [] OTHER -> {}
             search == IF is_musl_target(e) THEN musl_dependency_lib_dirs(e, d) ELSE {}
  <1>1. base \subseteq Libs /\ (CompiledIn(e, t) => "zstd" \in base)
    BY DEF Zstd, tdlib_built_with_zstd, Libs, CompiledIn
  <1>2. /\ Dylibs(base) \subseteq ItemType /\ \A i \in Dylibs(base) : i.how = "dylib"
        /\ \A l \in base : l \in LibsOf(Dylibs(base))
    BY <1>1, ItemsAre DEF LibsOf
  <1>3. {"c++"} \subseteq Libs /\ {"stdc++"} \subseteq Libs
    BY DEF Libs
  <1>4. /\ Item("tdjson", "rpath", <<>>) \in ItemType /\ Item("tdjson", "rpath", <<>>).how = "rpath"
        /\ Item("tdjson", "copy", <<>>) \in ItemType /\ Item("tdjson", "copy", <<>>).how = "copy"
    BY DEF Item, ItemType, Libs, Hows, Places
  <1>5. /\ more \subseteq ItemType /\ \A i \in more : i.how # "archive"
        /\ e.target \in {"linux-gnu", "linux-musl"} => "stdc++" \in LibsOf(more)
        /\ e.target = "macos" => "c++" \in LibsOf(more)
    <2>1. CASE e.target = "macos"
      <3>1. more = {Item("tdjson", "rpath", <<>>)} \cup Dylibs({"c++"})
        BY <2>1
      <3>2. Dylibs({"c++"}) \subseteq ItemType /\ (\A i \in Dylibs({"c++"}) : i.how = "dylib")
            /\ "c++" \in LibsOf(Dylibs({"c++"}))
        BY <1>3, ItemsAre DEF LibsOf
      <3> HIDE DEF more
      <3> QED
        BY <1>4, <2>1, <3>1, <3>2 DEF LibsOf
    <2>2. CASE e.target \in {"linux-gnu", "linux-musl"}
      <3>1. more = {Item("tdjson", "rpath", <<>>)} \cup Dylibs({"stdc++"})
        BY <2>2
      <3>2. Dylibs({"stdc++"}) \subseteq ItemType /\ (\A i \in Dylibs({"stdc++"}) : i.how = "dylib")
            /\ "stdc++" \in LibsOf(Dylibs({"stdc++"}))
        BY <1>3, ItemsAre DEF LibsOf
      <3> HIDE DEF more
      <3> QED
        BY <1>4, <2>2, <3>1, <3>2 DEF LibsOf
    <2>3. CASE e.target \notin {"linux-gnu", "linux-musl", "macos"}
      <3>1. more \in {{}, {Item("tdjson", "copy", <<>>)}}
        BY <2>3
      <3> HIDE DEF more
      <3> QED
        BY <1>4, <2>3, <3>1
    <2> QED
      BY <2>1, <2>2, <2>3
  <1>6. search \subseteq Places
    BY SearchIsPlaces
  <1>7. link_local_shared(e, d, t) = Line(Dylibs(base) \cup more, search)
    BY DEF link_local_shared
  <1>8. {"ssl", "crypto", "z"} \subseteq base
    OBVIOUS
  <1> HIDE DEF base, more, search
  <1>9. Dylibs(base) \cup more \in SUBSET ItemType
    BY <1>2, <1>5
  <1>10. /\ Line(Dylibs(base) \cup more, search) \in Written
         /\ Line(Dylibs(base) \cup more, search).items = Dylibs(base) \cup more
         /\ ~Line(Dylibs(base) \cup more, search).panic
    BY <1>6, <1>9, LineIs
  <1>11. \A x \in LibsOf(Dylibs(base)) \cup LibsOf(more) : x \in LibsOf(Dylibs(base) \cup more)
    BY DEF LibsOf
  <1> QED
    BY <1>1, <1>2, <1>5, <1>7, <1>8, <1>10, <1>11

\* The libraries of TDLib.
LEMMA TdArchivesAre ==
  ASSUME NEW how \in Hows
  PROVE  /\ TdArchives(how) \subseteq ItemType
         /\ \A i \in TdArchives(how) : i.how = how /\ i.lib # "z"
  BY ArchivesAssumption DEF TdArchives, Item, ItemType, Libs, Places

\* The line of the static musl build.
LEMMA StaticLine ==
  ASSUME NEW e \in EnvType, NEW d \in SUBSET Files, NEW t \in ToolchainType,
         ~link_unix_static_gnu_with_stdcxx(e, d, t).panic
  PROVE  LET l == link_unix_static_gnu_with_stdcxx(e, d, t)
             Path(x) == musl_find_static_archive(e, d, x)
         IN /\ l \in Written
            /\ {"ssl", "crypto", "z"} \subseteq LibsOf(l.items)
            /\ "stdc++" \in LibsOf(l.items)
            /\ CompiledIn(e, t) =>
                 "zstd" \in LibsOf(l.items) \/ (e.ssl_static = "1" /\ Path("zstd") = <<>>)
            /\ e.ssl_static = "1" => \A i \in l.items : i.how \in {"static", "archive"}
            /\ \A i \in l.items : i.lib = "z" /\ i.how = "archive" => i.at = Path("z") /\ i.at # <<>>
  <1> DEFINE Path(x) == musl_find_static_archive(e, d, x)
             wanted == IF e.ssl_static = "1" THEN {"crypto", "ssl", "z"} ELSE {}
             optional == IF e.ssl_static = "1" THEN {x \in Zstd(e, t) : Path(x) # <<>>} ELSE {}
             runtime == IF e.ssl_static = "1" THEN Runtime(t)
                        ELSE {i \in Runtime(t) : i.lib # "pthread"}
             found == {Item(x, "archive", Path(x)) : x \in wanted \cup optional}
             system == IF e.ssl_static = "1" THEN {} ELSE link_system_crypto_z(e, t)
             items == TdArchives("archive") \cup found
                      \cup {Item("stdc++", "archive", <<>>)} \cup runtime
                      \cup Statics({"gcc", "gcc_eh"}) \cup system
             search == musl_dependency_lib_dirs(e, d)
             panics == ~t.stdcxx \/ "c" \notin t.self_contained \/ \E x \in wanted : Path(x) = <<>>
  <1>1. link_unix_static_gnu_with_stdcxx(e, d, t) = IF panics THEN Panic ELSE Line(items, search)
    BY DEF link_unix_static_gnu_with_stdcxx
  <1>2. ~panics
    BY <1>1 DEF Panic
  <1>3. link_unix_static_gnu_with_stdcxx(e, d, t) = Line(items, search)
    BY <1>1, <1>2
  <1>4. /\ TdArchives("archive") \subseteq ItemType
        /\ \A i \in TdArchives("archive") : i.how = "archive" /\ i.lib # "z"
    BY TdArchivesAre DEF Hows
  <1>5. \A x \in wanted \cup optional : x \in Stems /\ Path(x) \in Places /\ Path(x) # <<>>
    <2>1. wanted \subseteq Stems /\ optional \subseteq Stems
      BY DEF Zstd, Stems
    <2>2. \A x \in Stems : Path(x) \in Places
      BY FoundIsPlace
    <2>3. \A x \in wanted \cup optional : Path(x) # <<>>
      BY <1>2
    <2> QED
      BY <2>1, <2>2, <2>3
  <1>6. /\ found \subseteq ItemType
        /\ \A i \in found : i.how = "archive" /\ i.lib \in wanted \cup optional /\ i.at = Path(i.lib)
        /\ \A x \in wanted \cup optional : x \in LibsOf(found)
    <2> HIDE DEF Path, wanted, optional
    <2>1. \A x \in wanted \cup optional :
            /\ Item(x, "archive", Path(x)) \in ItemType /\ Item(x, "archive", Path(x)).how = "archive"
            /\ Item(x, "archive", Path(x)).lib = x /\ Item(x, "archive", Path(x)).at = Path(x)
      BY <1>5 DEF Item, ItemType, Stems, Libs, Hows
    <2> QED
      BY <2>1 DEF LibsOf
  <1>7. /\ Item("stdc++", "archive", <<>>) \in ItemType
        /\ Item("stdc++", "archive", <<>>).how = "archive" /\ Item("stdc++", "archive", <<>>).lib = "stdc++"
    BY DEF Item, ItemType, Libs, Hows, Places
  <1>8. runtime \subseteq ItemType /\ \A i \in runtime : i.how = "archive" /\ i.lib # "z"
    <2>1. Runtime(t) \subseteq ItemType /\ \A i \in Runtime(t) : i.how = "archive" /\ i.lib # "z"
      BY DEF Runtime, Item, ItemType, Libs, Hows, Places, ToolchainType
    <2> QED
      BY <2>1
  <1>9. /\ Statics({"gcc", "gcc_eh"}) \subseteq ItemType
        /\ \A i \in Statics({"gcc", "gcc_eh"}) : i.how = "static"
    <2>1. {"gcc", "gcc_eh"} \subseteq Libs
      BY DEF Libs
    <2> QED
      BY <2>1, ItemsAre
  <1>10. /\ system \subseteq ItemType /\ \A i \in system : i.how \in {"dylib", "static"}
         /\ e.ssl_static = "1" => system = {}
         /\ e.ssl_static # "1" => /\ {"ssl", "crypto", "z"} \subseteq LibsOf(system)
                                  /\ CompiledIn(e, t) => "zstd" \in LibsOf(system)
    BY SystemItems DEF LibsOf
  <1>11. /\ e.ssl_static = "1" => {"crypto", "ssl", "z"} \subseteq wanted
         /\ e.ssl_static = "1" /\ CompiledIn(e, t) => "zstd" \in optional \/ Path("zstd") = <<>>
    BY DEF Zstd, tdlib_built_with_zstd, CompiledIn
  <1>12. search \subseteq Places
    BY SearchIsPlaces
  <1> DEFINE l == Line(items, search)
  <1> HIDE DEF wanted, optional, runtime, found, system, search, Path
  <1>13. items \in SUBSET ItemType
    BY <1>4, <1>6, <1>7, <1>8, <1>9, <1>10
  <1>14. /\ LibsOf(found) \subseteq LibsOf(items) /\ LibsOf(system) \subseteq LibsOf(items)
         /\ "stdc++" \in LibsOf(items)
    BY <1>7 DEF LibsOf
  <1>15. \A i \in items : i.lib = "z" /\ i.how = "archive" => i.at = Path("z") /\ i.at # <<>>
    <2> SUFFICES ASSUME NEW i \in items, i.lib = "z", i.how = "archive"
                 PROVE  i.at = Path("z") /\ i.at # <<>>
      OBVIOUS
    <2>1. i \in found
      BY <1>4, <1>7, <1>8, <1>9, <1>10
    <2> QED
      BY <2>1, <1>5, <1>6
  <1>16. e.ssl_static = "1" => \A i \in items : i.how \in {"static", "archive"}
    BY <1>4, <1>6, <1>7, <1>8, <1>9, <1>10
  <1>17. {"ssl", "crypto", "z"} \subseteq LibsOf(items)
    <2>1. CASE e.ssl_static = "1"
      BY <2>1, <1>6, <1>11, <1>14
    <2>2. CASE e.ssl_static # "1"
      BY <2>2, <1>10, <1>14
    <2> QED
      BY <2>1, <2>2
  <1>18. CompiledIn(e, t) => "zstd" \in LibsOf(items) \/ (e.ssl_static = "1" /\ Path("zstd") = <<>>)
    <2>1. CASE e.ssl_static = "1"
      BY <2>1, <1>6, <1>11, <1>14
    <2>2. CASE e.ssl_static # "1"
      BY <2>2, <1>10, <1>14
    <2> QED
      BY <2>1, <2>2
  <1> HIDE DEF items
  <1>19. l \in Written /\ l.items = items
    BY <1>12, <1>13, LineIs
  <1> QED
    BY <1>3, <1>14, <1>15, <1>16, <1>17, <1>18, <1>19 DEF Path

\* The lines of the other static builds: TDLib's archives and the system libraries.
LEMMA PlainLine ==
  ASSUME NEW e \in EnvType, NEW t \in ToolchainType, NEW how \in {"archive", "force_load"},
         NEW cpp \in {"c++", "stdc++"}
  PROVE  LET l == Line(TdArchives(how) \cup link_system_crypto_z(e, t) \cup Dylibs({cpp}), {})
         IN /\ l \in Written /\ ~l.panic
            /\ {"ssl", "crypto", "z", cpp} \subseteq LibsOf(l.items)
            /\ CompiledIn(e, t) => "zstd" \in LibsOf(l.items)
            /\ \A i \in l.items : ~(i.lib = "z" /\ i.how = "archive")
  <1> DEFINE system == link_system_crypto_z(e, t)
             items == TdArchives(how) \cup system \cup Dylibs({cpp})
  <1>1. /\ TdArchives(how) \subseteq ItemType /\ \A i \in TdArchives(how) : i.lib # "z"
    BY TdArchivesAre DEF Hows
  <1>2. /\ system \subseteq ItemType /\ \A i \in system : i.how \in {"dylib", "static"}
        /\ {"ssl", "crypto", "z"} \subseteq LibsOf(system)
        /\ CompiledIn(e, t) => "zstd" \in LibsOf(system)
    BY SystemItems
  <1>3. /\ Dylibs({cpp}) \subseteq ItemType /\ \A i \in Dylibs({cpp}) : i.how = "dylib"
        /\ cpp \in LibsOf(Dylibs({cpp}))
    <2>1. {cpp} \subseteq Libs
      BY DEF Libs
    <2> QED
      BY <2>1, ItemsAre DEF LibsOf
  <1> HIDE DEF system
  <1>4. items \in SUBSET ItemType /\ \A i \in items : ~(i.lib = "z" /\ i.how = "archive")
    BY <1>1, <1>2, <1>3
  <1>5. LibsOf(system) \subseteq LibsOf(items) /\ LibsOf(Dylibs({cpp})) \subseteq LibsOf(items)
    BY DEF LibsOf
  <1> DEFINE l == Line(items, {})
  <1>6. l \in Written /\ l.items = items /\ ~l.panic
    BY <1>4, LineIs
  <1> HIDE DEF items
  <1> QED
    BY <1>2, <1>3, <1>4, <1>5, <1>6 DEF items, system

\* What every line that can be written holds.
LEMMA LinkHolds ==
  ASSUME NEW e \in EnvType, NEW d \in SUBSET Files, NEW t \in ToolchainType, ~link(e, d, t).panic
  PROVE  LET l == link(e, d, t)
             static == musl_static_tdlib(e) /\ ~use_shared(e) /\ e.ssl_static = "1"
             Path(x) == musl_find_static_archive(e, d, x)
         IN /\ l \in Written
            /\ {"ssl", "crypto", "z"} \subseteq LibsOf(l.items)
            /\ e.target \in {"linux-gnu", "linux-musl"} => "stdc++" \in LibsOf(l.items)
            /\ e.target = "macos" => "c++" \in LibsOf(l.items)
            /\ CompiledIn(e, t) => "zstd" \in LibsOf(l.items) \/ (static /\ Path("zstd") = <<>>)
            /\ static => \A i \in l.items : i.how \in {"static", "archive"}
            /\ \A i \in l.items : i.lib = "z" /\ i.how = "archive" =>
                 musl_static_tdlib(e) /\ i.at = Path("z") /\ i.at # <<>>
  <1>1. CASE use_shared(e)
    <2>1. link(e, d, t) = link_local_shared(e, d, t)
      BY <1>1 DEF link
    <2> QED
      BY <1>1, <2>1, SharedLine
  <1>2. CASE ~use_shared(e) /\ e.target = "macos"
    <2>1. ~musl_static_tdlib(e)
      BY <1>2 DEF musl_static_tdlib, is_musl_target
    <2>2. link(e, d, t)
            = Line(TdArchives("force_load") \cup link_system_crypto_z(e, t) \cup Dylibs({"c++"}), {})
      BY <1>2, <2>1 DEF link
    <2> QED
      BY <1>2, <2>1, <2>2, PlainLine
  <1>3. CASE ~use_shared(e) /\ musl_static_tdlib(e)
    <2>1. e.target = "linux-musl"
      BY <1>3 DEF musl_static_tdlib, is_musl_target
    <2>2. link(e, d, t) = link_unix_static_gnu_with_stdcxx(e, d, t)
      BY <1>3, <2>1 DEF link
    <2> QED
      BY <1>3, <2>1, <2>2, StaticLine
  <1>4. CASE ~use_shared(e) /\ e.target # "macos" /\ ~musl_static_tdlib(e)
    <2>1. link(e, d, t)
            = Line(TdArchives("archive") \cup link_system_crypto_z(e, t) \cup Dylibs({"stdc++"}), {})
      BY <1>4 DEF link
    <2> QED
      BY <1>4, <2>1, PlainLine
  <1> QED
    BY <1>1, <1>2, <1>3, <1>4

\* What CMake is told has its type, and is told of the fields of its cache.
LEMMA DefinitionsTyped ==
  ASSUME NEW e \in EnvType, NEW d \in SUBSET Files
  PROVE  /\ Definitions(e, d) \in DefinitionsType /\ Blank \in DefinitionsType
         /\ User(e) \in UserType /\ td_cmake_cache_segment(e) \in Segments
  <1>1. e.openssl # Unset => ZlibAt(e, d) \in Roots \X Subs
    BY DEF ZlibAt, zlib_prefix, At, Subs, EnvType
  <1>2. Definitions(e, d) \in DefinitionsType
    BY <1>1 DEF Definitions, DefinitionsType, EnvType
  <1>3. Blank \in DefinitionsType
    BY DEF Blank, DefinitionsType
  <1>4. User(e) \in UserType
    BY DEF User, UserType, EnvType
  <1>5. td_cmake_cache_segment(e) \in Segments
    BY DEF td_cmake_cache_segment, Segments, EnvType, musl_static_tdlib, is_musl_target
  <1> QED
    BY <1>2, <1>3, <1>4, <1>5

\* Environments of one user with one tree on one target tell CMake of the same zlib,
\* and, without a cache id, of the same everything.
LEMMA SameUser ==
  ASSUME NEW e \in EnvType, NEW f \in EnvType, NEW d,
         e.target = f.target, User(e) = User(f),
         td_cmake_cache_segment(e) = td_cmake_cache_segment(f)
  PROVE  /\ Definitions(e, d).zlib_library = Definitions(f, d).zlib_library
         /\ e.cache_id = "" => Definitions(e, d) = Definitions(f, d)
  <1>1. e.openssl = f.openssl /\ e.zlib = f.zlib /\ e.cache_id = f.cache_id
    BY DEF User
  <1>2. zlib_prefix(e) = zlib_prefix(f) /\ ZlibAt(e, d) = ZlibAt(f, d)
    BY <1>1 DEF zlib_prefix, ZlibAt
  <1>3. is_musl_target(e) <=> is_musl_target(f)
    BY DEF is_musl_target
  <1>4. Definitions(e, d).zlib_library = Definitions(f, d).zlib_library
    BY <1>1, <1>2, <1>3 DEF Definitions
  <1>5. e.cache_id = "" => (musl_static_tdlib(e) <=> musl_static_tdlib(f))
    BY <1>1, <1>3 DEF td_cmake_cache_segment, musl_static_tdlib, is_musl_target
  <1>6. e.cache_id = "" => Definitions(e, d) = Definitions(f, d)
    BY <1>1, <1>2, <1>3, <1>5 DEF Definitions
  <1> QED
    BY <1>4, <1>6

\* If the libz.a that CMake was told of is there, it is the one the link finds, unless
\* both prefixes hold one.
LEMMA ZlibFound ==
  ASSUME NEW e \in EnvType, NEW d \in SUBSET Files, musl_static_tdlib(e), e.openssl # Unset,
         musl_find_static_archive(e, d, "z") # <<>>,
         LET z == Definitions(e, d).zlib_library IN z # <<>> => Has(d, z[1], z[2], "z")
  PROVE  LET Holds(r) == \E s \in Subs : Has(d, r, s, "z")
         IN \/ musl_find_static_archive(e, d, "z") = Definitions(e, d).zlib_library
            \/ e.zlib \notin {Unset, e.openssl} /\ Holds(e.openssl) /\ Holds(e.zlib)
  <1> DEFINE Holds(r) == \E s \in Subs : Has(d, r, s, "z")
             roots == musl_prefix_roots(e)
             zlib == zlib_prefix(e)
             at == musl_find_static_archive(e, d, "z")
             place(r) == At(r, IF Has(d, r, "lib", "z") THEN "lib" ELSE "lib64")
  <1>1. Definitions(e, d).zlib_library = ZlibAt(e, d)
    BY DEF Definitions, musl_static_tdlib
  <1>2. Has(d, zlib, "lib", "z") \/ Has(d, zlib, "lib64", "z")
    <2>1. ZlibAt(e, d) # <<>> /\ ZlibAt(e, d)[1] = zlib /\ ZlibAt(e, d)[2] \in {"lib", "lib64"}
      BY DEF ZlibAt, At
    <2>2. Has(d, ZlibAt(e, d)[1], ZlibAt(e, d)[2], "z")
      BY <1>1, <2>1
    <2> QED
      BY <2>1, <2>2
  <1>3. ZlibAt(e, d) = place(zlib) /\ Holds(zlib)
    BY <1>2 DEF ZlibAt, Subs
  <1>4. /\ DOMAIN roots \subseteq {1, 2} /\ 1 \in DOMAIN roots /\ roots[1] = e.openssl
        /\ e.zlib \in {Unset, e.openssl} <=> 2 \notin DOMAIN roots
        /\ 2 \in DOMAIN roots => roots[2] = e.zlib
    BY RootsAre
  <1>5. \A i \in DOMAIN roots :
          Holds(roots[i]) /\ (\A j \in DOMAIN roots : Holds(roots[j]) => i <= j) => at = place(roots[i])
    BY FoundIsPlace DEF Stems
  <1>6. zlib = IF e.zlib \in {Unset, e.openssl} THEN e.openssl ELSE e.zlib
    BY DEF zlib_prefix
  <1> HIDE DEF Holds, roots, zlib, at, place
  <1>7. CASE e.zlib \in {Unset, e.openssl}
    <2>1. \A j \in DOMAIN roots : 1 <= j
      BY <1>4
    <2>2. at = place(zlib)
      BY <1>3, <1>4, <1>5, <1>6, <1>7, <2>1
    <2> QED
      BY <1>1, <1>3, <2>2 DEF at
  <1>8. CASE e.zlib \notin {Unset, e.openssl} /\ ~Holds(e.openssl)
    <2>1. \A j \in DOMAIN roots : Holds(roots[j]) => 2 <= j
      BY <1>4, <1>8
    <2>2. at = place(zlib)
      BY <1>3, <1>4, <1>5, <1>6, <1>8, <2>1
    <2> QED
      BY <1>1, <1>3, <2>2 DEF at
  <1>9. CASE e.zlib \notin {Unset, e.openssl} /\ Holds(e.openssl)
    BY <1>3, <1>6, <1>9 DEF Holds
  <1> QED
    BY <1>7, <1>8, <1>9

-----------------------------------------------------------------------------
(* The steps of a build.                                                   *)

\* A build ends.
LEMMA EndDoes ==
  ASSUME Typed, NEW p \in Profiles, End(p)
  PROVE  /\ pc' \in [Profiles -> Stages] /\ env' \in [Profiles -> Envs \cup {{}}]
         /\ line' \in [Profiles -> Written] /\ left' \in [Profiles -> SUBSET Archives]
         /\ pc'[p] = "idle" /\ env'[p] = {}
         /\ \A q \in Profiles : q # p =>
              pc'[q] = pc[q] /\ env'[q] = env[q] /\ left'[q] = left[q] /\ line'[q] = line[q]
  <1>1. NoLine \in Written /\ "idle" \in Stages
    BY LineIs DEF NoLine, Stages
  <1> QED
    BY <1>1 DEF Typed, End, Goto

\* What a configure step does to the tree of its build.
LEMMA ConfigureDoes ==
  ASSUME Typed, NEW p \in Profiles, Configure(p), env[p] \in Envs
  PROVE  LET s == td_cmake_cache_segment(env[p])
             told == Definitions(env[p], disk)
             config == [k \in DOMAIN told |->
                          IF told[k] = Blank[k] THEN tree[s].config[k] ELSE told[k]]
         IN /\ tree' \in [Segments -> TreeType]
            /\ tree'[s].config = config /\ tree'[s].lib = tree[s].lib
            /\ tree'[s].users = tree[s].users \cup {User(env[p])}
            /\ tree'[s].last = {<<p, env[p]>>}
            /\ \A r \in Segments : r # s => tree'[r] = tree[r]
  <1> DEFINE s == td_cmake_cache_segment(env[p])
             told == Definitions(env[p], disk)
             config == [k \in DOMAIN told |->
                          IF told[k] = Blank[k] THEN tree[s].config[k] ELSE told[k]]
  <1>1. told \in DefinitionsType /\ User(env[p]) \in UserType /\ s \in Segments
    BY EnvsAssumption, DefinitionsTyped DEF Typed
  <1>2. tree[s] \in TreeType
    BY <1>1 DEF Typed
  <1>3. tree[s].config \in DefinitionsType
    BY <1>2 DEF TreeType
  <1>4. config \in DefinitionsType
    <2> HIDE DEF s
    <2>1. DOMAIN told = {"static_crt", "crosscompiling", "openssl", "use_static_libs", "zlib_library"}
      BY DEF Definitions
    <2>2. config = [static_crt |-> config["static_crt"], crosscompiling |-> config["crosscompiling"],
                    openssl |-> config["openssl"], use_static_libs |-> config["use_static_libs"],
                    zlib_library |-> config["zlib_library"]]
      BY <2>1
    <2>3. \A k \in DOMAIN told : config[k] \in {told[k], tree[s].config[k]}
      OBVIOUS
    <2>4. /\ config["static_crt"] \in {"", "OFF"} /\ config["crosscompiling"] \in {"", "OFF"}
          /\ config["openssl"] \in Roots \cup {Unset} /\ config["use_static_libs"] \in {"", "ON"}
          /\ config["zlib_library"] \in {<<>>} \cup (Roots \X Subs)
      <3> HIDE DEF told, config
      <3> QED
        BY <1>1, <1>3, <2>1, <2>3 DEF DefinitionsType
    <2> HIDE DEF config
    <2> QED
      BY <2>2, <2>4 DEF DefinitionsType
  <1>5. tree' = [tree EXCEPT ![s].config = config, ![s].users = @ \cup {User(env[p])},
                             ![s].last = {<<p, env[p]>>}]
    BY DEF Configure
  <1> HIDE DEF s, told, config
  <1>6. tree'[s] = [tree[s] EXCEPT !.config = config, !.users = @ \cup {User(env[p])},
                                   !.last = {<<p, env[p]>>}]
    BY <1>1, <1>5 DEF Typed
  <1>7. \A r \in Segments : r # s => tree'[r] = tree[r]
    BY <1>5 DEF Typed
  <1>8. /\ tree'[s].config = config /\ tree'[s].lib = tree[s].lib
        /\ tree'[s].users = tree[s].users \cup {User(env[p])}
        /\ tree'[s].last = {<<p, env[p]>>}
        /\ tree'[s] \in TreeType
    <2> DEFINE users == tree[s].users \cup {User(env[p])}
               last == {<<p, env[p]>>}
    <2>1. last \in SUBSET (Profiles \X Envs)
      OBVIOUS
    <2>2. /\ tree[s].lib \in [Archives -> SUBSET DefinitionsType] /\ users \in SUBSET UserType
      BY <1>1, <1>2 DEF TreeType
    <2>3. tree'[s] = [config |-> config, lib |-> tree[s].lib, users |-> users, last |-> last]
      BY <1>2, <1>6 DEF TreeType
    <2> HIDE DEF users, last
    <2>4. tree'[s] \in TreeType
      BY <1>4, <2>1, <2>2, <2>3 DEF TreeType
    <2> QED
      BY <2>3, <2>4 DEF users, last
  <1>9. tree' \in [Segments -> TreeType]
    BY <1>5, <1>7, <1>8 DEF Typed
  <1> QED
    BY <1>7, <1>8, <1>9 DEF s, told, config

\* What installing one library does to the tree of its build.
LEMMA InstallDoes ==
  ASSUME Typed, NEW p \in Profiles, env[p] \in Envs, NEW a \in Archives,
         tree' = [tree EXCEPT ![td_cmake_cache_segment(env[p])].lib[a] = {TreeOf(p).config}]
  PROVE  LET s == td_cmake_cache_segment(env[p])
         IN /\ tree' \in [Segments -> TreeType]
            /\ tree'[s].config = tree[s].config /\ tree'[s].users = tree[s].users
            /\ tree'[s].last = tree[s].last
            /\ tree'[s].lib[a] = {tree[s].config}
            /\ \A b \in Archives : b # a => tree'[s].lib[b] = tree[s].lib[b]
            /\ \A r \in Segments : r # s => tree'[r] = tree[r]
  <1> DEFINE s == td_cmake_cache_segment(env[p])
  <1>1. s \in Segments
    BY EnvsAssumption, DefinitionsTyped DEF Typed
  <1>2. tree[s] \in TreeType /\ TreeOf(p) = tree[s]
    BY <1>1 DEF Typed, TreeOf
  <1>3. tree' = [tree EXCEPT ![s].lib[a] = {tree[s].config}]
    BY <1>2
  <1> HIDE DEF s
  <1>4. tree'[s] = [tree[s] EXCEPT !.lib[a] = {tree[s].config}]
    BY <1>1, <1>3 DEF Typed
  <1>5. \A r \in Segments : r # s => tree'[r] = tree[r]
    BY <1>3 DEF Typed
  <1>6. tree[s].lib \in [Archives -> SUBSET DefinitionsType] /\ tree[s].config \in DefinitionsType
    BY <1>2 DEF TreeType
  <1>7. tree'[s].lib = [tree[s].lib EXCEPT ![a] = {tree[s].config}]
    BY <1>2, <1>4 DEF TreeType
  <1>8. /\ tree'[s].config = tree[s].config /\ tree'[s].users = tree[s].users
        /\ tree'[s].last = tree[s].last
        /\ tree'[s].lib \in [Archives -> SUBSET DefinitionsType]
        /\ tree'[s].lib[a] = {tree[s].config}
        /\ \A b \in Archives : b # a => tree'[s].lib[b] = tree[s].lib[b]
    BY <1>2, <1>4, <1>6, <1>7 DEF TreeType
  <1>9. tree'[s] \in TreeType
    BY <1>2, <1>4, <1>8 DEF TreeType
  <1>10. tree' \in [Segments -> TreeType]
    BY <1>3, <1>5, <1>9 DEF Typed
  <1> QED
    BY <1>5, <1>8, <1>10 DEF s

\* Trees only gain users and libraries.
TreesGrow == \A s \in Segments :
  /\ tree[s].users \subseteq tree'[s].users
  /\ \A a \in Archives : tree[s].lib[a] # {} => tree'[s].lib[a] # {}

\* What is built stays built.
LEMMA BuiltKept ==
  ASSUME TreesGrow, UNCHANGED disk, NEW e \in EnvType, Built(e),
         td_cmake_cache_segment(e) \in Segments
  PROVE  Built(e)'
  <1>1. User(e) \in Tree(e)'.users
    BY DEF TreesGrow, Built, Tree
  <1>2. \A a \in Archives : Tree(e)'.lib[a] # {}
    BY DEF TreesGrow, Built, Tree
  <1>3. Tree(e)'.users = {User(e)} => Tree(e).users = {User(e)}
    BY DEF TreesGrow, Built, Tree
  <1> QED
    BY <1>1, <1>2, <1>3 DEF Built, Tree, User, Definitions

\* The steps of one build.
BuildStep(p) ==
  \/ Begin(p) \/ Configure(p) \/ Install(p) \/ CMakeFails(p) \/ Emit(p) \/ LinkStep(p) \/ Kill(p)

\* All of them leave the machine alone and let trees grow.
LEMMA TreesStep ==
  ASSUME Typed, Environed, NEW p \in Profiles, BuildStep(p)
  PROVE  /\ TreesGrow /\ UNCHANGED <<disk, tools, target>> /\ tree' \in [Segments -> TreeType]
  <1>1. CASE Begin(p) \/ CMakeFails(p) \/ Emit(p) \/ LinkStep(p) \/ Kill(p)
    <2>1. UNCHANGED <<disk, tools, target, tree>>
      BY <1>1 DEF Begin, CMakeFails, Emit, LinkStep, Kill
    <2> QED
      BY <2>1 DEF TreesGrow, Typed
  <1>2. CASE Configure(p)
    <2>0. env[p] \in Envs /\ UNCHANGED <<disk, tools, target>>
      BY <1>2 DEF Environed, Ours, Configure
    <2>1. tree' \in [Segments -> TreeType]
      BY <1>2, <2>0, ConfigureDoes
    <2>2. TreesGrow
      BY <1>2, <2>0, ConfigureDoes DEF TreesGrow
    <2> QED
      BY <2>0, <2>1, <2>2
  <1>3. CASE Install(p)
    <2>0. env[p] \in Envs /\ UNCHANGED <<disk, tools, target>>
      BY <1>3 DEF Environed, Ours, Install
    <2>1. CASE UNCHANGED tree
      BY <2>0, <2>1 DEF TreesGrow, Typed
    <2>2. CASE \E a \in left[p] :
                 tree' = [tree EXCEPT ![td_cmake_cache_segment(env[p])].lib[a] = {TreeOf(p).config}]
      <3>1. PICK a \in left[p] :
              tree' = [tree EXCEPT ![td_cmake_cache_segment(env[p])].lib[a] = {TreeOf(p).config}]
        BY <2>2
      <3>2. a \in Archives
        BY DEF Typed
      <3>3. tree' \in [Segments -> TreeType]
        BY <2>0, <3>1, <3>2, InstallDoes
      <3> DEFINE g == td_cmake_cache_segment(env[p])
      <3>4. /\ tree'[g].users = tree[g].users
            /\ tree'[g].lib[a] = {tree[g].config}
            /\ \A b \in Archives : b # a => tree'[g].lib[b] = tree[g].lib[b]
            /\ \A r \in Segments : r # g => tree'[r] = tree[r]
        BY <2>0, <3>1, <3>2, InstallDoes
      <3> HIDE DEF g
      <3>5. \A b \in Archives : tree[g].lib[b] # {} => tree'[g].lib[b] # {}
        BY <3>4
      <3>6. TreesGrow
        BY <3>4, <3>5 DEF TreesGrow
      <3> QED
        BY <2>0, <3>3, <3>6
    <2> QED
      BY <1>3, <2>1, <2>2 DEF Install
  <1> QED
    BY <1>1, <1>2, <1>3 DEF BuildStep

\* A step of a build leaves the others alone.
LEMMA OthersKept ==
  ASSUME Typed, NEW p \in Profiles, BuildStep(p)
  PROVE  \A q \in Profiles : q # p =>
           /\ pc'[q] = pc[q] /\ env'[q] = env[q] /\ left'[q] = left[q]
           /\ line'[q] = line[q] /\ script'[q] = script[q]
  <1>1. CASE Begin(p)
    BY <1>1 DEF Typed, Begin, Goto
  <1>2. CASE Configure(p) \/ Install(p)
    BY <1>2 DEF Typed, Configure, Install, Goto
  <1>3. CASE CMakeFails(p) \/ LinkStep(p) \/ Kill(p)
    BY <1>3, EndDoes DEF CMakeFails, LinkStep, Kill
  <1>4. CASE Emit(p)
    <2>1. CASE End(p) /\ UNCHANGED script
      BY <2>1, EndDoes
    <2>2. CASE ~(End(p) /\ UNCHANGED script)
      BY <1>4, <2>2 DEF Typed, Emit, Goto
    <2> QED
      BY <2>1, <2>2
  <1> QED
    BY <1>1, <1>2, <1>3, <1>4 DEF BuildStep

\* What Emit writes when it does not fail.
LEMMA EmitDoes ==
  ASSUME Typed, Environed, NEW p \in Profiles, Emit(p)
  PROVE  \/ End(p) /\ UNCHANGED script
         \/ LET l == link(env[p], disk, tools)
            IN /\ l \in Written /\ env[p] \in Ours
               /\ line' = [line EXCEPT ![p] = l]
               /\ script' = [script EXCEPT ![p] = [env |-> {env[p]}, line |-> l]]
               /\ pc' = [pc EXCEPT ![p] = "link"] /\ UNCHANGED <<env, left>>
  <1> DEFINE l == link(env[p], disk, tools)
  <1>1. env[p] \in Ours
    BY DEF Environed, Emit
  <1>2. CASE l.panic
    BY <1>2 DEF Emit
  <1>3. CASE ~l.panic
    <2>1. l \in Written
      BY <1>1, <1>3, EnvsAssumption, LinkHolds DEF Typed, Ours
    <2> HIDE DEF l
    <2> QED
      BY <1>1, <2>1 DEF Emit, Goto, l
  <1> QED
    BY <1>2, <1>3

\* Every step of a build keeps the types.
LEMMA TypedStep ==
  ASSUME Typed, Environed, NEW p \in Profiles, BuildStep(p)
  PROVE  Typed'
  <1>0. /\ UNCHANGED <<disk, tools, target>> /\ tree' \in [Segments -> TreeType]
    BY TreesStep
  <1>a. /\ disk' \subseteq Files /\ tools' \in ToolchainType /\ target' \in Targets
    BY <1>0 DEF Typed
  <1>1. CASE Begin(p)
    <2>1. PICK e \in Ours :
            /\ env' = [env EXCEPT ![p] = e]
            /\ pc' = [pc EXCEPT ![p] = IF script[p].env = {e} THEN "link" ELSE "configure"]
            /\ line' = [line EXCEPT ![p] = IF script[p].env = {e} THEN script[p].line ELSE NoLine]
      BY <1>1 DEF Begin, Goto, Ours
    <2>2. NoLine \in Written
      BY LineIs DEF NoLine
    <2>3. script[p].line \in Written
      BY DEF Typed, ScriptType
    <2>4. line' \in [Profiles -> Written]
      BY <2>1, <2>2, <2>3 DEF Typed
    <2>5. pc' \in [Profiles -> Stages] /\ env' \in [Profiles -> Envs \cup {{}}]
      BY <2>1 DEF Typed, Stages, Ours
    <2>6. builds' \in 0..MaxBuilds /\ UNCHANGED <<left, script>>
      BY <1>1, BoundAssumption DEF Begin, Typed
    <2> QED
      BY <1>0, <1>a, <2>4, <2>5, <2>6 DEF Typed
  <1>2. CASE Configure(p) \/ Install(p)
    <2>1. pc' \in [Profiles -> Stages] /\ left' \in [Profiles -> SUBSET Archives]
      BY <1>2 DEF Configure, Install, Goto, Typed, Stages
    <2>2. UNCHANGED <<env, line, script, builds>>
      BY <1>2 DEF Configure, Install
    <2> QED
      BY <1>0, <1>a, <2>1, <2>2 DEF Typed
  <1>3. CASE CMakeFails(p) \/ LinkStep(p) \/ Kill(p)
    <2>1. End(p) /\ UNCHANGED <<script, builds>>
      BY <1>3 DEF CMakeFails, LinkStep, Kill
    <2> QED
      BY <1>0, <1>a, <2>1, EndDoes DEF Typed
  <1>4. CASE Emit(p)
    <2>0. UNCHANGED builds
      BY <1>4 DEF Emit
    <2>1. CASE End(p) /\ UNCHANGED script
      BY <1>0, <1>a, <2>0, <2>1, EndDoes DEF Typed
    <2>2. CASE ~(End(p) /\ UNCHANGED script)
      <3> DEFINE l == link(env[p], disk, tools)
      <3>1. /\ l \in Written /\ env[p] \in Ours
            /\ line' = [line EXCEPT ![p] = l]
            /\ script' = [script EXCEPT ![p] = [env |-> {env[p]}, line |-> l]]
            /\ pc' = [pc EXCEPT ![p] = "link"] /\ UNCHANGED <<env, left>>
        BY <1>4, <2>2, EmitDoes
      <3> HIDE DEF l
      <3>2. [env |-> {env[p]}, line |-> l] \in ScriptType
        BY <3>1 DEF ScriptType, Ours
      <3>3. script' \in [Profiles -> ScriptType] /\ line' \in [Profiles -> Written]
        BY <3>1, <3>2 DEF Typed
      <3>4. pc' \in [Profiles -> Stages] /\ UNCHANGED <<env, left>>
        BY <3>1 DEF Typed, Stages
      <3> QED
        BY <1>0, <1>a, <2>0, <3>3, <3>4 DEF Typed
    <2> QED
      BY <2>1, <2>2
  <1> QED
    BY <1>1, <1>2, <1>3, <1>4 DEF BuildStep

\* A build has an environment of the target while it runs, and none otherwise.
LEMMA EnvironedStep ==
  ASSUME Typed, Environed, NEW p \in Profiles, BuildStep(p)
  PROVE  Environed'
  <1>0. UNCHANGED target /\ \A q \in Profiles : q # p => pc'[q] = pc[q] /\ env'[q] = env[q]
    BY TreesStep, OthersKept
  <1> SUFFICES IF pc'[p] = "idle" THEN env'[p] = {} ELSE env'[p] \in Ours
    BY <1>0 DEF Environed, Ours
  <1>1. CASE Begin(p)
    BY <1>1 DEF Begin, Goto, Typed, Ours
  <1>2. CASE Configure(p) \/ Install(p)
    BY <1>2 DEF Configure, Install, Goto, Typed, Environed
  <1>3. CASE CMakeFails(p) \/ LinkStep(p) \/ Kill(p)
    BY <1>3, EndDoes DEF CMakeFails, LinkStep, Kill
  <1>4. CASE Emit(p)
    <2>1. CASE End(p)
      BY <2>1, EndDoes
    <2>2. CASE ~End(p)
      BY <1>4, <2>2, EmitDoes DEF Typed
    <2> QED
      BY <2>1, <2>2
  <1> QED
    BY <1>1, <1>2, <1>3, <1>4 DEF BuildStep

\* The trees are as they were, or one is configured, or gets a library.
LEMMA TreeSteps ==
  ASSUME Typed, Environed, NEW p \in Profiles, BuildStep(p)
  PROVE  \/ UNCHANGED tree
         \/ Configure(p) /\ env[p] \in Ours
         \/ \E a \in Archives :
              /\ pc[p] = "install" /\ env[p] \in Ours
              /\ tree' = [tree EXCEPT ![td_cmake_cache_segment(env[p])].lib[a] = {TreeOf(p).config}]
  <1>1. CASE Begin(p) \/ CMakeFails(p) \/ Emit(p) \/ LinkStep(p) \/ Kill(p)
    BY <1>1 DEF Begin, CMakeFails, Emit, LinkStep, Kill
  <1>2. CASE Configure(p)
    BY <1>2 DEF Configure, Environed
  <1>3. CASE Install(p)
    <2>1. pc[p] = "install" /\ env[p] \in Ours
      BY <1>3 DEF Install, Environed
    <2>2. \A a \in left[p] : a \in Archives
      BY DEF Typed
    <2> QED
      BY <1>3, <2>1, <2>2 DEF Install
  <1> QED
    BY <1>1, <1>2, <1>3 DEF BuildStep

\* A tree without users stays untouched.
LEMMA FreshStep ==
  ASSUME Typed, Environed, Fresh, Installing, NEW p \in Profiles, BuildStep(p)
  PROVE  Fresh'
  <1>1. CASE UNCHANGED tree
    BY <1>1 DEF Fresh
  <1> DEFINE g == td_cmake_cache_segment(env[p])
  <1>2. CASE Configure(p) /\ env[p] \in Ours
    <2>1. /\ tree'[g].users = tree[g].users \cup {User(env[p])}
          /\ \A r \in Segments : r # g => tree'[r] = tree[r]
      BY <1>2, ConfigureDoes DEF Ours
    <2> HIDE DEF g
    <2> QED
      BY <2>1 DEF Fresh
  <1>3. ASSUME NEW a \in Archives, pc[p] = "install", env[p] \in Ours,
               tree' = [tree EXCEPT ![g].lib[a] = {TreeOf(p).config}]
        PROVE  Fresh'
    <2>1. tree'[g].users = tree[g].users /\ \A r \in Segments : r # g => tree'[r] = tree[r]
      BY <1>3, InstallDoes DEF Ours
    <2>2. tree[g].users # {}
      BY <1>3 DEF Installing, InstallingAt, Tree
    <2> HIDE DEF g
    <2> QED
      BY <2>1, <2>2 DEF Fresh
  <1> QED
    BY <1>1, <1>2, <1>3, TreeSteps

\* A tree with one user stays configured as its environments ask.
LEMMA ConfiguredStep ==
  ASSUME Typed, Environed, Fresh, Configured, NEW p \in Profiles, BuildStep(p)
  PROVE  Configured'
  <1>0. UNCHANGED <<disk, target>>
    BY TreesStep
  <1> DEFINE g == td_cmake_cache_segment(env[p])
             f == env[p]
  <1> SUFFICES ASSUME NEW e \in Ours, Tree(e)'.users = {User(e)}
               PROVE  /\ Tree(e)'.config.zlib_library = Definitions(e, disk).zlib_library
                      /\ e.cache_id = "" =>
                           /\ Tree(e)'.config = Definitions(e, disk)
                           /\ \A a \in Archives : Tree(e)'.lib[a] \subseteq {Definitions(e, disk)}
    BY <1>0 DEF Configured, Ours
  <1> DEFINE s == td_cmake_cache_segment(e)
             D == Definitions(e, disk)
  <1>a. e \in EnvType /\ e \in Envs /\ e.target = target /\ s \in Segments /\ D \in DefinitionsType
    BY EnvsAssumption, DefinitionsTyped DEF Ours, Typed
  <1>b. tree[s].users = {User(e)} =>
          /\ tree[s].config.zlib_library = D.zlib_library
          /\ e.cache_id = "" => tree[s].config = D /\ \A a \in Archives : tree[s].lib[a] \subseteq {D}
    BY DEF Configured, Tree
  <1>c. tree[s].users = {} => tree[s].config = Blank /\ \A a \in Archives : tree[s].lib[a] = {}
    BY <1>a DEF Fresh
  <1>d. ASSUME tree'[s] = tree[s] PROVE tree[s].users = {User(e)} /\ Tree(e)' = tree[s]
    BY <1>d DEF Tree
  <1>e. tree'[s].users = {User(e)} /\ Tree(e)' = tree'[s]
    BY DEF Tree
  <1>1. CASE tree'[s] = tree[s]
    BY <1>1, <1>b, <1>d
  <1>2. CASE Configure(p) /\ env[p] \in Ours /\ s = g
    <2> DEFINE told == Definitions(f, disk)
    <2>1. /\ tree'[s].config = [k \in DOMAIN told |->
                                  IF told[k] = Blank[k] THEN tree[s].config[k] ELSE told[k]]
          /\ tree'[s].lib = tree[s].lib
          /\ tree'[s].users = tree[s].users \cup {User(f)}
      BY <1>2, ConfigureDoes DEF Ours
    <2>2. f \in EnvType /\ f.target = target
      BY <1>2, EnvsAssumption DEF Ours
    <2>3. User(f) = User(e) /\ (tree[s].users = {} \/ tree[s].users = {User(e)})
      BY <1>e, <2>1
    <2>4. told.zlib_library = D.zlib_library /\ (e.cache_id = "" => told = D)
      <3>1. e.target = f.target /\ User(e) = User(f)
        BY <1>a, <2>2, <2>3
      <3>2. td_cmake_cache_segment(e) = td_cmake_cache_segment(f)
        BY <1>2
      <3> HIDE DEF f
      <3> QED
        BY <1>a, <2>2, <3>1, <3>2, SameUser
    <2>5. DOMAIN told = {"static_crt", "crosscompiling", "openssl", "use_static_libs", "zlib_library"}
          /\ DOMAIN D = DOMAIN told
      BY DEF Definitions
    <2>6. tree'[s].config.zlib_library = D.zlib_library
      <3> HIDE DEF told, D, s
      <3>1. tree'[s].config.zlib_library =
              IF told.zlib_library = Blank.zlib_library THEN tree[s].config.zlib_library
              ELSE told.zlib_library
        BY <2>1, <2>5
      <3> QED
        BY <1>b, <1>c, <2>3, <2>4, <3>1
    <2>7. ASSUME e.cache_id = "" PROVE tree'[s].config = D
      <3> HIDE DEF D, s
      <3>1. told = D /\ tree[s].config \in {Blank, D}
        BY <1>b, <1>c, <2>3, <2>4, <2>7
      <3> HIDE DEF told
      <3>2. \A k \in DOMAIN D : (IF told[k] = Blank[k] THEN tree[s].config[k] ELSE told[k]) = D[k]
        BY <3>1
      <3>3. tree'[s].config = [k \in DOMAIN D |-> D[k]]
        BY <2>1, <3>1, <3>2
      <3>4. D = [k \in DOMAIN D |-> D[k]]
        BY <2>5 DEF Definitions, D
      <3> QED
        BY <3>3, <3>4
    <2>8. e.cache_id = "" => \A a \in Archives : tree'[s].lib[a] \subseteq {D}
      BY <1>b, <1>c, <2>1, <2>3
    <2> HIDE DEF s, D, told
    <2> QED
      BY <1>e, <2>6, <2>7, <2>8 DEF D
  <1>3. ASSUME NEW a \in Archives, env[p] \in Ours, s = g,
               tree' = [tree EXCEPT ![g].lib[a] = {TreeOf(p).config}]
        PROVE  /\ Tree(e)'.config.zlib_library = D.zlib_library
               /\ e.cache_id = "" =>
                    Tree(e)'.config = D /\ \A b \in Archives : Tree(e)'.lib[b] \subseteq {D}
    <2>1. /\ tree'[s].config = tree[s].config /\ tree'[s].users = tree[s].users
          /\ tree'[s].lib[a] = {tree[s].config}
          /\ \A b \in Archives : b # a => tree'[s].lib[b] = tree[s].lib[b]
      <3>1. /\ tree'[g].config = tree[g].config /\ tree'[g].users = tree[g].users
            /\ tree'[g].lib[a] = {tree[g].config}
            /\ \A b \in Archives : b # a => tree'[g].lib[b] = tree[g].lib[b]
        BY <1>3, InstallDoes DEF Ours
      <3> HIDE DEF s, g
      <3> QED
        BY <1>3, <3>1
    <2> HIDE DEF s, g, D
    <2>2. e.cache_id = "" => \A b \in Archives : tree'[s].lib[b] \subseteq {D}
      BY <1>b, <1>e, <2>1
    <2> QED
      BY <1>b, <1>e, <2>1, <2>2
  <1>4. CASE s # g
    <2>1. CASE UNCHANGED tree
      BY <1>1, <2>1
    <2>2. CASE Configure(p) /\ env[p] \in Ours
      BY <1>a, <1>1, <1>4, <2>2, ConfigureDoes DEF Ours
    <2>3. ASSUME NEW a \in Archives, env[p] \in Ours,
                 tree' = [tree EXCEPT ![g].lib[a] = {TreeOf(p).config}]
          PROVE  tree'[s] = tree[s]
      BY <1>a, <1>4, <2>3, InstallDoes DEF Ours
    <2> QED
      BY <1>1, <2>1, <2>2, <2>3, TreeSteps
  <1>5. CASE s = g
    <2>1. CASE UNCHANGED tree
      BY <1>1, <2>1
    <2> QED
      BY <1>2, <1>3, <1>5, <2>1, TreeSteps
  <1> QED
    BY <1>4, <1>5

\* What Cargo has recorded stays true: no build undoes what another has built.
LEMMA RecordedStep ==
  ASSUME Typed, Environed, Installing, Recorded, NEW p \in Profiles, BuildStep(p)
  PROVE  Recorded'
  <1>0. TreesGrow /\ UNCHANGED <<disk, tools, target>>
    BY TreesStep
  <1>1. ASSUME NEW e \in Ours, Built(e) PROVE Built(e)'
    BY <1>0, <1>1, BuiltKept, EnvsAssumption, DefinitionsTyped DEF Ours, Typed
  <1>2. ASSUME UNCHANGED script PROVE Recorded'
    <2> SUFFICES ASSUME NEW q \in Profiles, NEW e \in script[q].env
                 PROVE  e \in Ours /\ script[q].line = link(e, disk, tools) /\ Built(e)'
      BY <1>0, <1>2 DEF Recorded, Ours
    <2> QED
      BY <1>1 DEF Recorded
  <1>3. CASE Begin(p) \/ Configure(p) \/ Install(p) \/ CMakeFails(p) \/ LinkStep(p) \/ Kill(p)
    BY <1>2, <1>3 DEF Begin, Configure, Install, CMakeFails, LinkStep, Kill
  <1>4. CASE Emit(p)
    <2>1. CASE End(p) /\ UNCHANGED script
      BY <1>2, <2>1
    <2>2. CASE ~(End(p) /\ UNCHANGED script)
      <3> DEFINE l == link(env[p], disk, tools)
      <3>1. /\ env[p] \in Ours
            /\ script' = [script EXCEPT ![p] = [env |-> {env[p]}, line |-> l]]
        BY <1>4, <2>2, EmitDoes
      <3>2. Built(env[p])
        BY <1>4 DEF Emit, Installing, InstallingAt
      <3> SUFFICES ASSUME NEW q \in Profiles, NEW e \in script'[q].env
                   PROVE  e \in Ours /\ script'[q].line = link(e, disk, tools) /\ Built(e)'
        BY <1>0 DEF Recorded, Ours
      <3>4. CASE q = p
        <4>1. e = env[p] /\ script'[q].line = l
          BY <3>1, <3>4 DEF Typed
        <4>2. Built(e)
          BY <3>2, <4>1
        <4> QED
          BY <1>1, <3>1, <4>1, <4>2
      <3>5. CASE q # p
        <4>1. script'[q] = script[q]
          BY <3>1, <3>5 DEF Typed
        <4> QED
          BY <1>1, <4>1 DEF Recorded
      <3> QED
        BY <3>4, <3>5
    <2> QED
      BY <2>1, <2>2
  <1> QED
    BY <1>3, <1>4 DEF BuildStep

\* What is linked was written for the environment of the build, now or at the last run.
LEMMA LinedStep ==
  ASSUME Typed, Environed, Lined, Recorded, NEW p \in Profiles, BuildStep(p)
  PROVE  Lined'
  <1>0. /\ UNCHANGED <<disk, tools>>
        /\ \A q \in Profiles : q # p => pc'[q] = pc[q] /\ env'[q] = env[q] /\ line'[q] = line[q]
    BY TreesStep, OthersKept
  <1> SUFFICES ASSUME pc'[p] = "link" PROVE line'[p] = link(env'[p], disk, tools)
    BY <1>0 DEF Lined
  <1>1. CASE Begin(p)
    <2>1. PICK e \in Envs :
            /\ env' = [env EXCEPT ![p] = e]
            /\ pc' = [pc EXCEPT ![p] = IF script[p].env = {e} THEN "link" ELSE "configure"]
            /\ line' = [line EXCEPT ![p] = IF script[p].env = {e} THEN script[p].line ELSE NoLine]
      BY <1>1 DEF Begin, Goto
    <2>2. env'[p] = e /\ script[p].env = {e}
      BY <2>1 DEF Typed
    <2>3. line'[p] = script[p].line
      BY <2>1, <2>2 DEF Typed
    <2>4. script[p].line = link(e, disk, tools)
      BY <2>2 DEF Recorded
    <2> QED
      BY <2>2, <2>3, <2>4
  <1>2. CASE Configure(p) \/ Install(p)
    BY <1>2 DEF Configure, Install, Goto, Typed
  <1>3. CASE CMakeFails(p) \/ LinkStep(p) \/ Kill(p)
    BY <1>3, EndDoes DEF CMakeFails, LinkStep, Kill
  <1>4. CASE Emit(p)
    <2>1. CASE End(p)
      BY <2>1, EndDoes
    <2>2. CASE ~End(p)
      <3> DEFINE l == link(env[p], disk, tools)
      <3>1. line' = [line EXCEPT ![p] = l] /\ UNCHANGED env
        BY <1>4, <2>2, EmitDoes
      <3> HIDE DEF l
      <3>2. line'[p] = l /\ env'[p] = env[p]
        BY <3>1 DEF Typed
      <3> QED
        BY <3>2 DEF l
    <2> QED
      BY <2>1, <2>2
  <1> QED
    BY <1>1, <1>2, <1>3, <1>4 DEF BuildStep

\* A build that installs gets on, whatever the others do to its tree.
LEMMA InstallingStep ==
  ASSUME Typed, Environed, Configured, Installing, Recorded, NEW p \in Profiles, BuildStep(p)
  PROVE  Installing'
  <1>0. TreesGrow /\ UNCHANGED <<disk, tools, target>>
    BY TreesStep
  <1>a. \A e \in Ours : td_cmake_cache_segment(e) \in Segments /\ e \in EnvType
    BY EnvsAssumption, DefinitionsTyped DEF Ours, Typed
  <1>b. ASSUME NEW e \in Ours, Built(e) PROVE Built(e)'
    BY <1>0, <1>a, <1>b, BuiltKept
  <1>c. ASSUME NEW q \in Profiles, pc[q] # "idle" PROVE env[q] \in Ours
    BY <1>c DEF Environed
  \* Whoever installed, or had installed, still does.
  <1>d. ASSUME NEW q \in Profiles, pc'[q] = pc[q], env'[q] = env[q], left'[q] = left[q]
        PROVE  InstallingAt(q)'
    <2>1. CASE pc[q] = "install"
      <3>1. env[q] \in Ours /\ td_cmake_cache_segment(env[q]) \in Segments
        BY <1>a, <1>c, <2>1
      <3>2. /\ User(env[q]) \in Tree(env[q]).users
            /\ \A a \in Archives \ left[q] : Tree(env[q]).lib[a] # {}
        BY <2>1 DEF Installing, InstallingAt
      <3>3. /\ User(env[q]) \in tree'[td_cmake_cache_segment(env[q])].users
            /\ \A a \in Archives \ left[q] : tree'[td_cmake_cache_segment(env[q])].lib[a] # {}
        BY <1>0, <3>1, <3>2 DEF TreesGrow, Tree
      <3> QED
        BY <1>d, <2>1, <3>3 DEF InstallingAt, Tree
    <2>2. CASE pc[q] \in {"emit", "link"}
      <3>1. env[q] \in Ours /\ Built(env[q])
        BY <1>c, <2>2 DEF Installing, InstallingAt
      <3>2. PICK e \in Ours : e = env[q]
        BY <3>1
      <3>3. Built(e)'
        BY <1>b, <3>1, <3>2
      <3> QED
        BY <1>d, <2>2, <3>2, <3>3 DEF InstallingAt, Built, Tree
    <2>3. CASE pc[q] \notin {"install", "emit", "link"}
      BY <1>d, <2>3 DEF InstallingAt
    <2> QED
      BY <2>1, <2>2, <2>3
  <1> SUFFICES InstallingAt(p)'
    <2>1. ASSUME NEW q \in Profiles, q # p PROVE InstallingAt(q)'
      BY <1>d, <2>1, OthersKept
    <2> QED
      BY <2>1 DEF Installing
  <1>1. CASE Begin(p)
    <2>1. PICK e \in Ours :
            /\ env' = [env EXCEPT ![p] = e]
            /\ pc' = [pc EXCEPT ![p] = IF script[p].env = {e} THEN "link" ELSE "configure"]
      BY <1>1 DEF Begin, Goto, Ours
    <2>2. /\ env'[p] = e
          /\ pc'[p] = IF script[p].env = {e} THEN "link" ELSE "configure"
      BY <2>1 DEF Typed
    <2>3. script[p].env = {e} => Built(e)'
      BY <1>b DEF Recorded
    <2>4. pc'[p] \in {"emit", "link"} => script[p].env = {e}
      BY <2>2
    <2>5. pc'[p] # "install"
      BY <2>2
    <2> QED
      BY <2>2, <2>3, <2>4, <2>5 DEF InstallingAt, Built, Tree
  <1>2. CASE Configure(p)
    <2>1. /\ pc'[p] = "install" /\ left'[p] = Archives /\ env'[p] = env[p] /\ env[p] \in Ours
      BY <1>2, <1>c DEF Configure, Goto, Typed
    <2>2. User(env[p]) \in tree'[td_cmake_cache_segment(env[p])].users
      BY <1>2, <2>1, ConfigureDoes DEF Ours
    <2> QED
      BY <2>1, <2>2 DEF InstallingAt, Tree
  <1>3. CASE Install(p)
    <2> DEFINE g == td_cmake_cache_segment(env[p])
    <2>0. /\ env'[p] = env[p] /\ env[p] \in Ours /\ g \in Segments /\ pc[p] = "install"
          /\ env[p] \in EnvType
      BY <1>3, <1>a, <1>c DEF Install
    <2>1. User(env[p]) \in tree[g].users /\ \A a \in Archives \ left[p] : tree[g].lib[a] # {}
      BY <2>0 DEF Installing, InstallingAt, Tree
    <2>2. ASSUME NEW a \in left[p], left' = [left EXCEPT ![p] = @ \ {a}],
                 tree' = [tree EXCEPT ![g].lib[a] = {TreeOf(p).config}], UNCHANGED pc
          PROVE  InstallingAt(p)'
      <3>1. a \in Archives /\ left'[p] = left[p] \ {a} /\ pc'[p] = "install"
        BY <2>0, <2>2 DEF Typed
      <3>2. tree'[g].users = tree[g].users /\ tree'[g].lib[a] = {tree[g].config}
            /\ \A b \in Archives : b # a => tree'[g].lib[b] = tree[g].lib[b]
        BY <2>0, <2>2, <3>1, InstallDoes DEF Ours
      <3> HIDE DEF g
      <3>3. User(env[p]) \in tree'[g].users /\ \A b \in Archives \ left'[p] : tree'[g].lib[b] # {}
        BY <2>1, <3>1, <3>2
      <3> QED
        BY <2>0, <3>1, <3>3 DEF InstallingAt, Tree, g
    <2>3. ASSUME left[p] = {}, pc' = [pc EXCEPT ![p] = "emit"], UNCHANGED tree,
                 LET z == TreeOf(p).config.zlib_library IN z # <<>> => Has(disk, z[1], z[2], "z")
          PROVE  InstallingAt(p)'
      <3>1. PICK e \in Ours : e = env[p]
        BY <2>0
      <3>2. TreeOf(p) = Tree(e)
        BY <3>1 DEF TreeOf, Tree
      <3>3. Tree(e).users = {User(e)} =>
              Tree(e).config.zlib_library = Definitions(e, disk).zlib_library
        BY DEF Configured
      <3>4. Built(e)
        BY <2>1, <2>3, <3>1, <3>2, <3>3 DEF Built, Tree
      <3>5. Built(e)'
        BY <1>b, <3>4
      <3>6. pc'[p] = "emit"
        BY <2>3 DEF Typed
      <3> QED
        BY <2>0, <3>1, <3>5, <3>6 DEF InstallingAt, Built, Tree
    <2> QED
      BY <1>3, <2>2, <2>3 DEF Install, Goto
  <1>4. CASE CMakeFails(p) \/ LinkStep(p) \/ Kill(p)
    <2>1. pc'[p] = "idle"
      BY <1>4, EndDoes DEF CMakeFails, LinkStep, Kill
    <2> QED
      BY <2>1 DEF InstallingAt
  <1>5. CASE Emit(p)
    <2>1. CASE End(p)
      <3>1. pc'[p] = "idle"
        BY <2>1, EndDoes
      <3> QED
        BY <3>1 DEF InstallingAt
    <2>2. CASE ~End(p)
      <3>1. pc'[p] = "link" /\ env'[p] = env[p] /\ env[p] \in Ours
        BY <1>5, <2>2, EmitDoes DEF Typed
      <3>2. PICK e \in Ours : e = env[p]
        BY <3>1
      <3>3. Built(e)
        BY <1>5, <3>2 DEF Emit, Installing, InstallingAt
      <3>4. Built(e)'
        BY <1>b, <3>3
      <3> QED
        BY <3>1, <3>2, <3>4 DEF InstallingAt, Built, Tree
    <2> QED
      BY <2>1, <2>2
  <1> QED
    BY <1>1, <1>2, <1>3, <1>4, <1>5 DEF BuildStep

\* A build that runs its script runs it in an environment Cargo has not recorded.
LEMMA RerunStep ==
  ASSUME Typed, Environed, Rerun, NEW p \in Profiles, BuildStep(p)
  PROVE  Rerun'
  <1>0. \A q \in Profiles : q # p =>
          pc'[q] = pc[q] /\ env'[q] = env[q] /\ script'[q] = script[q]
    BY OthersKept
  <1> SUFFICES ASSUME pc'[p] \in {"configure", "install", "emit"}
               PROVE  script'[p].env # {env'[p]}
    BY <1>0 DEF Rerun
  <1>1. CASE Begin(p)
    <2>1. PICK e \in Ours :
            /\ env' = [env EXCEPT ![p] = e]
            /\ pc' = [pc EXCEPT ![p] = IF script[p].env = {e} THEN "link" ELSE "configure"]
      BY <1>1 DEF Begin, Goto, Ours
    <2>2. env'[p] = e /\ script[p].env # {e} /\ script' = script
      BY <1>1, <2>1 DEF Typed, Begin
    <2> QED
      BY <2>2
  <1>2. CASE Configure(p) \/ Install(p)
    BY <1>2 DEF Configure, Install, Rerun
  <1>3. CASE CMakeFails(p) \/ LinkStep(p) \/ Kill(p)
    BY <1>3, EndDoes DEF CMakeFails, LinkStep, Kill
  <1>4. CASE Emit(p)
    <2>1. CASE End(p)
      BY <2>1, EndDoes
    <2>2. CASE ~End(p)
      BY <1>4, <2>2, EmitDoes DEF Typed
    <2> QED
      BY <2>1, <2>2
  <1> QED
    BY <1>1, <1>2, <1>3, <1>4 DEF BuildStep

\* The tree of an environment after a step: as before, configured anew, or with one
\* library compiled as it is configured.
LEMMA OwnTreeSteps ==
  ASSUME Typed, Environed, NEW p \in Profiles, BuildStep(p), NEW e \in Ours
  PROVE  \/ Tree(e)' = Tree(e)
         \/ Configure(p) /\ env[p] \in Ours /\ Tree(e)'.last = {<<p, env[p]>>}
         \/ \E a \in Archives :
              /\ pc[p] = "install"
              /\ Tree(e)'.config = Tree(e).config /\ Tree(e)'.last = Tree(e).last
              /\ Tree(e)'.lib[a] = {Tree(e).config}
              /\ \A b \in Archives : b # a => Tree(e)'.lib[b] = Tree(e).lib[b]
  <1> DEFINE s == td_cmake_cache_segment(e)
             g == td_cmake_cache_segment(env[p])
  <1>1. s \in Segments /\ Tree(e)' = tree'[s] /\ Tree(e) = tree[s]
    BY EnvsAssumption, DefinitionsTyped DEF Ours, Typed, Tree
  <1>2. CASE UNCHANGED tree
    BY <1>1, <1>2
  <1>3. CASE Configure(p) /\ env[p] \in Ours
    <2>1. /\ tree'[g].last = {<<p, env[p]>>} /\ \A r \in Segments : r # g => tree'[r] = tree[r]
      BY <1>3, ConfigureDoes DEF Ours
    <2> HIDE DEF s, g
    <2> QED
      BY <1>1, <1>3, <2>1
  <1>4. ASSUME NEW a \in Archives, pc[p] = "install", env[p] \in Ours,
               tree' = [tree EXCEPT ![g].lib[a] = {TreeOf(p).config}]
        PROVE  \/ Tree(e)' = Tree(e)
               \/ /\ Tree(e)'.config = Tree(e).config /\ Tree(e)'.last = Tree(e).last
                  /\ Tree(e)'.lib[a] = {Tree(e).config}
                  /\ \A b \in Archives : b # a => Tree(e)'.lib[b] = Tree(e).lib[b]
    <2>1. /\ tree'[g].config = tree[g].config /\ tree'[g].last = tree[g].last
          /\ tree'[g].lib[a] = {tree[g].config}
          /\ \A b \in Archives : b # a => tree'[g].lib[b] = tree[g].lib[b]
          /\ \A r \in Segments : r # g => tree'[r] = tree[r]
      BY <1>4, InstallDoes DEF Ours
    <2> HIDE DEF s, g
    <2> QED
      BY <1>1, <2>1
  <1>5. CASE \E a \in Archives :
              /\ pc[p] = "install" /\ env[p] \in Ours
              /\ tree' = [tree EXCEPT ![g].lib[a] = {TreeOf(p).config}]
    <2>1. PICK a \in Archives :
            /\ pc[p] = "install" /\ env[p] \in Ours
            /\ tree' = [tree EXCEPT ![g].lib[a] = {TreeOf(p).config}]
      BY <1>5
    <2> QED
      BY <1>4, <2>1
  <1> QED
    BY <1>2, <1>3, <1>5, TreeSteps

\* What CMake is told depends on the environment and the disk alone.
LEMMA ToldAlike ==
  ASSUME UNCHANGED disk, NEW e
  PROVE  Definitions(e, disk)' = Definitions(e, disk)
  BY DEF Definitions

\* A tree that is not configured anew keeps what it holds of its configuration.
LEMMA WholeKept ==
  ASSUME Typed, Environed, NEW p \in Profiles, BuildStep(p), NEW e \in Ours,
         ~(Configure(p) /\ Tree(e)'.last = {<<p, env[p]>>})
  PROVE  /\ Tree(e)'.last = Tree(e).last /\ Tree(e)'.config = Tree(e).config
         /\ Told(e) => Told(e)'
         /\ \A libs \in SUBSET Archives : Compiled(e, libs) => Compiled(e, libs)'
         /\ Whole(e) => Whole(e)'
  <1>0. UNCHANGED disk
    BY TreesStep
  <1>1. \/ Tree(e)' = Tree(e)
        \/ \E a \in Archives :
             /\ Tree(e)'.config = Tree(e).config /\ Tree(e)'.last = Tree(e).last
             /\ Tree(e)'.lib[a] = {Tree(e).config}
             /\ \A b \in Archives : b # a => Tree(e)'.lib[b] = Tree(e).lib[b]
    BY OwnTreeSteps
  <1>2. Tree(e)'.last = Tree(e).last /\ Tree(e)'.config = Tree(e).config
    BY <1>1
  <1>3. Told(e) => Told(e)'
    BY <1>0, <1>2, ToldAlike DEF Told
  <1>4. ASSUME NEW libs \in SUBSET Archives, Compiled(e, libs) PROVE Compiled(e, libs)'
    BY <1>1, <1>4 DEF Compiled
  <1>5. Whole(e) => Whole(e)'
    BY <1>0, <1>2, <1>4 DEF Whole
  <1> QED
    BY <1>2, <1>3, <1>4, <1>5

\* Who configured a tree last finds it whole when its script has ended.
LEMMA OwnedStep ==
  ASSUME Typed, Environed, Owned, Rerun, NEW p \in Profiles, BuildStep(p)
  PROVE  Owned'
  <1>0. /\ UNCHANGED <<disk, target>>
        /\ \A q \in Profiles : q # p =>
             pc'[q] = pc[q] /\ env'[q] = env[q] /\ left'[q] = left[q] /\ script'[q] = script[q]
    BY TreesStep, OthersKept
  <1> SUFFICES ASSUME NEW q \in Profiles, NEW e \in Ours PROVE OwnedAt(q, e)'
    BY <1>0 DEF Owned, Ours
  <1> SUFFICES ASSUME Tree(e)'.last = {<<q, e>>} PROVE OwnedAt(q, e)'
    BY DEF OwnedAt
  <1>1. CASE Configure(p) /\ Tree(e)'.last = {<<p, env[p]>>}
    <2>1. q = p /\ env[p] = e
      <3>1. <<p, env[p]>> = <<q, e>>
        BY <1>1
      <3> QED
        BY <3>1
    <2>2. /\ pc'[p] = "install" /\ left'[p] = Archives /\ script' = script /\ env' = env
          /\ pc[p] = "configure"
      BY <1>1 DEF Configure, Goto, Typed
    <2>3. script[p].env # {e}
      BY <2>1, <2>2 DEF Rerun
    <2>4. Tree(e)'.config = [k \in DOMAIN Definitions(e, disk) |->
            IF Definitions(e, disk)[k] = Blank[k] THEN Tree(e).config[k] ELSE Definitions(e, disk)[k]]
      BY <1>1, <2>1, ConfigureDoes DEF Tree, Ours
    <2>5. Told(e)'
      <3> DEFINE D == Definitions(e, disk)
      <3>1. D' = D
        BY <1>0, ToldAlike
      <3> HIDE DEF D
      <3>2. \A k \in DOMAIN D : Tree(e)'.config[k] = D[k] \/ D[k] = Blank[k]
        <4>1. Tree(e)'.config = [k \in DOMAIN D |-> IF D[k] = Blank[k] THEN Tree(e).config[k] ELSE D[k]]
          BY <2>4 DEF D
        <4> QED
          BY <4>1
      <3>3. \A k \in DOMAIN D' : Tree(e)'.config[k] = D'[k] \/ D'[k] = Blank[k]
        BY <3>1, <3>2
      <3> QED
        BY <3>3 DEF Told, D
    <2>6. Compiled(e, Archives \ left[p])'
      BY <2>2 DEF Compiled
    <2> QED
      BY <2>1, <2>2, <2>3, <2>5, <2>6 DEF OwnedAt
  <1>2. CASE ~(Configure(p) /\ Tree(e)'.last = {<<p, env[p]>>})
    <2>1. /\ Tree(e)'.last = Tree(e).last /\ Tree(e)'.config = Tree(e).config
          /\ Told(e) => Told(e)'
          /\ Whole(e) => Whole(e)'
          /\ \A libs \in SUBSET Archives : Compiled(e, libs) => Compiled(e, libs)'
      BY <1>2, WholeKept
    <2>2. /\ Told(e)
          /\ script[q].env = {e} => Whole(e)
          /\ pc[q] = "install" /\ env[q] = e => Compiled(e, Archives \ left[q])
          /\ pc[q] \in {"emit", "link"} /\ env[q] = e => Whole(e)
      <3>1. OwnedAt(q, e) /\ Tree(e).last = {<<q, e>>}
        BY <2>1 DEF Owned
      <3> QED
        BY <3>1 DEF OwnedAt
    <2>3. Told(e)'
      BY <2>1, <2>2
    <2>4. ASSUME pc'[q] = pc[q], env'[q] = env[q], left'[q] = left[q], script'[q] = script[q]
          PROVE  OwnedAt(q, e)'
      <3>1. pc[q] = "install" /\ env[q] = e => Compiled(e, Archives \ left[q])'
        <4>1. CASE pc[q] = "install" /\ env[q] = e
          <5>1. (Archives \ left[q])' = Archives \ left[q]
            BY <2>4
          <5>2. Compiled(e, Archives \ left[q])
            BY <2>2, <4>1
          <5>3. \A a \in Archives \ left[q] : Tree(e)'.lib[a] = {Tree(e)'.config}
            BY <2>1, <5>2 DEF Compiled
          <5> QED
            BY <5>1, <5>3 DEF Compiled
        <4> QED
          BY <4>1
      <3> QED
        BY <2>1, <2>2, <2>3, <2>4, <3>1 DEF OwnedAt
    <2>5. CASE q # p
      BY <1>0, <2>4, <2>5
    <2>6. CASE q = p /\ Begin(p)
      <3>1. PICK f \in Ours :
              /\ env' = [env EXCEPT ![p] = f]
              /\ pc' = [pc EXCEPT ![p] = IF script[p].env = {f} THEN "link" ELSE "configure"]
        BY <2>6 DEF Begin, Goto, Ours
      <3>2. /\ env'[p] = f /\ script' = script
            /\ pc'[p] = IF script[p].env = {f} THEN "link" ELSE "configure"
        BY <2>6, <3>1 DEF Typed, Begin
      <3>3. pc'[p] \in {"emit", "link"} /\ env'[p] = e => script[p].env = {e}
        BY <3>2
      <3>4. pc'[p] # "install"
        BY <3>2
      <3> QED
        BY <2>1, <2>2, <2>3, <2>6, <3>2, <3>3, <3>4 DEF OwnedAt
    <2>7. CASE q = p /\ Configure(p)
      <3>1. td_cmake_cache_segment(env[p]) \in Segments /\ env[p] \in Ours
        BY <2>7, EnvsAssumption, DefinitionsTyped DEF Environed, Ours, Configure, Typed
      <3>2. env'[p] # e
        <4>1. tree'[td_cmake_cache_segment(env[p])].last = {<<p, env[p]>>} /\ env'[p] = env[p]
          BY <2>7, <3>1, ConfigureDoes DEF Ours, Configure
        <4>2. SUFFICES ASSUME env[p] = e PROVE FALSE
          BY <4>1
        <4> QED
          BY <1>2, <2>7, <4>1, <4>2 DEF Tree
      <3>3. script' = script
        BY <2>7 DEF Configure
      <3> QED
        BY <2>1, <2>2, <2>3, <2>7, <3>2, <3>3 DEF OwnedAt
    <2>8. CASE q = p /\ Install(p)
      <3>0. /\ pc[p] = "install" /\ UNCHANGED <<disk, env, script>>
        BY <2>8 DEF Install
      <3>1. ASSUME NEW a \in left[p], left' = [left EXCEPT ![p] = @ \ {a}],
                   tree' = [tree EXCEPT ![td_cmake_cache_segment(env[p])].lib[a] = {TreeOf(p).config}],
                   UNCHANGED pc
            PROVE  OwnedAt(q, e)'
        <4>1. a \in Archives /\ left'[p] = left[p] \ {a} /\ pc'[p] = "install"
          BY <3>0, <3>1 DEF Typed
        <4>2. ASSUME env[p] = e PROVE Compiled(e, Archives \ left[p])'
          <5>1. Compiled(e, Archives \ left[p])
            BY <2>2, <2>8, <3>0, <4>2
          <5>2. /\ Tree(e)'.lib[a] = {Tree(e).config}
                /\ \A b \in Archives : b # a => Tree(e)'.lib[b] = Tree(e).lib[b]
            <6>1. env[p] \in Envs
              BY <4>2 DEF Ours
            <6>2. LET g == td_cmake_cache_segment(env[p])
                  IN /\ tree'[g].lib[a] = {tree[g].config}
                     /\ \A b \in Archives : b # a => tree'[g].lib[b] = tree[g].lib[b]
              BY <3>1, <4>1, <6>1, InstallDoes
            <6> QED
              BY <4>2, <6>2 DEF Tree
          <5>3. \A b \in Archives \ left'[p] : Tree(e)'.lib[b] = {Tree(e)'.config}
            BY <2>1, <4>1, <5>1, <5>2 DEF Compiled
          <5> QED
            BY <5>3 DEF Compiled
        <4> QED
          BY <2>1, <2>2, <2>3, <2>8, <3>0, <4>1, <4>2 DEF OwnedAt
      <3>2. ASSUME left[p] = {}, pc' = [pc EXCEPT ![p] = "emit"], UNCHANGED tree,
                   LET z == TreeOf(p).config.zlib_library IN z # <<>> => Has(disk, z[1], z[2], "z")
            PROVE  OwnedAt(q, e)'
        <4>1. pc'[p] = "emit"
          BY <3>2 DEF Typed
        <4>2. env[p] = e => Whole(e)
          BY <2>2, <2>8, <3>0, <3>2 DEF Whole, Compiled, TreeOf, Tree
        <4> QED
          BY <2>1, <2>2, <2>3, <2>8, <3>0, <4>1, <4>2 DEF OwnedAt
      <3> QED
        BY <2>8, <3>1, <3>2 DEF Install, Goto
    <2>9. CASE q = p /\ (CMakeFails(p) \/ LinkStep(p) \/ Kill(p))
      <3>1. pc'[p] = "idle" /\ script' = script
        BY <2>9, EndDoes DEF CMakeFails, LinkStep, Kill
      <3> QED
        BY <2>1, <2>2, <2>3, <2>9, <3>1 DEF OwnedAt
    <2>10. CASE q = p /\ Emit(p)
      <3>1. CASE End(p) /\ UNCHANGED script
        <4>1. pc'[p] = "idle"
          BY <3>1, EndDoes
        <4> QED
          BY <2>1, <2>2, <2>3, <2>10, <3>1, <4>1 DEF OwnedAt
      <3>2. CASE ~(End(p) /\ UNCHANGED script)
        <4>1. /\ pc'[p] = "link" /\ env'[p] = env[p] /\ script'[p].env = {env[p]}
              /\ pc[p] = "emit"
          BY <2>10, <3>2, EmitDoes DEF Typed, Emit
        <4>2. env[p] = e => Whole(e)
          BY <2>2, <2>10, <4>1
        <4>3. script'[p].env = {e} => env[p] = e
          BY <4>1
        <4>4. env[p] = e => Whole(e)'
          BY <2>1, <4>2
        <4>5. /\ pc'[q] = "link"
              /\ script'[q].env = {e} => Whole(e)'
              /\ env'[q] = e => Whole(e)'
          BY <2>10, <4>1, <4>3, <4>4
        <4> QED
          BY <2>3, <4>5 DEF OwnedAt
      <3> QED
        BY <3>1, <3>2
    <2> QED
      BY <2>5, <2>6, <2>7, <2>8, <2>9, <2>10 DEF BuildStep
  <1> QED
    BY <1>1, <1>2

-----------------------------------------------------------------------------
(* The theorems.                                                           *)

\* The invariant holds before the first build.
LEMMA BuildInit == Init => BuildInv
  <1> SUFFICES ASSUME Init PROVE BuildInv
    OBVIOUS
  <1>1. disk \subseteq Files /\ tools \in ToolchainType /\ target \in Targets
    BY MachinesAssumption, EnvsAssumption DEF Init, EnvType
  <1>2. NoTree \in TreeType
    <2>1. Blank \in DefinitionsType
      BY DEF Blank, DefinitionsType
    <2> QED
      BY <2>1 DEF NoTree, TreeType
  <1>3. NoLine \in Written /\ NoScript \in ScriptType
    <2>1. NoLine \in Written
      BY LineIs DEF NoLine
    <2> QED
      BY <2>1 DEF NoScript, ScriptType
  <1>4. Typed
    BY <1>1, <1>2, <1>3, BoundAssumption DEF Init, Typed, Stages
  <1>5. Environed /\ Installing /\ Lined
    BY DEF Init, Environed, Installing, InstallingAt, Lined
  <1>6. Recorded
    BY DEF Init, Recorded, NoScript
  <1>7. \A s \in Segments : tree[s] = NoTree
    BY DEF Init
  <1>8. Fresh
    BY <1>7 DEF Fresh, NoTree
  <1>9. Configured
    <2> SUFFICES ASSUME NEW e \in Ours PROVE Tree(e).users # {User(e)}
      BY DEF Configured
    <2>1. td_cmake_cache_segment(e) \in Segments
      BY <1>1, EnvsAssumption, DefinitionsTyped DEF Ours
    <2> QED
      BY <1>7, <2>1 DEF Tree, NoTree
  <1>10. Rerun
    BY DEF Init, Rerun
  <1>11. Owned
    <2> SUFFICES ASSUME NEW e \in Ours PROVE Tree(e).last = {}
      BY DEF Owned, OwnedAt
    <2>1. td_cmake_cache_segment(e) \in Segments
      BY <1>1, EnvsAssumption, DefinitionsTyped DEF Ours
    <2> QED
      BY <1>7, <2>1 DEF Tree, NoTree
  <1> QED
    BY <1>4, <1>5, <1>6, <1>8, <1>9, <1>10, <1>11 DEF BuildInv

\* A step that changes nothing keeps the invariant.
LEMMA BuildStutter == ASSUME BuildInv, UNCHANGED vars PROVE BuildInv'
  <1>1. UNCHANGED <<disk, tools, target, tree, pc, env, line, left, script, builds>>
    BY DEF vars
  <1>2. Typed' /\ Environed' /\ Fresh'
    BY <1>1 DEF BuildInv, Typed, Environed, Ours, Fresh
  <1>3. Ours' = Ours
    BY <1>1 DEF Ours
  <1>4. ASSUME NEW e PROVE Built(e)' = Built(e)
    BY <1>1 DEF Built, Tree
  <1>5. Configured'
    BY <1>1, <1>3 DEF BuildInv, Configured, Tree
  <1>6. Installing'
    BY <1>1 DEF BuildInv, Installing, InstallingAt, Tree, Built
  <1>7. Lined'
    BY <1>1 DEF BuildInv, Lined
  <1>8. Recorded'
    BY <1>1, <1>3 DEF BuildInv, Recorded, Built, Tree
  <1>9. Rerun' /\ Owned'
    BY <1>1, <1>3 DEF BuildInv, Rerun, Owned, OwnedAt, Told, Compiled, Whole, Tree
  <1> QED
    BY <1>2, <1>5, <1>6, <1>7, <1>8, <1>9 DEF BuildInv

\* The invariant of the builds.
LEMMA BuildCorrect == Spec => []BuildInv
  <1>1. BuildInv /\ [Next]_vars => BuildInv'
    <2> SUFFICES ASSUME BuildInv, [Next]_vars PROVE BuildInv'
      OBVIOUS
    <2>1. ASSUME NEW p \in Profiles, BuildStep(p) PROVE BuildInv'
      <3>1. Typed' /\ Environed' /\ Fresh' /\ Configured'
        BY <2>1, TypedStep, EnvironedStep, FreshStep, ConfiguredStep DEF BuildInv
      <3>2. Installing' /\ Lined' /\ Recorded'
        BY <2>1, InstallingStep, LinedStep, RecordedStep DEF BuildInv
      <3>3. Owned' /\ Rerun'
        BY <2>1, OwnedStep, RerunStep DEF BuildInv
      <3> QED
        BY <3>1, <3>2, <3>3 DEF BuildInv
    <2>2. CASE UNCHANGED vars
      BY <2>2, BuildStutter
    <2> QED
      BY <2>1, <2>2 DEF Next, Finished, BuildStep
  <1> QED
    BY <1>1, BuildInit, PTL DEF Spec

\* The build of every profile in every environment keeps its types.
THEOREM BuildTypes == Spec => []TypeOK
  <1>1. BuildInv => TypeOK
    <2> SUFFICES ASSUME BuildInv PROVE TypeOK
      OBVIOUS
    <2>1. ASSUME NEW s \in Segments
          PROVE  /\ tree[s].config \in DefinitionsType
                 /\ \A a \in Archives : tree[s].lib[a] \subseteq DefinitionsType
      BY DEF BuildInv, Typed, TreeType
    <2>2. ASSUME NEW l \in Written
          PROVE  /\ DOMAIN l = {"panic", "items", "search"} /\ ~l.panic
                 /\ \A i \in l.items : i.lib \in Libs /\ i.how \in Hows /\ i.at \in Places
                 /\ l.search \subseteq Places
      BY DEF Written
    <2>3. ASSUME NEW p \in Profiles
          PROVE  /\ pc[p] \in Stages /\ left[p] \subseteq Archives
                 /\ IF pc[p] = "idle" THEN env[p] = {} ELSE env[p] \in Envs
                 /\ line[p] \in Written /\ script[p].line \in Written
      BY DEF BuildInv, Typed, Environed, Ours, ScriptType
    <2> QED
      BY <2>1, <2>2, <2>3 DEF TypeOK, BuildInv, Typed
  <1> QED
    BY <1>1, BuildCorrect, PTL

\* What is linked was written for the environment of the build.
LEMMA LinkedLine ==
  ASSUME BuildInv, NEW p \in Linking
  PROVE  /\ p \in Profiles /\ env[p] \in EnvType /\ env[p] \in Ours
         /\ line[p] = link(env[p], disk, tools) /\ ~link(env[p], disk, tools).panic
         /\ disk \in SUBSET Files /\ tools \in ToolchainType /\ Built(env[p])
  <1>1. p \in Profiles /\ pc[p] = "link"
    BY DEF Linking
  <1>2. env[p] \in Ours
    BY <1>1 DEF BuildInv, Environed
  <1>3. line[p] = link(env[p], disk, tools) /\ Built(env[p])
    BY <1>1 DEF BuildInv, Lined, Installing, InstallingAt
  <1>4. line[p] \in Written /\ disk \in SUBSET Files /\ tools \in ToolchainType
    BY <1>1 DEF BuildInv, Typed
  <1>5. ~line[p].panic
    BY <1>4 DEF Written
  <1> QED
    BY <1>1, <1>2, <1>3, <1>4, <1>5, EnvsAssumption DEF Ours

\* The musl-static variant with TDLIB_LINK_SSL_STATIC=1 links nothing as a shared
\* library, on any machine and whatever was built before (build.rs:24-25).
THEOREM StaticStaysStatic == Spec => []StaticIsStatic
  <1>1. BuildInv => StaticIsStatic
    BY LinkedLine, LinkHolds DEF StaticIsStatic
  <1> QED
    BY <1>1, BuildCorrect, PTL

\* A line that is linked names OpenSSL, zlib, the C++ runtime and, where nm can be run
\* and TDLib was compiled with it, zstd, unless the line is the static musl one and no
\* libzstd.a is found: zstd is silently left out in these two cases.
THEOREM NoNeedIsForgotten == Spec => []NeedsAreNamed
  <1>1. BuildInv => NeedsAreNamed
    <2> SUFFICES ASSUME BuildInv, NEW p \in Linking
                 PROVE  LET e == env[p]
                            static == musl_static_tdlib(e) /\ ~use_shared(e) /\ e.ssl_static = "1"
                        IN /\ {"ssl", "crypto", "z"} \subseteq Named(p)
                           /\ e.target \in {"linux-gnu", "linux-musl"} => "stdc++" \in Named(p)
                           /\ e.target = "macos" => "c++" \in Named(p)
                           /\ tools.nm /\ tools.zstd /\ e.target # "windows-msvc" =>
                                \/ "zstd" \in Named(p)
                                \/ static /\ musl_find_static_archive(e, disk, "zstd") = <<>>
      BY DEF NeedsAreNamed
    <2>1. Named(p) = LibsOf(link(env[p], disk, tools).items)
      BY LinkedLine DEF Named, LibsOf
    <2> QED
      BY <2>1, LinkedLine, LinkHolds DEF CompiledIn
  <1> QED
    BY <1>1, BuildCorrect, PTL

\* The libz.a on a static line is the one CMake was told to compile TDLib against,
\* with the exceptions ZlibIsTheConfiguredOne names.
THEOREM ZlibIsTheSame == Spec => []ZlibIsTheConfiguredOne
  <1>1. BuildInv => ZlibIsTheConfiguredOne
    <2> SUFFICES ASSUME BuildInv, NEW p \in Linking, NEW i \in line[p].items,
                        i.lib = "z", i.how = "archive", env[p].openssl # Unset,
                        IsLast(p) \/ TreeOf(p).users = {User(env[p])}
                 PROVE  LET e == env[p]
                            Holds(r) == \E s \in Subs : Has(disk, r, s, "z")
                        IN \/ i.at = TreeOf(p).config.zlib_library
                           \/ e.zlib \notin {Unset, e.openssl} /\ Holds(e.openssl) /\ Holds(e.zlib)
      BY DEF ZlibIsTheConfiguredOne
    <2>1. PICK e \in Ours : e = env[p]
      BY LinkedLine
    <2>2. e \in EnvType /\ disk \in SUBSET Files /\ Built(e) /\ TreeOf(p) = Tree(e)
      BY <2>1, LinkedLine DEF TreeOf, Tree
    <2>3. /\ musl_static_tdlib(e) /\ i.at = musl_find_static_archive(e, disk, "z") /\ i.at # <<>>
      <3>1. /\ i \in link(e, disk, tools).items /\ ~link(e, disk, tools).panic
            /\ tools \in ToolchainType
        BY <2>1, LinkedLine
      <3> QED
        BY <2>2, <3>1, LinkHolds
    <2>4. e.openssl # Unset
      BY <2>1
    <2>5. CASE TreeOf(p).users = {User(env[p])}
      <3>1. Tree(e).config.zlib_library = Definitions(e, disk).zlib_library
        BY <2>1, <2>2, <2>5 DEF BuildInv, Configured
      <3>2. LET z == Definitions(e, disk).zlib_library IN z # <<>> => Has(disk, z[1], z[2], "z")
        BY <2>1, <2>2, <2>5 DEF Built
      <3> QED
        BY <2>1, <2>2, <2>3, <2>4, <3>1, <3>2, ZlibFound
    <2>6. CASE IsLast(p)
      <3>1. Tree(e).last = {<<p, e>>} /\ pc[p] = "link" /\ env[p] = e /\ p \in Profiles
        BY <2>1, <2>2, <2>6 DEF IsLast, Linking
      <3>2. Told(e) /\ Whole(e)
        BY <3>1 DEF BuildInv, Owned, OwnedAt
      <3>3. Definitions(e, disk).zlib_library = ZlibAt(e, disk) /\ ZlibAt(e, disk) # <<>>
        BY <2>3, <2>4 DEF Definitions, musl_static_tdlib, ZlibAt, At
      <3>4. Tree(e).config.zlib_library = Definitions(e, disk).zlib_library
        <4>1. "zlib_library" \in DOMAIN Definitions(e, disk) /\ Blank["zlib_library"] = <<>>
          BY DEF Definitions, Blank
        <4> QED
          BY <3>2, <3>3, <4>1 DEF Told
      <3>5. LET z == Definitions(e, disk).zlib_library IN z # <<>> => Has(disk, z[1], z[2], "z")
        BY <3>2, <3>4 DEF Whole
      <3> QED
        BY <2>1, <2>2, <2>3, <2>4, <3>4, <3>5, ZlibFound
    <2> QED
      BY <2>5, <2>6
  <1> QED
    BY <1>1, BuildCorrect, PTL

\* For any environments, prefixes and machines: a build that was the last to configure
\* its tree links libraries compiled as one configuration with all it told CMake,
\* whatever ran in the tree before; and one whose tree was configured for its own
\* OPENSSL_ROOT_DIR and ZLIB_ROOT alone, with no cache id, links them as told exactly.
THEOREM OwnTdlibIsLinked == Spec => LinksItsOwnTdlib
  <1>1. ASSUME BuildInv, NEW p \in Profiles, LinkStep(p), TreeOf(p).users = {User(env[p])},
               env[p].cache_id = "", NEW a \in Archives
        PROVE  TreeOf(p).lib[a] = {Definitions(env[p], disk)}
    <2>1. p \in Linking
      BY <1>1 DEF LinkStep, Linking
    <2>2. PICK e \in Ours : e = env[p]
      BY <1>1, <2>1, LinkedLine
    <2>3. Built(e) /\ TreeOf(p) = Tree(e)
      BY <1>1, <2>1, <2>2, LinkedLine DEF TreeOf, Tree
    <2>4. Tree(e).lib[a] \subseteq {Definitions(e, disk)}
      BY <1>1, <2>2, <2>3 DEF BuildInv, Configured
    <2>5. Tree(e).lib[a] # {}
      BY <1>1, <2>3 DEF Built
    <2> QED
      BY <2>2, <2>3, <2>4, <2>5
  <1>2. ASSUME BuildInv, NEW p \in Profiles, LinkStep(p), IsLast(p)
        PROVE  LET told == Definitions(env[p], disk)
                   at == TreeOf(p)
               IN /\ \A a \in Archives : at.lib[a] = {at.config}
                  /\ \A k \in DOMAIN told : at.config[k] = told[k] \/ told[k] = Blank[k]
    <2>1. p \in Linking /\ pc[p] = "link"
      BY <1>2 DEF LinkStep, Linking
    <2>2. PICK e \in Ours : e = env[p]
      BY <1>2, <2>1, LinkedLine
    <2>3. Tree(e).last = {<<p, e>>} /\ TreeOf(p) = Tree(e)
      BY <1>2, <2>2 DEF IsLast, TreeOf, Tree
    <2>4. Told(e) /\ Whole(e)
      BY <1>2, <2>1, <2>2, <2>3 DEF BuildInv, Owned, OwnedAt
    <2> QED
      BY <2>2, <2>3, <2>4 DEF Told, Whole, Compiled
  <1>3. BuildInv =>
          \A p \in Profiles : LinkStep(p) =>
            LET told == Definitions(env[p], disk)
                at == TreeOf(p)
            IN /\ IsLast(p) =>
                    /\ \A a \in Archives : at.lib[a] = {at.config}
                    /\ \A k \in DOMAIN told : at.config[k] = told[k] \/ told[k] = Blank[k]
               /\ at.users = {User(env[p])} /\ env[p].cache_id = "" =>
                    \A a \in Archives : at.lib[a] = {told}
    BY <1>1, <1>2
  <1> QED
    BY <1>3, BuildCorrect, PTL DEF LinksItsOwnTdlib
=============================================================================
