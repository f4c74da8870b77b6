------------------------------ MODULE TdBuild ------------------------------
(***************************************************************************)
(* main of build.rs once the TDLib source is there: the environment picks  *)
(* a tree under tdlib-build-cache/cmake, CMake configures it and installs  *)
(* TDLib in it, and the link lines are written for rustc.  Trees are       *)
(* shared by the builds of all profiles of a target directory, one after   *)
(* another or at once; Cargo does not run the script again for an          *)
(* environment it has seen last.  CMake, Cargo and rustc are external.     *)
(***************************************************************************)
EXTENDS Naturals

CONSTANTS
  Profiles,   \* profiles built in one target directory
  Envs,       \* environments they are built in
  Roots,      \* prefixes in which OpenSSL and zlib may be installed
  MuslLocal,  \* /musl-local
  Unset,      \* a variable that is absent or empty
  Machines,   \* what the prefixes hold, and the toolchain
  Archives,   \* TD_STATIC_LIBS
  MaxBuilds   \* bound: builds begun

Targets == {"linux-gnu", "linux-musl", "macos", "windows-msvc", "freebsd"}
EnvType ==
  [target : Targets, variant : {"default", "musl-static"}, cache_id : {"", "own"},
   openssl : Roots \cup {Unset}, zlib : Roots \cup {Unset},
   shared : {"", "1"}, ssl_static : {"", "1"}]
Stems == {"crypto", "ssl", "z", "zstd"}
Subs == {"lib", "lib64"}
Files == [root : Roots, sub : Subs, stem : Stems]

\* nm can be run, CMake finds zstd, g++ knows libstdc++.a, tdjson.dll is installed;
\* where CMake installs libraries; the archives in rustc's self-contained directory.
ToolchainType ==
  [nm : BOOLEAN, zstd : BOOLEAN, stdcxx : BOOLEAN, dll : BOOLEAN, libdir : Subs,
   self_contained : SUBSET {"c", "m", "pthread"}]

ASSUME RootsAssumption == MuslLocal \in Roots /\ Unset \notin Roots
ASSUME EnvsAssumption == Envs \subseteq EnvType
ASSUME MachinesAssumption ==
  \A m \in Machines : m.disk \subseteq Files /\ m.tools \in ToolchainType
ASSUME ArchivesAssumption == "z" \notin Archives
ASSUME BoundAssumption == MaxBuilds \in Nat

-----------------------------------------------------------------------------
(* What the environment asks for.                                          *)

is_musl_target(e) == e.target = "linux-musl"
musl_static_tdlib(e) == is_musl_target(e) /\ e.variant = "musl-static"
use_shared(e) ==
  \/ e.target = "windows-msvc" \/ e.shared = "1"
  \/ is_musl_target(e) /\ ~musl_static_tdlib(e)

Segments == {"own", "windows", "macos", "musl-static", "musl-shared", "unix-static"}

\* Mutant of td_cmake_cache_segment: the variant is not in the name.
one_musl_segment(e) ==
  CASE e.cache_id # "" -> e.cache_id
    [] e.target = "windows-msvc" -> "windows"
    [] e.target = "macos" -> "macos"
    [] is_musl_target(e) -> "musl-static"
    [] OTHER -> "unix-static"

\* td_cmake_cache_segment: the tree's name below TD_COMMIT and TARGET.
td_cmake_cache_segment(e) ==
  CASE e.cache_id # "" -> e.cache_id
    [] e.cache_id = "" /\ e.target = "windows-msvc" -> "windows"
    [] e.cache_id = "" /\ e.target = "macos" -> "macos"
    [] e.cache_id = "" /\ musl_static_tdlib(e) -> "musl-static"
    [] e.cache_id = "" /\ is_musl_target(e) /\ ~musl_static_tdlib(e) -> "musl-shared"
    [] OTHER -> "unix-static"

At(root, sub) == <<root, sub>>
Has(d, root, sub, stem) == [root |-> root, sub |-> sub, stem |-> stem] \in d

\* The prefix CMake is to find zlib in.
zlib_prefix(e) == IF e.zlib # Unset THEN e.zlib ELSE e.openssl

\* Mutant of ZlibAt: lib64 comes first.
lib64_first(e, d) ==
  At(zlib_prefix(e), IF Has(d, zlib_prefix(e), "lib64", "z") THEN "lib64" ELSE "lib")

\* The libz.a CMake is told of: lib/libz.a unless only lib64/libz.a is there.
ZlibAt(e, d) ==
  LET prefix == zlib_prefix(e)
  IN At(prefix, IF Has(d, prefix, "lib", "z") \/ ~Has(d, prefix, "lib64", "z")
                THEN "lib" ELSE "lib64")

\* Mutant of Definitions: CMake is told of zlib on every musl target.
zlib_always(e, d) ==
  [static_crt |-> IF e.target = "windows-msvc" THEN "OFF" ELSE "",
   crosscompiling |-> IF is_musl_target(e) THEN "OFF" ELSE "",
   openssl |-> e.openssl,
   use_static_libs |-> IF e.openssl # Unset /\ musl_static_tdlib(e) THEN "ON" ELSE "",
   zlib_library |-> IF is_musl_target(e) THEN ZlibAt(e, d) ELSE <<>>]

\* What CMake is told, the definitions alike in all builds left out.  With
\* OPENSSL_ROOT_DIR on musl, ZLIB_LIBRARY is libz.a itself, there or not.
Definitions(e, d) ==
  [static_crt |-> IF e.target = "windows-msvc" THEN "OFF" ELSE "",
   crosscompiling |-> IF is_musl_target(e) THEN "OFF" ELSE "",
   openssl |-> e.openssl,
   use_static_libs |-> IF e.openssl # Unset /\ musl_static_tdlib(e) THEN "ON" ELSE "",
   zlib_library |-> IF e.openssl # Unset /\ is_musl_target(e) THEN ZlibAt(e, d) ELSE <<>>]

-----------------------------------------------------------------------------
(* The link lines: which libraries, how, and the directories searched.     *)

Item(lib, how, at) == [lib |-> lib, how |-> how, at |-> at]
Dylibs(libs) == {Item(l, "dylib", <<>>) : l \in libs}
Statics(libs) == {Item(l, "static", <<>>) : l \in libs}
TdArchives(how) == {Item(a, how, <<>>) : a \in Archives}
Line(items, search) == [panic |-> FALSE, items |-> items, search |-> search]
Panic == [panic |-> TRUE, items |-> {}, search |-> {}]

\* musl_prefix_roots, in the order in which they are searched.
musl_prefix_roots(e) ==
  CASE e.openssl = Unset /\ e.zlib = Unset -> <<MuslLocal>>
    [] e.openssl = Unset /\ e.zlib # Unset -> <<e.zlib>>
    [] e.openssl # Unset /\ e.zlib \in {Unset, e.openssl} -> <<e.openssl>>
    [] OTHER -> <<e.openssl, e.zlib>>

\* musl_find_static_archive: where the first lib<stem>.a is.
musl_find_static_archive(e, d, stem) ==
  LET roots == musl_prefix_roots(e)
      found == {i \in DOMAIN roots : \E s \in Subs : Has(d, roots[i], s, stem)}
  IN IF found = {} THEN <<>>
     ELSE LET r == roots[CHOOSE i \in found : \A j \in found : i <= j]
          IN At(r, IF Has(d, r, "lib", stem) THEN "lib" ELSE "lib64")

musl_dependency_lib_dirs(e, d) ==
  LET roots == musl_prefix_roots(e)
  IN {At(f.root, f.sub) : f \in {f \in d : \E i \in DOMAIN roots : roots[i] = f.root}}

\* nm finds ZSTD_ among the undefined symbols of libtdcore.a.
tdlib_built_with_zstd(e, t) == e.target # "windows-msvc" /\ t.nm /\ t.zstd

\* Mutant of Zstd: zstd is never asked for.
NoZstd(e, t) == {}

Zstd(e, t) == IF tdlib_built_with_zstd(e, t) THEN {"zstd"} ELSE {}

\* link_system_crypto_z; main never asks it for static libraries.
link_system_crypto_z(e, t) ==
  Dylibs({"ssl", "crypto", "z"} \cup Zstd(e, t)) \cup
  CASE e.target = "macos" -> {}
    [] musl_static_tdlib(e) -> Statics({"pthread"})
    [] e.target = "linux-gnu" -> Dylibs({"dl", "pthread"})
    [] OTHER -> Dylibs({"pthread"})

\* link_local_shared, the DLL copied to target/<profile> included.
link_local_shared(e, d, t) ==
  Line(Dylibs({"tdjson", "ssl", "crypto", "z"} \cup Zstd(e, t)) \cup
       CASE e.target = "macos" -> {Item("tdjson", "rpath", <<>>)} \cup Dylibs({"c++"})
         [] e.target \in {"linux-gnu", "linux-musl"} ->
              {Item("tdjson", "rpath", <<>>)} \cup Dylibs({"stdc++"})
         [] e.target = "windows-msvc" /\ t.dll -> {Item("tdjson", "copy", <<>>)}
         [] OTHER -> {},
       IF is_musl_target(e) THEN musl_dependency_lib_dirs(e, d) ELSE {})

\* Mutant of Runtime: the bare name is enough.
BareRuntime(t) == Dylibs({"c"})

\* rustc's own libc.a, libm.a and libpthread.a in place of those of the GCC sysroot.
Runtime(t) == {Item(l, "archive", <<>>) : l \in t.self_contained}

\* link_unix_static_gnu_with_stdcxx: with TDLIB_LINK_SSL_STATIC=1 OpenSSL and zlib
\* are named by their paths, and a missing one is a panic (zstd and libpthread.a
\* are left out then).
link_unix_static_gnu_with_stdcxx(e, d, t) ==
  LET Path(l) == musl_find_static_archive(e, d, l)
      wanted == IF e.ssl_static = "1" THEN {"crypto", "ssl", "z"} ELSE {}
      optional == IF e.ssl_static = "1" THEN {l \in Zstd(e, t) : Path(l) # <<>>} ELSE {}
      runtime == IF e.ssl_static = "1" THEN Runtime(t)
                 ELSE {i \in Runtime(t) : i.lib # "pthread"}
  IN IF ~t.stdcxx \/ "c" \notin t.self_contained \/ \E l \in wanted : Path(l) = <<>>
     THEN Panic
     ELSE Line(TdArchives("archive") \cup {Item(l, "archive", Path(l)) : l \in wanted \cup optional}
                 \cup {Item("stdc++", "archive", <<>>)} \cup runtime
                 \cup Statics({"gcc", "gcc_eh"})
                 \cup (IF e.ssl_static = "1" THEN {} ELSE link_system_crypto_z(e, t)),
               musl_dependency_lib_dirs(e, d))

\* The end of main.
link(e, d, t) ==
  CASE use_shared(e) -> link_local_shared(e, d, t)
    [] ~use_shared(e) /\ e.target = "macos" ->
         Line(TdArchives("force_load") \cup link_system_crypto_z(e, t) \cup Dylibs({"c++"}), {})
    [] ~use_shared(e) /\ musl_static_tdlib(e) -> link_unix_static_gnu_with_stdcxx(e, d, t)
    [] OTHER ->
         Line(TdArchives("archive") \cup link_system_crypto_z(e, t) \cup Dylibs({"stdc++"}), {})


-----------------------------------------------------------------------------
VARIABLES
  disk, tools,  \* what the prefixes hold, and the toolchain
  target,       \* of all builds: each target has trees of its own
  tree,         \* the trees, by their segment
  pc, env, line, left,  \* of the build of each profile; left: not yet installed
  script,       \* Cargo's record of the last script run of a profile
  builds        \* builds begun

builds_vars == <<pc, env, line, left>>
vars == <<disk, tools, target, tree, pc, env, line, left, script, builds>>

Stages == {"idle", "configure", "install", "emit", "link"}
DefinitionsType ==
  [static_crt : {"", "OFF"}, crosscompiling : {"", "OFF"}, openssl : Roots \cup {Unset},
   use_static_libs : {"", "ON"}, zlib_library : {<<>>} \cup (Roots \X Subs)]
Blank == [static_crt |-> "", crosscompiling |-> "", openssl |-> Unset,
          use_static_libs |-> "", zlib_library |-> <<>>]
NoLine == Line({}, {})
NoScript == [env |-> {}, line |-> NoLine]

\* A tree: CMake's cache, what each installed library was compiled with, and as history
\* the prefixes and cache ids it was configured for and the last build that did.
NoTree == [config |-> Blank, lib |-> [a \in Archives |-> {}], users |-> {}, last |-> {}]
User(e) == <<e.openssl, e.zlib, e.cache_id>>
TreeOf(p) == tree[td_cmake_cache_segment(env[p])]
IsLast(p) == TreeOf(p).last = {<<p, env[p]>>}
Installed(p) == \A a \in Archives : TreeOf(p).lib[a] # {}

Init ==
  /\ \E m \in Machines : disk = m.disk /\ tools = m.tools
  /\ target \in {e.target : e \in Envs}
  /\ tree = [s \in Segments |-> NoTree]
  /\ pc = [p \in Profiles |-> "idle"]
  /\ env = [p \in Profiles |-> {}]
  /\ line = [p \in Profiles |-> NoLine]
  /\ left = [p \in Profiles |-> {}]
  /\ script = [p \in Profiles |-> NoScript]
  /\ builds = 0

Goto(p, stage) == pc' = [pc EXCEPT ![p] = stage]
End(p) ==
  /\ Goto(p, "idle")
  /\ env' = [env EXCEPT ![p] = {}] /\ line' = [line EXCEPT ![p] = NoLine]
  /\ left' = [left EXCEPT ![p] = {}]

\* cargo build.  rerun-if-env-changed: in the environment of the last script run,
\* the script is not run and its link line stands.
Begin(p) ==
  /\ pc[p] = "idle" /\ builds < MaxBuilds
  /\ \E e \in {e \in Envs : e.target = target} :
       /\ env' = [env EXCEPT ![p] = e]
       /\ Goto(p, IF script[p].env = {e} THEN "link" ELSE "configure")
       /\ line' = [line EXCEPT ![p] = IF script[p].env = {e} THEN script[p].line ELSE NoLine]
  /\ builds' = builds + 1
  /\ UNCHANGED <<disk, tools, target, tree, left, script>>

\* Mutant of Configure: libraries that are installed are not built again.
ConfigureOnce(p) ==
  /\ pc[p] = "configure"
  /\ LET s == td_cmake_cache_segment(env[p])
         told == Definitions(env[p], disk)
         config == [k \in DOMAIN told |-> IF told[k] = Blank[k] THEN tree[s].config[k] ELSE told[k]]
     IN tree' = [tree EXCEPT ![s].config = config, ![s].users = @ \cup {User(env[p])},
                             ![s].last = {<<p, env[p]>>}]
  /\ left' = [left EXCEPT ![p] = {a \in Archives : TreeOf(p).lib[a] = {}}]
  /\ Goto(p, "install")
  /\ UNCHANGED <<disk, tools, target, env, line, script, builds>>

\* CMake keeps in its cache what it was told before and is not told again.
Configure(p) ==
  /\ pc[p] = "configure"
  /\ LET s == td_cmake_cache_segment(env[p])
         told == Definitions(env[p], disk)
         config == [k \in DOMAIN told |-> IF told[k] = Blank[k] THEN tree[s].config[k] ELSE told[k]]
     IN tree' = [tree EXCEPT ![s].config = config, ![s].users = @ \cup {User(env[p])},
                             ![s].last = {<<p, env[p]>>}]
  /\ left' = [left EXCEPT ![p] = Archives]
  /\ Goto(p, "install")
  /\ UNCHANGED <<disk, tools, target, env, line, script, builds>>

\* cmake --build --target install, one library at a time.  It ends well only if the
\* libz.a that CMake was told of is there.
Install(p) ==
  /\ pc[p] = "install"
  /\ \/ \E a \in left[p] :
          LET s == td_cmake_cache_segment(env[p])
          IN /\ left' = [left EXCEPT ![p] = @ \ {a}]
             /\ tree' = [tree EXCEPT ![s].lib[a] = {TreeOf(p).config}]
             /\ UNCHANGED pc
     \/ /\ left[p] = {}
        /\ LET z == TreeOf(p).config.zlib_library IN z # <<>> => Has(disk, z[1], z[2], "z")
        /\ Goto(p, "emit")
        /\ UNCHANGED <<left, tree>>
  /\ UNCHANGED <<disk, tools, target, env, line, script, builds>>

\* cmake::Config::build panics when CMake or its build fails.
CMakeFails(p) ==
  /\ pc[p] \in {"configure", "install"}
  /\ End(p)
  /\ UNCHANGED <<disk, tools, target, tree, script, builds>>

\* The rest of main: without tdlib-install/lib, or when no line can be written, the
\* script fails and Cargo will run it again.
Emit(p) ==
  /\ pc[p] = "emit"
  /\ LET l == link(env[p], disk, tools)
     IN IF tools.libdir # "lib" \/ l.panic \/ (~use_shared(env[p]) /\ ~Installed(p))
        THEN End(p) /\ UNCHANGED script
        ELSE /\ line' = [line EXCEPT ![p] = l]
             /\ script' = [script EXCEPT ![p] = [env |-> {env[p]}, line |-> l]]
             /\ Goto(p, "link")
             /\ UNCHANGED <<env, left>>
  /\ UNCHANGED <<disk, tools, target, tree, builds>>

\* rustc's linker reads the libraries as they are now.
LinkStep(p) ==
  /\ pc[p] = "link"
  /\ End(p)
  /\ UNCHANGED <<disk, tools, target, tree, script, builds>>

\* Ctrl-C at any time: what was configured and installed stays.
Kill(p) ==
  /\ pc[p] # "idle"
  /\ End(p)
  /\ UNCHANGED <<disk, tools, target, tree, script, builds>>

Finished ==
  /\ builds = MaxBuilds /\ \A p \in Profiles : pc[p] = "idle"
  /\ UNCHANGED vars

Next ==
  \/ \E p \in Profiles :
       \/ Begin(p) \/ Configure(p) \/ Install(p) \/ CMakeFails(p)
       \/ Emit(p) \/ LinkStep(p) \/ Kill(p)
  \/ Finished

Spec == Init /\ [][Next]_vars

-----------------------------------------------------------------------------
Libs == {"ssl", "crypto", "z", "zstd", "c", "m", "dl", "pthread", "c++", "stdc++",
         "gcc", "gcc_eh", "tdjson"} \cup Archives
Hows == {"dylib", "static", "archive", "force_load", "rpath", "copy"}
Places == {<<>>} \cup (Roots \X Subs)
LineType == [panic : {FALSE}, items : SUBSET [lib : Libs, how : Hows, at : Places],
             search : SUBSET Places]

\* Every variable is of its kind; CMake is never told of a zlib in no prefix.
TypeOK ==
  /\ disk \subseteq Files /\ tools \in ToolchainType /\ target \in Targets
  /\ \A s \in Segments :
       /\ tree[s].config \in DefinitionsType
       /\ \A a \in Archives : tree[s].lib[a] \subseteq DefinitionsType
  /\ \A p \in Profiles :
       /\ pc[p] \in Stages
       /\ IF pc[p] = "idle" THEN env[p] = {} ELSE env[p] \in Envs
       /\ left[p] \subseteq Archives
       /\ \A l \in {line[p], script[p].line} :
            /\ DOMAIN l = {"panic", "items", "search"} /\ ~l.panic
            /\ \A i \in l.items : i.lib \in Libs /\ i.how \in Hows /\ i.at \in Places
            /\ l.search \subseteq Places
  /\ builds \in 0..MaxBuilds

\* What rustc links is a TDLib configured as the environment asks, even when Cargo did
\* not run the script again.  Whatever builds shared the tree before, with other
\* prefixes or cache ids, ended well, failed or killed: if no other build configured it
\* after the one that is linked, all its libraries were compiled as one configuration
\* that has everything this environment tells CMake.  What it does not tell may be left
\* of other builds, unless all that ever configured the tree have the same
\* OPENSSL_ROOT_DIR and ZLIB_ROOT and none has TDLIB_CMAKE_CACHE_ID: then the
\* libraries are just as told, also with others configuring at once (build.rs:9-14).
LinksItsOwnTdlib ==
  [][\A p \in Profiles : LinkStep(p) =>
       LET told == Definitions(env[p], disk)
           at == TreeOf(p)
       IN /\ IsLast(p) =>
               /\ \A a \in Archives : at.lib[a] = {at.config}
               /\ \A k \in DOMAIN told : at.config[k] = told[k] \/ told[k] = Blank[k]
          /\ at.users = {User(env[p])} /\ env[p].cache_id = "" =>
               \A a \in Archives : at.lib[a] = {told}]_vars

Linking == {p \in Profiles : pc[p] = "link"}
Named(p) == {i.lib : i \in line[p].items}

\* With the musl-static variant and TDLIB_LINK_SSL_STATIC=1 (and no
\* TDLIB_LINK_SHARED) nothing is linked as a shared library (build.rs:24-25).
StaticIsStatic ==
  \A p \in Linking :
    musl_static_tdlib(env[p]) /\ env[p].ssl_static = "1" /\ ~use_shared(env[p])
      => \A i \in line[p].items : i.how \in {"static", "archive"}

\* A line that is linked names what TDLib needs on that target: OpenSSL, zlib, the C++
\* runtime, and zstd when it was compiled in, with two exceptions that are build.rs's
\* own: where nm cannot be run nothing is known of zstd (build.rs:445-449), and the
\* static musl line silently leaves out a libzstd.a it does not find (544-546).
NeedsAreNamed ==
  \A p \in Linking :
    LET e == env[p]
        static == musl_static_tdlib(e) /\ ~use_shared(e) /\ e.ssl_static = "1"
    IN /\ {"ssl", "crypto", "z"} \subseteq Named(p)
       /\ e.target \in {"linux-gnu", "linux-musl"} => "stdc++" \in Named(p)
       /\ e.target = "macos" => "c++" \in Named(p)
       /\ tools.nm /\ tools.zstd /\ e.target # "windows-msvc" =>
            \/ "zstd" \in Named(p)
            \/ static /\ musl_find_static_archive(e, disk, "zstd") = <<>>

\* The libz.a on a static line is the one CMake was told to compile TDLib against,
\* unless CMake was told none (OPENSSL_ROOT_DIR is unset), a build with other prefixes
\* configured the tree afterwards, or both prefixes hold one: the link searches
\* OPENSSL_ROOT_DIR first, CMake is sent to ZLIB_ROOT.
ZlibIsTheConfiguredOne ==
  \A p \in Linking : \A i \in line[p].items :
    LET e == env[p]
        Holds(r) == \E s \in Subs : Has(disk, r, s, "z")
    IN /\ i.lib = "z" /\ i.how = "archive" /\ e.openssl # Unset
       /\ IsLast(p) \/ TreeOf(p).users = {User(e)}
       => \/ i.at = TreeOf(p).config.zlib_library
          \/ e.zlib \notin {Unset, e.openssl} /\ Holds(e.openssl) /\ Holds(e.zlib)

=============================================================================
