----------------------------- MODULE MCTdBuild -----------------------------
EXTENDS TdBuild, TLC

CONSTANTS dev, release, tdjson, tdcore, opt, opt2, musl_local, unset

MCProfiles == {dev, release}
MCSymmetry == Permutations(MCProfiles) \cup Permutations({tdjson, tdcore})
MCRoots == {opt, opt2, musl_local}

Env(tgt, variant, id, o, z, shared, ssl) ==
  [target |-> tgt, variant |-> variant, cache_id |-> id, openssl |-> o, zlib |-> z,
   shared |-> shared, ssl_static |-> ssl]

\* The matrix of the release workflow, and what a developer may set.
MCEnvs ==
  {Env("linux-gnu", "default", "", o, unset, "", "") : o \in {unset, opt}}
  \cup {Env("linux-gnu", "default", "", opt, unset, "1", "")}
  \cup {Env("macos", "default", "", opt, unset, shared, "") : shared \in {"", "1"}}
  \cup {Env(tgt, "default", "", unset, unset, "", "") : tgt \in {"windows-msvc", "freebsd"}}
  \cup {Env("linux-musl", "default", "", o, unset, "", "1") : o \in {unset, opt}}
  \cup {Env("linux-musl", "musl-static", "", o, z, "", "1") : o \in {unset, opt}, z \in {unset, opt2}}
  \cup {Env("linux-musl", "musl-static", "", opt, unset, "", ""),
        Env("linux-musl", "musl-static", "own", opt, unset, "", "1"),
        Env("linux-musl", "default", "own", opt2, unset, "", ""),
        Env("linux-musl", "musl-static", "", opt, unset, "1", "1")}

Full(root, sub, stems) == {[root |-> root, sub |-> sub, stem |-> s] : s \in stems}
MCDisks ==
  {Full(musl_local, "lib", {"crypto", "ssl", "z"}),
   Full(opt, "lib64", Stems),
   Full(opt, "lib", {"crypto", "ssl"}) \cup Full(opt2, "lib64", {"z"}),
   Full(opt, "lib", {"crypto", "ssl", "z"}) \cup Full(opt, "lib64", {"z"}) \cup Full(opt2, "lib", {"z", "zstd"})}

AllTools == [nm |-> TRUE, zstd |-> TRUE, stdcxx |-> TRUE, dll |-> TRUE, libdir |-> "lib",
             self_contained |-> {"c", "m", "pthread"}]
Machine(d, t) == [disk |-> d, tools |-> t]
MCMachines ==
  {Machine(d, AllTools) : d \in MCDisks}
  \cup {Machine(Full(opt, "lib64", Stems), t) :
          t \in {[AllTools EXCEPT !.zstd = FALSE, !.self_contained = {"c", "m"}],
                [AllTools EXCEPT !.nm = FALSE, !.dll = FALSE, !.stdcxx = FALSE],
                [AllTools EXCEPT !.libdir = "lib64"]}}
MCArchives == {tdjson, tdcore}
=============================================================================
