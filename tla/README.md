# Verification of tg-proxy-check

`tg-proxy-check` (Rust) takes a Telegram proxy link, drives one TDLib client
through its JSON interface (`td_send` / `td_receive`), registers the proxy
(`addProxy`), measures it (`pingProxy`), and, for an MTProto proxy in a logged-in
`--auth-session`, looks for the channel the proxy sponsors. These modules model
that conversation, TLC checks them on small instances, and TLAPS proves their safety
properties for every value of the constants. Two more groups of modules are
about how the program is made: the build script, which compiles TDLib in trees that
builds share, and the workflow that releases it.

Paths below are relative to the root of the repository; `tdlib_live.rs` is
`src/tdlib_live.rs`.

## 1. Inventory

| component | state it keeps | operations | interacts with |
|---|---|---|---|
| probe session (`tdlib_live.rs:214-513`, `897-1145`) | locals of `probe_proxy`: `set_params_sent`, `add_proxy_extra`, `ping_extra`, `interactive_proxy_registered`, `authorization_state`, `ping_result`, the deadline; the process-wide `EXTRA_COUNTER` | set-up, main receive loop, `handle_auth_state`, `try_start_proxy_ping`, `on_add_proxy_response`, `send_ping_with_proxy`, login prompts (`read_auth_line`), `promo_and_subscription_after_ping`, `wait_for_authorization_ready`, `send_close` | TDLib (requests out, one FIFO of lines in), the user at stdin, the clock, the sponsor scan |
| sponsor scan (`tdlib_live.rs:608-897`) | the list of chats, extras of the open `getChat`s, what was found | `run_mtproto_sponsor_flow`, `wait_rpc_ok`, `wait_chats_ids`, `fetch_my_user_id`, `fetch_am_i_member` | TDLib, the deadline of the probe |
| TDLib log capture (`tdlib_live.rs:26-52`, `233-246`, `454-457`, `1106-1111`, `1141-1145`) | `TD_LOG_LINES` (process-wide, at most 256 lines), the callback installed in TDLib | `td_log_cb` on TDLib's threads, clear, copy, install and remove | successive probes of one process, TDLib's threads |
| tdjson FFI (`src/tdjson_sys.rs`) | none | `send`, `receive_line`, `execute_sync`, `create_client_id` | TDLib |
| run and exit codes (`src/lib.rs`, `cli.rs`, `error.rs`, `tdlib_client.rs`, `main.rs`) | none between runs | resolve the command line and environment, parse the link, probe, render, choose the exit code | everything above |
| reports and rendering (`src/output.rs`) | none | `ProbeReport::from_probe_failure`, `interpret_latency`, `render` (default, verbose, JSON), `scrub_tdlib_log_line` | run |
| proxy link parser (`src/proxy_link.rs`) | none | `parse_proxy_link` | run |
| TDLib source and cache (`build.rs`) | `target/tdlib-build-cache`: tarball, extracted tree, stamp; a CMake and install tree for each target and segment; Cargo's record of the last run of the script | `resolve_td_source`, `download_file`, `verify_tarball`, `td_cmake_cache_segment`, the CMake definitions, the five ways of linking | builds of other profiles, killed builds, CMake, Cargo, rustc |
| release scripts and workflows (`scripts/`, `.github/`) | workflow artifacts, `actions/cache`, the releases of the tags and of `tdlib-prebuilt` | `release.yml` (validate, prepare, build, publish), `tdlib-prebuilt.yml`, fetching, readiness test, static check, packaging | GitHub Actions, the build script |
| TDLib (`third_party/td`, an empty submodule) | the client | external | all of the above |
| generated CMake tree (`CMakeFiles/`, `td/`, `tdutils/`, `sqlite/`, ...) | - | output of a configure run that was committed; no logic of the program | - |

### Hard behaviours, and what correctness means for each component

* **Probe session.** Four parties interleave: the thread, TDLib (whose threads
  answer at any time, in any order, or never), the user and the clock. TDLib
  reports a state both as an update and as the direct answer to
  `getAuthorizationState`, may leave and regain `Ready` around an open `addProxy`,
  and shares its one output queue among all the clients of the process, so lines
  of a client whose `close` was given up after 3 s reach the next probe. Correct
  means: each of `setTdlibParameters`, `addProxy`, `pingProxy` is sent at most
  once; the ping follows the registration; no recorded state is left unserved
  (the loop would wait for a line that never comes); every verdict is due to what
  TDLib told *this* client or to the clock; every exit closes the client, last
  and once; and the deadline ends the probe.
* **Sponsor scan.** Many requests are open at once, answered in any order, some
  refused, some never; the deadline may pass between any two; the sponsor may
  change meanwhile. Correct means: "no" only after every listed chat was shown to
  be unmarked, "yes" only for a channel TDLib showed this client as the sponsor,
  `joined` only about that channel, "unknown" only with a cause.
* **Log capture.** A callback on foreign threads takes a process-wide lock with
  `try_lock`, the buffer is bounded, and it outlives a probe. Correct means: never
  more than 256 lines, no blocking, and no line of an earlier probe in a report.
* **Run and reports.** Standard output may fail at any line, and a failed probe is
  reported too. Correct means: the exit code, the verdict and the diagnostics tell the
  same story, and a rejected command line never reaches TDLib.
* **Link parser.** A pure function; boundaries are the port, the lengths of the
  MTProto secret and the repeated parameters.
* **Build script.** Builds of several profiles share `source/<commit>` and the install
  trees, may run at once and be killed between two steps, and Cargo skips the script
  when the environment looks the same. Correct means: a source tree that is used was
  unpacked completely from a tarball whose hash was verified; what rustc links is a TDLib
  configured as the environment asks; the link line names what that TDLib needs, in a
  static form where a static program was asked for.
* **Release workflows.** A job graph over a cache, prebuilt trees and a tag that may be
  moved. Correct means: TDLib is compiled once for each group, what succeeded is
  published and nothing else, and archives of another commit do not come into a release
  without a cause.

The hazards this list gives, each at its line, are in `PROJECT.json`.

## 2. Modules

| module | what it is |
|---|---|
| `TdJson` | vocabulary of the JSON interface: authorization states, requests, `@extra` tags, lines, `client_matches`, `note_auth_from_value` |
| `ProbeSession` | `probe_proxy` with TDLib, user and clock as its environment |
| `ProbePromise` | abstract specification of one probe: idle, adding, added, pinging, measured, returned |
| `MCProbeSession` | small instances of `ProbeSession` |
| `ProbeSession_proofs` | theorems about `ProbeSession` |
| `SponsorScan` | `run_mtproto_sponsor_flow` with TDLib and the clock as its environment |
| `MCSponsorScan` | small instances of `SponsorScan` |
| `SponsorScan_proofs` | theorems about `SponsorScan` |
| `LogCapture` | the log buffer of the process, shared by TDLib's threads and successive probes |
| `MCLogCapture` | small instances of `LogCapture` |
| `LogCapture_proofs` | theorems about `LogCapture` |
| `TdSourceCache` | `resolve_td_source` of `build.rs`, for builds of several profiles that may be killed at any step |
| `MCTdSourceCache` | a small instance of `TdSourceCache` |
| `TdSourceCache_proofs` | theorems about `TdSourceCache` |
| `ProxyLink` | `parse_proxy_link` and `redact_sensitive_query_in_link` |
| `MCProxyLink` | links at the bounds, for `ProxyLink` |
| `ProxyLink_proofs` | theorems about `ProxyLink` |
| `TdBuild` | the rest of `build.rs`: install trees, CMake definitions, link lines |
| `MCTdBuild` | environments, prefixes and toolchains for `TdBuild` |
| `TdBuild_proofs` | theorems about `TdBuild` |
| `Release` | `release.yml` and `tdlib-prebuilt.yml` over several runs |
| `MCRelease` | a small instance of `Release` |
| `Release_proofs` | theorems about `Release` |
| `RunFlow` | `run`: command line and environment to exit code and output, with the reports |
| `MCRunFlow` | the latencies at the bounds of the bands, for `RunFlow` |
| `RunFlow_proofs` | theorems about `RunFlow` |

How they fit together: `RunFlow` has the parser and the probe as one step each, whose
results are those of `ProxyLink` and `ProbeSession`; `ProbeSession` has the sponsor scan as
one step, whose results are those of `SponsorScan`; `ProbeSession` implements
`ProbePromise`. `TdSourceCache` ends where `TdBuild` begins (`using`), and `Release` has a
whole build as one step (`CargoBuild`). `LogCapture` runs beside `ProbeSession`, of which it
keeps only where the buffer and the callback are touched.

### ProbeSession

`pc` says where the thread is. The code is single-threaded between two calls that
wait, so one action is everything the thread does from one return of `td_receive`
(or of the prompt) to its next wait:

| `pc` | in the code |
|---|---|
| `start` | `probe_proxy` up to `td_create_client_id` |
| `loop`, `receiving` | the main loop, between two iterations and inside `td_receive` |
| `stdin` | `read_auth_line`, blocked in `read_line` |
| `waitReady`, `waitReadyReceiving` | `wait_for_authorization_ready` |
| `scan`, `scanning` | `run_mtproto_sponsor_flow`, seen from outside |
| `closing`, `closeReceiving` | `send_close` |
| `done` | `probe_proxy` has returned `result` |

"loop" and "receiving" are two points because the clock is read between them: the
code looks at the deadline, enters `td_receive`, and comes back with a line even if
the deadline passed meanwhile. Both orders matter to the verdict.

A line is handled by one action per arm: `OwnState` is `client_matches` followed by
`note_auth_from_value`, which records the state before any arm runs; the arms of
`handle_auth_state` are `SetParameters`, `Prompt`, `PromptTooLate`,
`StartBeforeLogin`, `StartWhenReady`, `PingWhenReady`, `IgnoreAuthState`; answers
are `OnFatalError`, `OnPingError`, `OnAddedProxy`, `OnSeconds`, `OnBadSeconds`; a
line no arm acts on is `SkipLine`. `td_shutdown_session` is part of every action that
leaves the loop, because the code calls it before it returns.

TDLib is external. `TdAnswer` answers an open request with success or error, at most
once, at any time, in any order, or never. `TdReport` changes TDLib's authorization
state and says so; it needs accepted parameters (or a `close`) to leave
`WaitTdlibParameters`, and `Closed` is final. `TdNoise` delivers lines of an older
client, updates the code does not look at, and bytes that are not JSON. (TDLib does
not send the last; the code has an arm for it, so the model has too.)

Abstractions: `auth_states_seen`, the texts of errors and the number of seconds are
left out; an `@extra` is the request's name and the value of the counter (the wall
clock in the middle of the tag adds no uniqueness); a state without an arm of its own
is `Other`; the failures of `serde_json::to_string` and `CString::new`
on requests the code builds itself cannot happen and are left out. The head comment of
`tdlib_live.rs` (line 7) lets the sequence also start after a successful
`checkDatabaseEncryptionKey`; no code does that, and there is no action for it. A line without an `@client_id` is
accepted by the code (`client_matches`); TDLib tags all its lines, so the environment
sends none.

### SponsorScan

`step` is the request the flow waits for, `receiving` whether it is inside
`td_receive`, `pending` the extras of the open `getChat`s. `ScanLine`,
`ScanRefused` and `ScanDone` are the scan loop; `StopAsking` is the `?` by which
`fetch_my_user_id` and `fetch_am_i_member` give up on the first silent 500 ms slice,
where the other waits continue (`KeepWaiting`). `TdMark` lets the sponsor
appear, change and vanish at any moment, and `told` remembers which chats TDLib
ever showed this client as sponsored. The flow starts with the deadline passed or
not, as it may when called. A `chatMemberStatusRestricted` counts as joined, as in
the code. In `ProbeSession` the flow is one summary step (`ScanStart`,
`ScanEnd`) that sends requests of its own, consumes any number of lines and
comes back; neither changes a variable of the other component except the inbox and
the counter.

### LogCapture

`lines` is `TD_LOG_LINES`, each line abstracted to the probe during which TDLib logged
it, the thread that did, and its number; `taken` remembers every line taken down since
the buffer was cleared. `Enter`, `Drop` and `Push` are the two outcomes of `try_lock` in `td_log_cb` and
what follows the first; `Clear`/`SkipClear` and `Copy`/`SkipCopy` the same on the
side of the probe. The lock is modelled because both sides give up when it is
taken: a callback loses its line, a probe its clear or its copy. A probe that ends in
`TdlibInit` or `Internal` carries no lines (`from_probe_failure`), so its copy is
skipped. A probe returns on three ways: at once when `td_execute` fails, before anything
was installed (`Begin`); by `LogCallbackGuard` alone when it fails before there is a client
(`unwinding`, `DropGuard`); and otherwise by `td_shutdown_session` (`Shutdown`), which takes
the callback away before it sends `close`, and the guard after it. A thread of TDLib that was given the
callback may still run it after the callback was taken away: TDLib makes no promise
about that.

### TdSourceCache

Cargo locks a target directory for a profile, so the builds of one profile follow one
another and those of a debug and a release profile may meet in `source/<TD_COMMIT>`, which
they share (README.md:115). Each step that
touches the disk is an action, so `Kill` and the steps of another build can fall between
any two: entries are removed and files unpacked one by one, a download is partial until
it ends, and `fs::write` creates the stamp (`empty`) before it fills it (`path`). The
result of `remove_dir_all` is ignored by the code, so `RemoveEnd` may leave anything. A
stamp may also name a path that does not exist (`elsewhere`), when the target directory
was copied. The looks at the stamp (is it a file, what does it say, is there a
`CMakeLists.txt`) are one step; a build under which another one takes the directory away
may panic there or at any later `expect` (`TakenAway`).

Nothing in the code keeps two builds apart. `met` remembers, build by build, which of those
under way worked in the cache while another was at work there; a build that is killed, or
the next one of its profile, starts afresh. What two builds do to each other is anything
(`TakenAway`, the alternatives in `EndDownload` and `WriteStamp`). What they leave to others
is not: as long as those that met come to their end, the last one that removed anything
also unpacked everything. `spoiled` remembers that one of them did not: it was killed or
panicked at its work. The cache may then hold a stamp beside an incomplete tree, and later
builds, alone in it, reuse that tree (`build.rs:306-312`). For example: dev has created the stamp and
not filled it, release finds no usable stamp and begins to remove, dev fills the stamp,
release removes one file and is killed. It ends when a build alone in the cache has emptied
it or filled it again. `UsedTreeIsComplete` excepts this state, `PanicHasCause` does not
need to. A crash of the machine, after which files may
be shorter than they were written, is not modelled.

### TdBuild

An environment is a record of what `main` reads: target, whether the variant names
musl-static, `OPENSSL_ROOT_DIR`, `ZLIB_ROOT`, `TDLIB_LINK_SHARED`,
`TDLIB_LINK_SSL_STATIC` and `TDLIB_CMAKE_CACHE_ID`. `td_cmake_cache_segment` says which
tree it gets; `Definitions` what CMake is told (what all builds tell it alike is left
out); `link` and the operators below it what `main` prints for rustc, as a set of libraries,
each with how it is named and where, and a set of search directories. The order of the
libraries is left out. `disk` and `tools` say which archives the
prefixes hold and what the toolchain can do; they do not change while builds run.

A build is `Begin`, `Configure`, `Install` (one library at a time), `Emit`, `LinkStep`; CMake
may fail and a build may be killed anywhere. CMake keeps in its cache what an earlier
build told it (`Configure`). `Begin` skips the script when the profile's last script run
had the same environment, as `rerun-if-env-changed` asks: its link line is then used
again, and rustc reads the archives as they are at that time. A tree remembers which
prefixes and cache ids it was configured for (`users`, history): trees are shared by all of
them, because only target, variant and cache id are in the name. The DLL copied by
`copy_tdjson_dll_next_to_exe` is an item of the line (`copy`). It also remembers which
build, in which environment, configured it last (`last`, history), on which the stronger
half of `LinksItsOwnTdlib` turns (`IsLast`).

### Release

`run`, `job`, `work` and `artifact` are GitHub's: the stage of each run, the state of each
job, the trees on its runner, and what `prep-tdlib` hands to the rows. A tree is absent,
unpacked in part or whole, for each value of `TD_COMMIT`. `PrepBuild` is `fetch-tdlib-prebuilt.sh`, the restored
cache over it, `tdlib-cmake-install-ready.sh`, and `cargo build` if that says no;
`LegBuild` the cache, the prepared tree over it, and `cargo build` in any case. An entry of
`actions/cache` is written once for a key, by a job that succeeded without an exact hit;
another entry of the group is restored when the key is not found. Entries belong to a ref
and are seen by runs of that ref and those of the branch by all; those of the own ref come
first (`Entries`). `Queue`, `GroupFree`: a
ref has one run at work and one waiting, and a newer one replaces the one that waits.
The publication takes what the download of the archives brought. Neither a download that
fails in whole or in part (`continue-on-error`, `release.yml:257`) nor a failed upload fails
the job; both only warn (288-291), and without a file nothing is uploaded (270, 279). So
`Upload` publishes any subset of what succeeded, removes the old archive first where it is
to be replaced, and remembers the rest in `lost` (history); the job then ends well
(`Publish`) or fails for another reason (`PublishFails`). A run that ended well and whose
jobs all succeeded has nothing to re-run.
`Rerun` is GitHub's "re-run failed jobs", which keeps the commit of the run wherever the
tag is now. `Pack` is `tdlib-prebuilt.yml` as one step between the runs; it starts a
tree from nothing rather than from the cache.

### ProxyLink

A link is what `Url::parse` (external) splits it into: scheme, host, path and a sequence
of parameters. A value is its length, whether it has control characters, and what
`str::parse::<u16>` sees in it (`NaN` for no number at all; `65536` is a number that does
not fit). Keys are given by their lower-case name and a flag for capitals, so that
`query_pairs_map` and the redaction, which compare them in two different ways, can be told
apart. An absent parameter and an empty one are the same to all readers of the map
(`filter(!is_empty)`, `None | Some("")`) and are one value, `Empty`. `Checks` is the
sequence of the parser's early returns in their order; the first that fails gives the
error. Server names, secrets and so on have no further content: two values that differ
in length stand for two different texts.

### RunFlow

`Reject`/`Resolve` are `ResolvedCli::from_env`, `BadLink`/`GoodLink` the parse,
`probe_proxy` the probe (with and without the feature `tdlib`), `RenderReport` and
`RenderFailure` the two calls of `render` with the choice of the exit code that follows
each. `report` is a `ProbeReport`; `gathered` remembers the authorization states and the log
that the probe had when it ended. The three renderers are sequences of lines, each its
name and the part of its value that differs between reports; standard output may stop
before any of them (`Written`). What the sponsor scan may say is `ScanResults`; the
latencies a ping may measure are a constant, in the run those at the bounds of the bands. A `--timeout` too large to be added to the
present time makes `probe_proxy` panic (`DeadlineOverflows`), with exit code 101. So does
an error or a prompt that standard error does not take: `eprintln!` comes before the exit
code is returned (`lib.rs:21`, `29`, `67`; `Complain`), and `eprint!` prints the prompts of
`--auth-session` (`tdlib_live.rs:183`; `PromptPanics`, left out of `ProbeSession`). `stderr`
says which it was. An id is an
`i32` or not. clap rejects malformed
numbers and both ways of giving a link with exit code 2 before `from_env` looks at them,
and exits with 0 for `--help`; only the code of the repository is modelled.

## 3. Runs

| run | instance | checks |
|---|---|---|
| `probe` | all settings; 3 state reports, 1 noise line without `--auth-session`, inbox 2 (2.9 M states) | type, request, wake-up, verdict and close invariants, `ProxyOnlyWhenReady`, and the refinement `KeepsPromise` |
| `liveness` | all settings; 2 reports, 1 noise line, inbox 1 | `DeadlineEndsProbe` under `FairSpec` |
| `stdin_deadline` | violation | `TimeoutIsWallClockLimit`, of README.md:52 |
| `scan` | 2 channels and a group, 4 lists, cap 2, 1 mark change, 1 update or noise line, inbox 2 | the invariants of the scan and `DeadlineEndsScan` |
| `joined_given_up` | violation | `JoinedIsReported`, of README.md:78 |
| `log_capture` | 2 threads of TDLib, 3 probes, at most 3 lines a probe, a buffer of 2 | `TypeOK` (the cap and the lock), `LatestLinesKept`, `VerboseReportIsOwn`, `CallbackIsScoped` (5.6 M states) |
| `log_inherited` | violation | `NothingInherited`, of README.md:313 |
| `source_cache` | 2 profiles, 2 files, 3 kills, 2 faults (0.7 M states) | `UsedTreeIsComplete`, `PanicHasCause` |
| `links` | 4 schemes, 6 hosts, 4 paths; parameters absent, empty, at their bounds and beyond, one of them repeated in front or behind, two exchanged | `ConfigIsUsable`, `RejectionHasCause`, `OnlyFirstCounts`, `DisplayIsThisProxyRedacted` |
| `run_flow` | all inputs, 5 latencies, both outputs failing or not (0.6 M states) | `OutputAgreesWithExit`, `ExitTellsOutcome`, `ReportIsOneStory` |
| `td_build` | 2 profiles, 17 environments on 5 targets, 3 prefixes, 7 machines, 2 of TDLib's libraries, 3 builds (1.5 M states) | `StaticIsStatic`, `NeedsAreNamed`, `ZlibIsTheConfiguredOne`, `LinksItsOwnTdlib` |
| `release` | one group with two rows, a tag that is a version, one that is not, and the branch, 3 commits, 2 runs, 1 re-run, 1 run of `tdlib-prebuilt.yml` (2.5 M states) | `CompiledOnce`, `StaleArchiveHasCause`, `PublishesWhatSucceeded` |

What the properties say:

* `AtMostOnce` - one `setTdlibParameters`, one `addProxy`, one `pingProxy` per probe.
  The three guards that ensure it are in three functions, and both sources of a
  state (update and direct answer) reach them.
* `PingNeedsProxy` - no ping before TDLib has confirmed the registration.
* `NoLostWakeUp` - whenever the loop waits, the state it has recorded has been acted
  on. The delicate case is `addProxy` answered while TDLib is not `Ready`: the ping is
  then left to the next `Ready`.
* `VerdictJustified`, `ClosedBeforeReturn` - verdicts and early returns are due to
  this client's own lines; this is where lines of an older client would bite.
* `ProxyOnlyWhenReady` (action property) - a session sends nothing about the proxy
  unless the recorded state is `Ready`.
* `KeepsPromise` - `ProbeSession` implements `ProbePromise` under the mapping `Stage`,
  which reads the stage off the kept extras; in particular a ping that was measured
  is reported although the deadline passes during the promo phase or the close.
* `DeadlineEndsProbe`, `DeadlineEndsScan` - after the deadline the probe (unless
  blocked at a prompt) and the scan return, whatever TDLib does.
* `NoIsComplete`, `YesIsGenuine`, `UnknownHasCause`, `JoinedIsAboutSponsor` - each
  report of the scan is backed by the answers TDLib gave.
* `LatestLinesKept` - whatever threads and probe do to the buffer, it holds the latest
  lines taken down since it was cleared, and a report shows those of a thread in order.
* `VerboseReportIsOwn`, `CallbackIsScoped` - a verbose probe reports its own lines, and
  no thread of TDLib is given the callback outside such a probe, whichever of its three
  ways it returned, or while TDLib closes.
* `UsedTreeIsComplete`, `PanicHasCause` - about the builds that meet no other in the
  cache, whatever was killed, failed or met there before. CMake runs on a complete tree
  only, except while the damage of a build that met another and was killed or panicked
  has not been cleared (`spoiled`); and a build panics only for a fault of its own, without
  exception: what an earlier build left is never an obstacle.
* `LinksItsOwnTdlib` (action property) - about what rustc links, though the tree is shared,
  half-installed trees stay, CMake remembers, and Cargo skips the script. If the build was
  the last to configure its tree, whoever used it before: all libraries were compiled as
  one configuration, with everything this environment tells CMake. What it does not tell may
  be left of other builds (`OPENSSL_ROOT_DIR` and `ZLIB_ROOT` are not in the tree's name);
  if all who ever configured the tree have the same prefixes and no cache id, the libraries
  are exactly as told, also with other builds configuring at once.
* `StaticIsStatic`, `NeedsAreNamed` - a link line that is used names OpenSSL, zlib, the C++
  runtime and zstd as that TDLib needs them, and nothing shared in the static release form.
  Two cases of zstd are excepted, in which `build.rs` goes on without it: `nm` cannot be run
  (445-449), and the static musl line finds no `libzstd.a` (544-546).
* `ZlibIsTheConfiguredOne` - the zlib linked is the one compiled against, if this build
  configured the tree last or all that did have its prefixes. The two searches go through
  the prefixes in different orders, so when both prefixes hold a zlib they differ: that is
  excepted, and so is an unset `OPENSSL_ROOT_DIR`, with which CMake is told none.
* `CompiledOnce` - at most one job of a group compiles TDLib in a run, also with a
  fingerprint that was not bumped, a cache of other pins and a re-run. It excepts a
  prebuilt archive that was unpacked in part.
* `StaleArchiveHasCause` - an archive of another commit in a tag's release is there because
  the run of the tag's commit has not published, or published without this archive (its row
  failed, or it was lost on its way: the run may be green), or because an older run was
  re-run.
* `PublishesWhatSucceeded` - a run that ended well has published the rows that succeeded but
  for those lost in the download or the upload, which may be all of them; they stay until a
  later run or a re-run replaces them or fails to; and no row is published that failed or
  was found not to be static.
* `ConfigIsUsable`, `RejectionHasCause` - the parser is right in both directions: what it
  accepts TDLib can be asked for, and what it rejects has the fault the error names, in
  the parameter that counts.
* `OnlyFirstCounts` - dropping a repeated parameter or exchanging two different
  neighbours changes nothing.
* `DisplayIsThisProxyRedacted` - parser and redaction agree: the link that is shown is
  accepted again, as the same proxy, and wherever the parser takes a secret or password
  from, the shown link has the placeholder.
* `OutputAgreesWithExit`, `ExitTellsOutcome` - the verdict on standard output, the exit
  code and the end of the probe agree, also when the report cannot be written. Outside the
  codes README.md:88-95 lists is 101 alone, of a `--timeout` too long for the clock or of a
  standard error that did not take an error or a prompt (`2>&1 | head`); it tells nothing.
* `ReportIsOneStory` - interpretation, latency, sponsor and membership go together and with
  the exit code; a timeout still shows what was gathered; no line that should have been
  scrubbed is printed.

**Bounds.** Three state reports are enough for a state to be reported, left and
regained, with the direct answer to `getAuthorizationState` as a fourth source; two
lines in the inbox are enough for every order of a state and an answer, and for one
to be stale when the other is read; one noise line is enough for each kind, since
no noise line is remembered. TDLib reports one login state in the runs
(`MCReportedStates`): with a session the code treats the five alike, each leads to
a prompt and to a request without a tracked extra. A temporary database has no
session that could be `Ready`. In the scan, three chats and a cap of two give a list
that is shorter than, equal to and longer than the cap. A buffer of two lines is
filled and overrun by the three lines of one probe, and three probes put a quiet one
between two verbose ones. Three kills let a kill fall on a build that repairs what
another kill left, and two faults combine a failed removal with a failed download; two
profiles are as many as Cargo locks apart (a third adds no new kind of meeting). In
`td_build` three builds put a build of one profile between two of another; two libraries
give a tree that is installed in part. In `release` two runs and a re-run are
enough for a moved tag, a waiting run, and an old run that publishes last. The groups of
the workflow meet only in `AllPrepared`, and the gnu rows differ from the musl rows only in that they
are not verified, so one group with two rows is enough for the rest.

**Fairness.** `FairSpec` assumes that the thread keeps running when it can
(`WF_vars(Thread)`; there is one thread and it is never descheduled for good) and
that time passes (`WF_vars(PassDeadline)`, `WF_vars(PassCloseDeadline)`). Nothing is
assumed of TDLib or the user.

**Findings.** Three sentences of README.md are not true of the code, each shown by a run:
`--timeout` as "Wall-clock limit for the whole probe" (line 52; a prompt blocks past
it, `tdlib_live.rs:188`), "`getMe` +
`getChatMember` set `subscription.joined` when TDLib returns `chatMember`" (line 78;
one silent 500 ms slice drops it, `tdlib_live.rs:868`), and "so the next probe
in-process does not inherit state" (line 313; a probe without `--verbose` copies the
log lines of an earlier one into its report, `tdlib_live.rs:456`).

Read off the code while modelling it, without a run of their own:

* "After MTProto `pingProxy` success, runs sponsor detection" (README.md:53), but it runs
  after a failed ping too (`tdlib_live.rs:469`).
* "`api_id` must be a positive integer" (README.md:266), but any `i32` is taken
  (`cli.rs:84-87`, `107-112`).
* A `--timeout` of about 2^63 seconds or more panics (`tdlib_live.rs:221`), and so does an
  error that cannot be written to standard error (`lib.rs:21`, `29`, `67`), with an exit code
  that README.md:88-95 does not list. `ExitTellsOutcome` allows for both.
* "do not fail the job" is said of an empty download (`release.yml:255`), but
  `continue-on-error` (257) keeps the job green after a download that failed in part, too: a
  green run may have published some of its archives, and has no failed job to re-run.
* Two builds of different profiles may spoil the source cache for those after them
  (`build.rs:306-346`; see `TdSourceCache` in section 2).
* `OPENSSL_ROOT_DIR` and `ZLIB_ROOT` are not in the name of the tree (`build.rs:240-273`),
  though they change what CMake is told, and "only factors that change TDLib's CMake
  config" is said of the name (`build.rs:239`).
* "missing libcrypto.a under OPENSSL_ROOT_DIR or /musl-local" (`build.rs:436`), but
  `/musl-local` is searched only when neither variable is set (`build.rs:604`).
* `tdjson.dll` is copied to `target/<profile>` of the package, also when
  `CARGO_TARGET_DIR` or `--target` puts the program elsewhere (`build.rs:680`).
* "never both compile TDLib in one run" (`release.yml:177`), but a prebuilt tree that was
  unpacked in part counts as ready and is completed by every row
  (`fetch-tdlib-prebuilt.sh:16`, `tdlib-cmake-install-ready.sh:10`). `CompiledOnce` excepts it.
* "uploads whatever artifacts succeeded" (README.md:194), but when the preparation of one
  group fails the rows of the other are skipped as well (`release.yml:132`).

## 4. Proofs

TLC checks the small instances of section 3; TLAPS proves the following for every value of
the constants. Each invariant that a passing run checks is also a theorem, as are the two
action properties and the refinement. An inductive invariant was checked by TLC on the
instance of its run before it was proved. The pattern is the same everywhere: an invariant
`...Inv` that is a conjunction of named parts, one lemma for each shared step of the model,
one case for each action, and theorems that read the checked properties off the invariant.

| module | inductive invariant | theorems |
|---|---|---|
| `ProbeSession_proofs` | `TypeOK`, `ReqInv`, `SessionInv` | `TypeCorrect`, `RequestsCorrect`, `PingsTheRegisteredProxy`, `WakeUpsKept`, `VerdictsJustified`, `ClosesBeforeReturn`, `ProxyWaitsForLogin`, `PromiseKept` |
| `SponsorScan_proofs` | `ScanInv` | `ScanTypes`, `NoIsWellFounded`, `YesIsWellFounded`, `UnknownIsWellFounded`, `JoinedIsWellFounded` |
| `LogCapture_proofs` | `LogInv` | `LogCorrect`, `LogTypes`, `VerboseReportsAreOwn`, `CallbackStaysInProbe` |
| `ProxyLink_proofs` | `LinkInv` | `LinkCorrect`, `ResultsAreTyped`, `DisplayIsRedacted`, `RejectionsHaveCause`, `FirstOccurrenceCounts` |
| `RunFlow_proofs` | `FlowInv` | `FlowTypes`, `OutputAndExitAgree`, `ExitsAreExplained`, `ReportsTellOneStory` |
| `TdSourceCache_proofs` | `CacheInv` | `CacheTypes`, `CacheCorrect`, `PanicsHaveCause`, `OneProfile` |
| `TdBuild_proofs` | `BuildInv` | `BuildTypes`, `StaticStaysStatic`, `NoNeedIsForgotten`, `ZlibIsTheSame`, `OwnTdlibIsLinked` |
| `Release_proofs` | `ReleaseInv` | `ReleaseTypes`, `NoRowCompiles`, `StaleIsExplained`, `ArchivesAreOfSuccess` |

### ProbeSession

For any settings, any states TDLib may report and any bounds.

* `TypeOK` is inductive as it stands. One lemma for each shared step (`send_raw`, `Goto`,
  `td_shutdown_session`, `Deliver`), one for each group of actions.
* `AtMostOnce` and `PingNeedsProxy`: the guards look at options (`add_proxy_extra`,
  `ping_extra`), not at what was sent, so the two are not inductive. `ReqInv` adds: `Kept`,
  an option holds the extra of a request that was sent; `NotYet`, an option or flag that is
  clear means the request was never sent (for `addProxy` all three of `add_proxy_extra`,
  `ping_extra` and `interactive_proxy_registered` must be clear); `Progress`, the order of
  the stages; and `Mail`, a waiting line that looks like an answer to this client is one
  TDLib gave. `QuietStep` covers the steps that touch none of this; `AddReq` and `PingReq`
  the two that do.
* `NoLostWakeUp`, `VerdictJustified` and `ClosedBeforeReturn`: `SessionInv` adds `Place`,
  what the place of the thread says of the rest (no result while the session is open, a
  ping result exactly after the loop, a prompt only in a login state); `Farewell`, `close`
  is sent when the session is left and not before, and a waiting `Closed` of this client
  means TDLib has closed it; and `Measured`, a ping result is the answer of a ping. An
  error answer TDLib gave is known from `Mail` in `ReqInv`: lines of an older client fail
  `client_matches` or carry no extra of this one.
* `ProxyOnlyWhenReady` needs no more than `TypeOK`: only three steps send anything about
  the proxy, and each has the recorded state it leaves in its guard.
* `KeepsPromise`: the initial state maps to `idle`; every step of `Next` is a step of
  `ProbePromise` under `Stage` or leaves the stage alone. `Place` and `Progress` give the
  stage before and after.

### SponsorScan

For any chats, lists, cap and bounds. `ScanInv` follows one answer from the request to the
report: `Numbered`, the number in its extra tells a request from all others; `Answered`, an
answer of TDLib is about the chat that was asked for, and `told` knows it if it was marked;
`Delivered`, a waiting line of this client is such an answer or was pushed by TDLib;
`Asking`, what was found was shown, and the membership request names it; `Scanning`, every
chat of the list up to the cap was shown unmarked or its request is still open. When no
request is open, `Scanning` is `NoIsComplete`. That requests are answered in any order,
refused or left open does not matter to any part.

### LogCapture

For any threads, any size of the buffer and any number of probes and lines. `LogInv` has six
parts. `Typed` and `Locking` say who holds the lock and where its code is. `Latest` counts
how many of the lines taken down have been given up; it is `LatestLinesKept` with the lines
compared one by one, which the lemmas about `Append` and `Tail` speak of. `Numbered` is why a
report is in order: a thread has one line at a time, so what it is about to push comes after
all it has pushed, in the buffer as well as in the report. `Own` is why a verbose report is
its own: without a straggler, from the clear to the installation no callback runs, so what
the buffer holds afterwards belongs to this probe.

### ProxyLink

For any set of links: no bound on the number of parameters, their lengths or their order.
`LinkInv` says that the variables are functions of the link, so the work is in the lemmas
about the operators.

* `MinIsIn`: a set of naturals with a member has a least one. It is derived from the
  well-foundedness of finite sets under inclusion, because the induction theorems cannot be
  instantiated.
* `ChecksMean` turns the sequence of checks into the predicate `Accepted`, and
  `RedactedParams` says what the parser finds in a redacted link: from these `LinkCorrect`.
* `FirstErrorIs` and `FirstErrorInParts` say which check of a sequence made of parts gives
  the error, and `RejectionMeans` what each error says of the values; `StandsFirst` leads
  back from a value to the occurrence it was read from. The property is written with its
  limits as numbers, not with the constants the model checks with.
* `ParamIsFirst` characterises `query_pairs_map` without `Min`; with it `SameWithout` and
  `SameExchanged` show that the two changed queries have the same parameters, and
  `SameParams` that nothing else of the query is read.

### RunFlow

For every set of latencies. `FlowInv` says that before its end a run has no outcome, no
report, no output and no code (`Unknown`, `Underway`), that the report is the one its
outcome gives (`Probed`), and how the end follows from it (`Ended`). The properties are
about the last line that could be written and about what stands before it: `ReportsConclude`
shows for each of the three renderers that the verdict is the last line and no other line
is one, `TextIsLaid` where the states, the log and the interpretation stand in the verbose
text, `NamedLines` that a name determines its line.

### TdSourceCache

For any profiles, any set of files and any number of kills and faults. `CacheInv` says of a
build that met no other what each place may rely on (`Relied`): nobody else is at work, it
has an empty directory before the download and the pinned bytes after it unless it had a
fault of its own, and the tree is complete once it was searched. About builds that meet:
`Repaired` and `Covered` say that while the cache is not spoiled, a file that is missing
beside a good stamp is owed (`Owes`) by a build that is still at work. When none is at
work, none is owed: `UsedTreeIsComplete`. `OneProfile`: with one profile no two builds ever
meet, and the tree that is used is complete without any exception.

### TdBuild

For any environments, machines, libraries of TDLib and number of builds. `BuildInv`:
`Fresh`, a tree without users is blank; `Configured`, a tree with one kind of user has the
definitions of that user, and only libraries compiled with them; `Installing` and `Built`,
what a build between two steps may rely on; `Lined` and `Recorded`, a line that is about to
be linked, or that Cargo would use again without running the script, is what `link` gives for
that environment. `LinkHolds` says of a link line what holds for every environment and
machine, and gives `StaticIsStatic` and `NeedsAreNamed`; `SameUser` and `ZlibFound` relate two
environments that share a tree. About a tree that others use as well: `Owned` says of
the build that configured it last that the tree's configuration has all it told (`Told`),
and that the libraries it has already installed, after its end all of them, were compiled as
that configuration (`Whole`); `Rerun`, a build whose script runs has no older run of it to
fall back on. `LinksItsOwnTdlib` follows from `Owned`, and for trees of one user from
`Configured` and `Built`, in the state before the link step.

### Release

For any matrix of groups and rows, any tags and commits and any number of runs: the run of
TLC has one group, the theorems have none of its bounds. `ReleaseInv`: `Begun`, runs begin in
order; `Staged`, what the stage of a run says of its jobs; `Ordered`, two runs of a ref do
not overlap unless one is re-run; `Tagged`, the latest run of a tag is of its commit;
`Genuine`, an archive is of a row that succeeded, of a run of that tag; `Published`, what
succeeded and was not lost is there, or something of a later run or of a re-run, or nothing
because one of these lost its own; `Whole`, unless a prebuilt
tree was unpacked in part no tree anywhere is, so a row finds its TDLib ready and
`CompiledOnce` holds. `StaleArchiveHasCause` follows from `Published` and `Tagged` for the last
run of the tag (`LastRun`).

### Assumptions

Those named in the modules, and no others. `ProbeSession`: the settings are pairs of booleans,
reported states are authorization states. `SponsorScan`: channels are chats, lists are
sequences of chats, the cap is positive. `TdSourceCache`: the file that is looked for is one of
the tree. `LogCapture`: the thread of the probes is not one of TDLib's, and the buffer has room
for a line. `ProxyLink`: links are records of the stated type. `RunFlow`: latencies are
naturals. `TdBuild`: environments and machines are of their types, `/musl-local` is a prefix,
and zlib is not one of TDLib's own libraries. `Release`: rows belong to groups and are none,
and no tag is the branch. The bounds of all modules are naturals.

### Only model-checked

The liveness properties `DeadlineEndsProbe` and `DeadlineEndsScan`: fairness and `ENABLED` are
out of the prover's reach. The three violations of section 3 are counterexamples, which only
TLC gives.

## 5. Not modelled, and why

* The FFI's pointers and string lifetimes (`tdjson_sys.rs`): TLA+ has no memory. What the
  calls do is in the environments of `ProbeSession` and `LogCapture`.
* Wording, layout and JSON escaping of the output: nothing depends on them. Which field and
  which line a report has is modelled (`RunFlow`).
* TDLib itself beyond the lines it delivers, GitHub Actions beyond artifacts, caches,
  releases and the order of jobs, CMake beyond its cache of variables: external.
* The committed CMake tree: generated, and no part of the program reads it.
* Packaging, the script that builds the musl sysroot, local release scripts and `ci.yml`:
  commands in a row, stopped by the first one that fails.
* How `tar` and `remove_dir_all` of two builds interleave on one directory, beyond that each
  may panic, lose what it wrote or find what the other did: `TdSourceCache` claims nothing
  of a build while it meets another, only of those after it.
* In `ProbeSession`, a standard error that does not take a prompt: the panic ends the process
  without `close` (`RunFlow.PromptPanics` has the exit code).
* A crash of the machine, after which a file may be shorter than it was written.
* The sign of `api_id`, which the code passes to TDLib as it is.

## 6. Plan

Everything in the inventory that changes state and is not in section 5 has a module. What
is left:

1. The composition of `ProbeSession` with `SponsorScan` over one inbox and one counter, to
   replace the summary step. The two share nothing else; the state space is the product of
   the two environments, so the bounds of both would have to be smaller than now.
2. Proofs about that composition: with both invariants proved for any environment of lines,
   what is missing is that the lines each of the two leaves in the inbox are among those
   the environment of the other may produce.
