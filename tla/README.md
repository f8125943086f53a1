# pyq: a verification development in TLA+

pyq is a Rust command-line tool that answers questions about a Python code base
(who calls this, what does this name resolve to, what is dead, what does the
suite cover) from an index it keeps in `~/.pyq/cache/<root-hash>/`. This
directory holds TLA+ models of its core, the TLC configurations that check them
on small instances, and proofs that TLAPS checks for instances of every size.
Paths below are relative to the repository (`crates/...` is `src/crates/...`
seen from here).

- [Components](#components)
- [The modules](#the-modules)
- [Runs, bounds and fairness](#runs-bounds-and-fairness)
- [What is proved](#what-is-proved)
- [Disagreements found](#disagreements-found)
- [What is abstracted, and what is not modelled](#what-is-abstracted-and-what-is-not-modelled)
- [Plan](#plan)

## Components

Each verb is a process of its own: it indexes the tree, asks for the layers it
needs, prints one envelope and exits. There is no daemon. Processes (an agent
runs many at once) meet only in the files of the cache directory; everything
else is sequential within a process. What makes the program hard is therefore
time: the tree changes under a run, other runs replace the cache files, and
what is derived is stored under a key computed earlier.

| Component | Code | State | Operations | Interacts with |
|---|---|---|---|---|
| Blob files | `pyq-cli/src/cache.rs` 218-231, 505-521 | `parse.bin`, `graph.bin`, `ledger.bin`, temporary files | `read_bin`, `write_bin`, `clean` | every layer below; other processes |
| Parse cache | `cache.rs` 44-196, `walk.rs` | `parse.bin`: per file a stat, a hash and a `FileIndex` | `cached_index`, `indexed` | reads the tree; its fingerprint keys the two layers below |
| Graph cache | `cache.rs` 233-368 | `graph.bin`: a recording, its fingerprint, the hash of each file's index | `call_graph_with_progress`, `changed_files`, `file_import_adjacency` | parse cache; graph recording; ty |
| Graph recording | `pyq-resolve/src/graph.rs` 129-380, 629-902 | a `GraphRecording`: outgoing, incoming, resolve, supertypes by anchor | `record`, `record_incremental`, `compute_affected` | queries ty (`ty_backed.rs`) |
| Ledger cache | `cache.rs` 370-503 | `ledger.bin` | `ledger` | runs the suite; keyed by the parse fingerprint |
| Suite run and sidecar | `pyq-dynamic/src/lib.rs`, `sidecar/pyq_trace/*.py` | lines, shapes and effects collected in the pytest process; three output files | `drive`, pytest hooks, `sys.monitoring` callbacks | pytest, threads of the tests |
| Call-graph traversals | `graph.rs` 381-628 | the queue and the visited set of a walk | `closure`, `reachable_from`, `caller_index`, neighbours | replay of a recording |
| Import graph | `pyq-cli/src/graph.rs` | the stacks of a search | `build`, `tarjan_scc`, `cycles`, `extract_cycle` | `FileIndex` imports |
| Dead code | `deadcode.rs` | none | seeds, override edges, report, `dispatch_caveat` | traversals, hierarchy |
| Class hierarchy | `hierarchy.rs` | none | supers, subclasses, overrides | recording's supertypes |
| Unified sweep, ty resolver | `unified.rs`, `ty_backed.rs` | the covered set of a sweep | references, callers, definitions | index and ty |
| Static tests map | `tests_map.rs` | none | what pytest collects | traversals |
| Change coverage, effects fusion | `change_cov.rs`, `main.rs` 650-980 | none | the diff parser; joins with the ledger | git, ledger cache, call graph |
| Canonical helpers | `canonical.rs` | none | most used, untested, inventory | traversals, dead code, tests map |
| Mock targets | `mock.rs` | none | resolves `patch("a.b")` strings | index and ty |
| Extraction | `pyq-index/src/{extract,model}.rs` | none | `extract_file`, a visitor over one syntax tree | parse cache |
| Upgrade, channels, installer | `upgrade.rs`, `channel.rs`, `install.sh`, `release.yml` | the installed binary, `pyq.new`, the channel file; the releases | `upgrade`, `channel`, the workflow | GitHub releases |
| Command line, output | `main.rs`, `pyq-output`, `describe.rs` | none | parsing, rendering | every verb |

What makes each correct, and what makes it hard:

- *Blob files*: a reader never deserializes half a write; a writer publishes its
  own value; a death, a clean or a loss of power leaves a whole value or none.
  Hard: open, read, create, fill and rename are separate system calls of
  processes that know nothing of each other.
- *Parse cache*: a cached run gives what a plain parse of the tree gives. Hard: the
  stat and the read of a file are two steps, edits fall between them, two
  releases and two processes overwrite each other's entries, the fast path
  trusts a timestamp.
- *Graph recording*: a repaired recording is the recording from scratch. Hard:
  which answers of ty depend on which files, over any sequence of edits.
- *Graph cache*: a cached answer is the live one. Hard: ty reads the disk after the
  fingerprint was taken, and reads more than the fingerprint covers.
- *Ledger cache, suite run*: an observation is of the tree it is stored under and
  is attributed to the test that made it; the suite is run once per tree. Hard: the
  suite runs for minutes, pytest may die between two outputs, threads outlive their
  test, interpreters differ, runs fail.
- *Traversals, dead code, hierarchy, tests map, canonical, import graph, sweep*: each
  is an algorithm with a question it answers; the answer should be what the question
  means. Hard: nodes merged by name, cycles, names that mean several things, code that
  runs without being called, calls that ty does not see.
- *Upgrade*: a binary is replaced only by one that was published, never by an older
  one, and in the end by the one its channel offers. Hard: the canary release is replaced
  between two requests or its publication stops half-way, downloads are damaged, the
  channel file is written in place.

`PROJECT.json` lists, line by line, the hazards this comes down to and the
properties that cover each.

## The modules

| Module | Models | Lines that matter |
|---|---|---|
| `AtomicBlob` | the promise: a register with atomic put, clear and read | `cache.rs` 505-521 |
| `BlobStore` | `read_bin`, `write_bin`, `clean` system call by system call; implements `AtomicBlob` | `cache.rs` 219-231, 505-521 |
| `BlobStoreProofs` | theorems about `BlobStore` | |
| `ParseCache` | `cached_index` by several processes over an edited tree | `cache.rs` 44-196, `walk.rs` |
| `ParseCacheProofs` | theorems about `ParseCache` | |
| `GraphRecording` | `record_inner` and `compute_affected` against ty's answers | `graph.rs` 129-377, 629-676, 807-858 |
| `GraphRecordingProofs` | theorems about `GraphRecording` | |
| `GraphCache` | `call_graph_with_progress` by several processes over an edited tree | `cache.rs` 233-350 |
| `GraphCacheProofs` | theorems about `GraphCache` | |
| `SuiteRun` | one instrumented pytest run: `drive`, `observed_all`, the hooks, the collectors' callbacks | `lib.rs` 68-304, `pytest_plugin.py`, `coverage.py`, `ledger.py`, `shapes.py`, `main.rs` 917-978 |
| `SuiteRunProofs` | theorems about `SuiteRun` | |
| `LedgerCache` | `ledger` and the two verbs that answer from it, by several processes over an edited tree | `cache.rs` 370-503, `main.rs` 674-991 |
| `LedgerCacheProofs` | theorems about `LedgerCache` | |
| `ChangeCov`, `EffectsFusion` | the pure parts of these verbs | `change_cov.rs` 17-104, `main.rs` 690-834 |
| `Extract` | when a statement runs, as the visitor has it | `extract.rs` 103-113, 229-309, 430-462 |
| `Project` | what a static verb knows of a checkout: index, FQNs, what the recording kept of ty's answers | `graph.rs` 276-380, 427-628, `model.rs` |
| `Hierarchy`, `Deadcode`, `Canonical` | the rules of the classes, of what is entered without a call, of the overview | `hierarchy.rs`, `tests_map.rs`, `deadcode.rs`, `canonical.rs` |
| `CallGraph` | the two breadth-first walks, step by step | `graph.rs` 383-425, 474-526 |
| `ImportGraph` | import statements to edges; Tarjan's search, call by call; the cycle that is shown | `pyq-cli/src/graph.rs` |
| `Sweep` | `refs`, `callers`, `defs`: the sweep over the occurrences of a name | `unified.rs`, `ty_backed.rs` 139-182 |
| `Queries` | the static verbs, which drive all of these | `main.rs` 329-644, 1266-1452 |
| `QueriesProofs` | theorems about `Queries` and all that it drives | |
| `Upgrade` | the release workflow, `pyq upgrade`, `pyq channel` and `install.sh` | `upgrade.rs`, `channel.rs`, `install.sh`, `release.yml` |
| `UpgradeProofs` | theorems about `Upgrade` | |
| `MC...` | small instances | |

Modules build on each other as follows. `BlobStore` implements `AtomicBlob`, which is how
`ParseCache`, `GraphCache` and `LedgerCache` may treat their file as a variable.
`LedgerCache` instantiates `ChangeCov` and `EffectsFusion`; its `Suite`, `Ran` and
`Performed` are what `SuiteRun` shows an accepted observation to be. `Extract`, `Project`,
`Hierarchy`, `Deadcode`, `Canonical` and `CallGraph` extend one another in this order, and
`Queries` extends the last two with `ImportGraph` and `Sweep`; it replays what
`GraphRecording` shows a recording to keep.

### BlobStore and AtomicBlob

Names link to inodes. `blob` and `tmp[pid]` are the links of `parse.bin` (say)
and of `parse.bin.<pid>.tmp`, `data[i]` the bytes of an inode, `Torn` what an
unfinished write leaves. `OpenBlob`/`ReadBlob` are the two halves of `fs::read`:
a reader keeps the inode it opened whatever happens to the name. `BeginWrite`,
`MakeDir`, `CreateTmp`, `FillTmp`, `RenameTmp` are the calls of `write_bin`, and
`WriteFails` an error of any of them, from the directory to the rename: what is on
disk stays, a temporary file included, and the caller ignores it. `BeginClean`,
`ScanDir`, `Unlink`, `EndClean` are `clean`: the existence test, the listing, one
removal at a time, the final `rmdir`. `Crash` may come anywhere and a later process
may have the same pid, whose temporary file is then truncated. `LosePower` keeps
the names and tears any bytes, because nothing is synced.

`RefinesRegister` maps this to `AtomicBlob`: the register is the decoded content of
the linked inode, and what a reader "has seen" is settled when it opens the file.
So the layers above use a register, as `ParseCache` and `GraphCache` do with `blob`.

### ParseCache

`disk[f]` is a content and a modification time; `clock` the newest time given out.
A run `Open`s the blob (another release's is empty), `Walk`s once, and then for
each file either `TrustStat`s the entry or (`StatMoved`) takes the stat and, in a
later step, `ReadFile`s or `SkipFile`s it. `Finish` is the comparison of the
number of entries and the decision to write; `Store`/`StoreFails` the best-effort
write. Edits, other processes and cleans take steps in between. A content stands
for its blake3 hash; a parse is the pair of the content and the release that
parsed it, because the parse is a pure function of both. `seen[p][f]` is a history
variable: what `f` has been since `p` walked the tree.

### GraphRecording

ty is an oracle (`TyOutgoing`, `TyIncoming`, `TyResolve`, `TySupertypes`) over a tree
whose files are reduced to what decides its answers about one name: a definition,
an import (plain, which re-exports, or aliased), and a use (in a function, in a
lambda, at module scope, as a base class). `TySeesImporters` leaves open whether
`incoming_calls` at a definition finds callers in other files that import it
plainly; it never finds aliased ones, which is why `record_inner` inverts outgoing
edges (graph.rs 276-303). The actions are the phases of `record_inner`: `Begin` with
what `CarryOver` copies, a `Wave` per breadth-first level, `RecordSupertypes`,
`RecordOccurrences`. `ComputeAffected` is the import component of what changed plus
the safety net, whose files are added without their own component, as in the code.
`FromScratch(t)` is the reference, and the history variable `lostEdges` says which
kinds of edit took an import edge away since the whole tree was last recorded.

### GraphCache

What is recorded about a file is reduced to what it was recorded *from*: the
content ty read, the configuration ty was constructed with and the release. A run
`Index`es (which gives the fingerprint: the contents), opens `graph.bin`, and takes
`Hit`, `Repair` or `Cold`; `Build` constructs ty, `RecordFile` reads one file from
the disk as it then is, `Store` writes under the fingerprint of `Index`. A run with
`PYQ_NO_CACHE` (`cached[p]` is FALSE) skips the blob both ways. `habit` is how the
tree is edited in a behaviour: never during a run, never back, or anyhow. `IndexOf` says which contents have one `FileIndex`.
Here a changed file does not affect another one's answers; that question is
`GraphRecording`'s.

### SuiteRun

`pc` is where pytest is: before the plugin, between tests, in a test, at one of the
steps of `pytest_unconfigure`, gone. Lines, effects and returns are events of a thread:
`Main`, which also runs the hooks, or a thread that some test or import started and that
goes on until the process ends. A callback is as many steps as it has calls between which
the interpreter may switch threads: `RunLine`, `AddLine` (`all_lines.add`), `AttributeLine`
(whatever test is `current` by now); `AuditEffect` (`_effects.get`), `CountEffect`. The test
of `_current` and the addition to it have no call in between and are one step, under the
interpreter lock that every build but the free-threaded one has. `RenderEffects`,
`OpenEffects`, `DumpEffects`, `OpenCoverage`, `ListFiles`, `ListTests`, `OpenShapes`,
`DumpShapes` are `pytest_unconfigure` in its order: the envelope is rendered before its
file is opened, coverage is computed after. `RenderBreaks` and `ListBreaks` are the two
places where a thread changes what is being iterated over, which ends
`pytest_unconfigure`. `Interrupt` may hit a test and a callback in the middle, `Kill`
anything. `Observe` is `observed_all` (or `observed_effects`), `Status` and `CoveringTests`
what `query_change_cov` makes of it. `ran`, `performed` and `upto` are history: who ran
which line for which test, how often a callable had an effect, and what of this there was
when the session ended.

### LedgerCache, ChangeCov, EffectsFusion

A query of `tests --base` or `effects` reads the tree three times, and the model has a
step for each: `TakeDiff` (git) or `Closure` (ty) sets `view[p]`, `Index` sets `files[p]`,
which stands for the fingerprint, and `RunSuite` observes whatever the tree is by then.
`Skip`, `Hit`, `Miss`, `Store`, `StoreFails` and `RunFails` are the paths of `ledger()`;
`PYQ_NO_SUITE`, `PYQ_NO_CACHE` and `PYQ_PYTHON` are part of what is `asked`. A `Ledger` is
reduced to the version and the interpreter that it came from. A tree is a version
number; what git says of it, what its suite runs and performs, and its static effects are
given by constants. `Answer` is what the verb prints: `ChangedLines` folds `ParseLine` over
the diff line by line, as `parse_diff` does, and `Fuse` is `query_effects` from the
filtering on. `Gone` is every end of a process, at any step. `habit` is as in
`GraphCache`, without its third value.

### Project, Extract and what extends them

A checkout is a record: the files, their definitions, the mentions of them that are no
calls, the console scripts, the calls between them, each with its spelling (in the same file, by an imported name,
under an alias, as an attribute), and import statements, each with the constructs it is
`within`. `recording` is what the command replays, made from the checkout by `Record` (the
waves reach lambdas only through calls; callers come from the transpose, from ty and from
module-scope names), and `OutgoingAt` and `IncomingAt` look it up. FQNs are sequences of names built as `scope_fqn` builds them; an
anchor is a place, and several may share an FQN. `Hierarchy` to `Canonical` are operators,
one per function of the code, with its lookups by FQN (`DefAnchor` the first of several,
`ClassOf` the last) kept apart. Prefix and suffix tests on names are constants
(`TestFunctionNames` and so on).

`Indexed` is what the visitor and ty guarantee of every checkout, and an assumption of the
proofs. There are finitely many of everything. Every file has its module node. What contains
a definition is a definition of the same file, because `extract.rs` pushes a scope right
after the definition that opens it (`push_def`, then `scope.push`). Nothing calls a module.
An import is a statement, so it is in no header and in no lambda.

### CallGraph, ImportGraph, Sweep, Queries

`Queries` is one command after another: `Ask` picks a verb and its arguments, `Walk` or
`FindComponents` take the steps of its loop, `Exit` ends the process. `Seed`, `Expand` and
`Look` are the queue's loop of `closure` and `reachable_from`, cut at the point where the
code marks an FQN, with neighbours in any order. `Root`, `Edgewise` and `Return` are the
recursion of `strongconnect`, with its call stack in `frames`. The sweep has no state
that outlives it and is a fold over the occurrences, definitions first. What ty sees from
a definition is not settled by the sources: `ty_backed.rs` 205-208 says that incoming calls
miss callers that import the name, `tests/cli.rs` 302-324 relies on the contrary. `sight` is
therefore a choice, made anew for each query, and `SweepIsExact` holds of both.

### Upgrade

`head`, `flow`, `canary`, `stable` are the server: `DeleteCanary` and `CreateCanary` are two
steps because the workflow takes two, and a push supersedes a flow that is between them.
`FlowFails` is a job that ends in an error or is cancelled: nothing tries again, and after the
delete there is no canary until the next push. A v* tag is taken to name its commit's Cargo
version, and `TagsGrow` says that each names a greater one than those before; the workflow
checks neither.

A client goes through `Resolve`, `GetTarball`, `GetDigest`, `Verify`, `Replace`, and each
request is answered by what the rolling tag serves then. `release[p]` is the `Release` that
was found: for stable the commit of its tag, for canary the one that the marker in its text
names, or none if the text has no marker. `Behind` is `compare`: a greater version on stable;
on canary another commit, or no marker, as the tag "canary" is then what is compared. `Urls` is
what the download goes by: a stable release's own, or whatever is the canary at that moment.
`GetDamaged` and `Fails` may come at any request. The installer's `Copy`/`Copied`/`Move` are `cp`
to `pyq.new` and `mv`; `Mark`/`Marked` and `Choose`/`Chosen`/`ChoiceLost` write the channel file,
which is truncated first.

## Runs, bounds and fairness

| Run | Instance | Shows |
|---|---|---|
| `blob_store` | 2 processes, 2 values, 4 inodes | nobody reads an unfinished file, a rename publishes its own process's value, the file is a register, losses of power included |
| `parse_cache` | 1 file, 3 contents, 2 processes of 2 releases, 3 writes | a hit is current, the cached index is the plain one, also of a file that is edited under the run, a run that writes nothing had nothing to write |
| `parse_cache_tree` | 2 files, 2 contents, 2 processes of one release, 2 writes | files appear while others go: one fingerprint means one result, whatever entries a run started from; the processes settle on a warm cache |
| `graph_recording` | 3 files: definer, re-exporter, importer | forward answers are exact until a file is deleted; the whole recording is the one from scratch until an import edge is lost; nothing about deleted files survives; callers are exact in a closed import component |
| `graph_cache` | 2 files, 2 contents, 2 processes, each run with or without the cache | an answer about a file left alone is live, if edits during runs never go back or edits that go back never fall in a run; errors are towards the newer |
| `graph_cache_releases` | 1 file, 3 contents, 2 releases, 2 configurations | answers are of the present source and the running release |
| `suite_run` | 2 tests, 2 lines, 2 callables, 1 background thread, 4 events | an accepted observation is whole; a line that ran is never called uncovered; the main thread is attributed exactly; threads do not corrupt the ledger |
| `ledger_cache` | 2 processes, 2 versions of a 2-file tree, an interpreter with `sys.monitoring` and one without | the ledger served for a tree left alone is that tree's; what `tests --base` and `effects` say of it is true, the rows of bare deletions excepted; the suite is run no more in the end |
| `queries` | 1,008 checkouts: 3 files with 10 definitions and 4 to 8 optional calls in ten variants; a package of 4 modules with 8 optional imports | every answer of `graph`, `tests`, `deadcode`, `canonical`, `imports --cycles`, `refs`, `callers`, `defs` is what a definition of the question says |
| `upgrade` | 2 commits of 2 versions, 1 upgrader, 1 installer | the binary is a published one, never older on its own channel, and in the end the one on offer, a canary build whose version is the stable one excepted |

The two other runs are the [disagreements](#disagreements-found).

Why the bounds are enough. *Blob*: a writer and a reader, or a writer and a cleaner,
are the pairs that can interfere; four inodes let the blob, both temporary files and
an unlinked file that is still open exist at once, and an inode is reused. *Parse
cache*: a run treats files independently but for the count of entries, which needs
two files; three writes give an entry, an edit between its stat and its read and
one more after; two contents have one length, so that only the time tells them
apart, and the third is not UTF-8. *Recording*: ty's answers in the model depend on
chains of at most two imports, which three files exhaust; the number of edits and
recordings is not bounded. *Graph
cache*: one run that stores and one that replays,
and a third content for what was there in between. *Suite run*: what goes wrong
needs one thread beside pytest's own, two tests for an attribution to be wrong, two lines
and two callables for a set or a dict to be in the middle of its iteration, and at most
four events (`MaxEvents`); starts, finishes and reruns of tests are not bounded.
*Ledger cache*: a stale observation needs one process that stores and one that is served,
two trees and two interpreters; the number of edits and queries is not bounded (`MaxVersion`
bounds the trees, so under "forward" there is one edit; under "quiet" any number). The two
versions between them have every kind of diff line, of static effect and of label, and a
suite that passes, one that is aborted and one that cannot run. *Queries*: the calls can
form every cycle through `main`, `helper`, a method and an override; a lambda hangs between
two functions; a peculiarity (decorator, external base, subscripted base, script,
export, configuration string, two definitions of one FQN or one name) varies on top, one at
a time. `Limits` is one hop or none, and closures are up to five hops deep. Four modules give
components of every size and two components at once; the imports climb one and two levels
and name a package, a module, or a name in it. *Upgrade*: a rolling release that is replaced
once within an upgrade is enough for metadata, tarball and checksum to disagree;
`VersionOf` makes the second commit a new version (`OneVersion` in `MCUpgrade`, where it is
not, was checked as well and needs no run of its own). `TagsGrow` is `TRUE`: a tag of an
older version would be the latest release, and `pyq upgrade --force` would install it.

`MaxTime` bounds the number of writes and `MaxVersion` the contents; both only cut
edits, never a step of the code. `EveryWriteTicks` is an assumption on the file
system: every write gets a timestamp of its own. It is the one under which the stat
fast path is sound (an edit of the same size within one tick is invisible to it).
Deadlock is checked in every run.

Three runs state fairness, and only of processes that are running.

- `ParseCache`: weak fairness of each process's next step (`Index` or `Return`). A run is
  a sequential program with no lock and no wait, so once it can take a step it goes on
  being able to; `Return` with `Open` says that queries keep being asked. Nothing is
  assumed of edits, crashes or failing writes: `Settles` supposes that from some point on
  there are none, and then every process, though the last to rename may have walked long
  ago, leaves a `parse.bin` that describes the tree.
- `LedgerCache`: weak fairness of a query's next step for the same reason; that queries
  start or end is not assumed. Strong fairness of `RunSuite` and `Store` says that what can
  succeed does so now and then, though a run or a write may fail any number of times;
  without it the suite could fail to be stored for ever and `SettlesOnOneRun` would be
  false for a reason that is no fault of the code.
- `Upgrade`: weak fairness of the workflow's steps together, `FlowFails` among them (a job
  ends, one way or the other), and of each upgrader (users keep asking). `CatchesUp` supposes
  that pushes, tags, installs, switches and failing requests come to an end; that the last
  publication succeeds it does not suppose.

## What is proved

Every invariant and every step property that a run checks, and the refinement of `AtomicBlob`, is also a theorem
about instances of every size. What a theorem assumes beyond the `ASSUME`s of its
module is in its table.

`BlobStoreProofs` proves, for every set of processes, values and inodes, and without
any assumption but that `None` and `Torn` are no values:

| Theorem | States |
|---|---|
| `BlobTypeCorrect` | `Spec => []TypeOK` |
| `BlobInvariance` | `Spec => []IInv` |
| `ReadersSeeWholeFiles` | no reader decodes a file that is being written |
| `WritersPublishTheirOwn` | what a process renames is what it was asked to write |
| `BlobIsARegister` | `BlobStore` implements `AtomicBlob` |

That nobody reads half a file is not inductive: it depends on who may still write to
the inode that is read. `IInv` follows an inode through its life. No two names link to
it (`OneLink`), so a rename or an unlink of one name says nothing of the others. While
it is being filled it has an owner, whose name alone links to it and who alone has it
open (`OwnInode`). Once somebody else has it open it is no temporary file any more
(`NoLongerTemporary`), and `create` truncates temporary files only. The refinement then
has one step at which each operation takes effect: a read when it opens the blob (a
reader that finds its inode filled later would break it, which is what
`NoLongerTemporary` excludes), a write when it renames, a clean when it unlinks the blob.
All other steps, deaths included, leave the register as it is.

`ParseCacheProofs` proves, for every finite set of files and every set of contents,
processes and releases:

| Theorem | States | Assumes |
|---|---|---|
| `TypeCorrect` | `Spec => []TypeOK` | |
| `CleanRuns` | a run that does not write had nothing to write | |
| `FingerprintKeysParse` | one fingerprint, one result, across processes and releases | |
| `HonestInvariance` | `Spec => []IInv` | `EveryWriteTicks` |
| `StatHits` | an entry with a file's present stat has its present content | `EveryWriteTicks` |
| `DropInForIndexTree` | the result about a file left alone is its plain parse | `EveryWriteTicks` |
| `NeverOlder` | a file edited during the run is indexed as something it was during the run | `EveryWriteTicks` |

The argument has two layers. `Inv` holds whatever the clock does: every entry was
parsed from readable bytes with its hash by the release that holds it (`Sound`), a
process is where its variables say (`Control`), and until something moved a run has
only copied entries (`CopiesUntilDirty`). The last with equal cardinality gives that
the copy is the whole (`SameCountMeansSame`), which is `CleanRuns`. `IInv` adds what
needs an honest clock: no timestamp is in the future (`StampsPast`), so that a new
write makes every existing entry miss; an entry with the present stat is `Current`;
and, for the files a run is done with, what it has recorded is among what it has
seen (`SeenSoFar`, `DropInSoFar`). None of the properties is inductive: `StatHitIsCurrent`
says nothing of entries that a process is still collecting, `DropIn` nothing
before a run ends.

`SuiteRunProofs` proves, for every set of tests, lines, callables and threads and every
number of events, from no more than that pytest's thread is not one of the others and
`None` is no test (`NamesAreDistinct`):

| Theorem | States |
|---|---|
| `LedgerCounts` | no callable with an effect is missing from the ledger, no count is too high |
| `AcceptedIsWhole` | an accepted observation lacks nothing that was observed in the session |
| `UncoveredIsCertain` | a line that the session ran is never called uncovered |
| `CoverageAgrees` | who covers a line and what is covered agree, if no test was cut short |
| `MainThreadIsExact` | pytest's own thread is attributed exactly, over reruns |
| `RunTypeCorrect` | `Spec => []TypeOK` |

`IInv` follows what is observed from a callback to a file, one part per stage.
`LedgerInv`: a count that a thread has read and not yet written is at most the number of
effects so far, because effects only become more; that is why threads can lose counts and
never invent one. `LinesInv`: a line is in the union before a test can get it (`_on_line`
adds to `all_lines` first), so the union, listed after the session, has every line that ran.
`FilesInv`, `EffectsInv`, `ReturnsInv` and `CoverageInv` say what each file contains from
the step that computes it on; the last also that a thread which is still in the callback
then adds to the interrupted test and to no other, so that the tests in the file are as
they are in memory but for that one. `MainInv`: while the session lasts `current` is the
test that runs, and pytest's thread is in no callback when a hook moves it. The type bounds every
count by `MaxEvents`, which no single step shows. `EventsInv` does: each effect of a callable that
was counted, or that some thread is about to count, was an event of its own.

`GraphRecordingProofs` proves, for every finite set of files, every menu of contents and
either answer of ty about importers:

| Theorem | States |
|---|---|
| `RecordingTypeCorrect` | `Spec => []TypeOK` |
| `RecordingInvariance` | `Spec => []IInv` |
| `ColdRecordingsAreComplete` | a recording of the whole tree has every edge, both ways |
| `ForwardAnswersAreExact` | callees, targets and bases are ty's, after any number of incremental recordings, if nothing was deleted |
| `RecordingsAreIdentical` | while no import is lost, an incremental recording is the one from scratch |
| `NothingDeletedIsRecorded` | no entry is in a deleted file or points into one |
| `CallersAreExactInComponents` | what was recorded anew with all that it imports and is imported by has the callers of the whole tree |

Three facts about trees carry the argument. The set `compute_affected` reaches is closed under
imports in both directions: its rounds are a recursive function, and induction over the rounds shows
that they stop within as many as there are files. What a name leads to, through any
chain of re-exports, stays within its component, so ty's answer about a definition does not depend on
files outside a closed set. And if only imports were added since the last recording, a component of
the new tree is a union of whole old ones with what is new. `IInv` then says, at every wave, of which anchors the
answers are ty's (`ForwardIsTy`: those asked for so far, and those copied from a tree that lost no
file), that callers are true and that each call asked for has been inverted (`CallersAreTrue`,
`CallersAreMet`), and what a growing tree adds to that (`Grown`). `Growing` is what relates the
tree as it is now, edited any number of times, to the one that was recorded.

`GraphCacheProofs` proves, for every number of files, contents, processes and releases,
from `Steady`: the tree is edited between runs only or never back to an earlier content,
and the index of a file tells its contents apart.

| Theorem | States | Assumes |
|---|---|---|
| `GraphInvariance` | `Spec => []IInv` | `Steady` |
| `GraphTypeCorrect` | `Spec => []TypeOK` | `Steady` |
| `AnswersAreOfTheSource` | what a run answers about a file it saw in one content is from that content, and from its own release | `Steady` |
| `AnswersAreLive` | it is what ty says of that content now | `Steady`, `~ConfigChanges` |
| `StoredIsNeverOlder` | what `graph.bin` has under a key was taken from that content or a later one | `Steady` |

Each hypothesis is one that the code needs. If a file is edited back, a recording that overlaps the
first edit is stored under a key that will be asked for again. Of two contents with one index, the
second passes for the first. The configuration is not part of what is compared; only `AnswersAreLive`
needs it to stay.
`IInv` says of every recorded answer that it
is ty's answer to the content in its key, or that this content is `Past`, never to be asked
for again (`Right`), for the stored recording (`Stored`) and for the one a process has in its
hands but for the files still in `todo` (`Records`); and of every process
that it saw what the tree is now (`Sees`).

`LedgerCacheProofs` proves, for every number of versions, processes and interpreters, and
for any diffs, suites and static effects:

| Theorem | States |
|---|---|
| `LedgerTypeCorrect` | `Spec => []TypeOK` |
| `LedgerInvariance` | `Spec => []IInv` |
| `LedgersAreOfTheTree` | a query that saw one version of the tree answers from a ledger of it |
| `AnswersAreTrueOfTheTree` | what `tests --base` and `effects` say of a tree that was left alone is true of it |

The suite runs after the tree was fingerprinted, so the ledger may be of a later version than
its key. `Forward` bounds it from both sides, by the key and by the tree as it is now: if they are one
version, so is the ledger. `Quiet` is the case of a tree that is edited between queries.
`OfTheTree` is what is left of either for an answer that a query has already read.
For the answers, `HasRead` adds what else a query has read by then (the diff, the closure). That
`parse_diff` marks just the lines of the hunks is by induction over the lines of the diff
(`DiffIsOfLines`: a file header, a hunk header or another line, which is all that it tells apart).

`QueriesProofs` proves, for every set of checkouts, every symbol and limit, whatever ty answers and in
whatever order neighbours, modules and places come:

| Theorem | States |
|---|---|
| `WalkInvariance`, `QueryInvariance`, `ComponentsInvariance` | the inductive invariants: of both walks, of every walk with its layers, of Tarjan's search |
| `QueriesTypeCorrect` | `Spec => []TypeOK` |
| `FindsOnlyReachable` | every FQN a walk visits is that of a definition in each set that holds the start and is closed under calls and override edges |
| `FindsAllReachable` | a finished walk has visited the start and, with an anchor, all that it leads to, if no `--depth` is given and each node has an FQN of its own |
| `ClosuresAreExact` | `graph` lists just the nodes within that many calls, each once, at its distance |
| `TestsAreTheDual` | callers backwards and calls forwards lead from the symbol to the same tests |
| `DeadReportsAreExact` | `deadcode` reports just what no root may run, itself or by what is around it |
| `UntestedReportsAreExact` | `canonical` lists just the public surface that no test may run |
| `SweepsAreExact` | skipping what earlier answers cover loses no row of `refs` and `callers`, and credits none to another definition |
| `CyclesAreTrue` | `imports --cycles` shows one cycle of each set of modules that import each other, and it is one |

The statements are those of the run `queries`, which checks them of 1,008 checkouts; each says
where it needs FQNs to be unique. They are: the walks mark FQNs, and `queries_twins` shows what they
miss without. The steps are these.

- *Walks.* `Sound` keeps the seeds, the queue and the neighbours in hand within every closed set;
  `Complete` accounts for each successor of what was met, as visited, as still to be looked at, or
  as that of an anchor still to be expanded.
- *Distances.* `Layered` says that the queue never spans more than one layer, that each row has an edge
  of a row one nearer, and that nothing the rows lead to is left out but what is in the queue. With
  `Nearest`, no row is in an earlier layer, and the layers are the distances. The reference,
  `Hops`, is a recursive function that goes as far as there are definitions; that no shortest path is
  longer is a pigeonhole argument.
- *Tests.* The recording made from scratch has each call in both directions, module-scope names
  included, so a path backwards is a path forwards, by induction over its length.
- *Dead code.* With unique FQNs a class found by its FQN is the class meant, so override edges by
  names are override edges by classes, and the walk has met just what `Live` holds. A definition that
  is neither live nor reported lies in one that is not live; of those around it the outermost
  is reported.
- *Sweep.* After each place of the sweep, every place so far is resolved by an answer or covered by
  that of another place of the same definition (the recursion over the places is a function, and
  the induction is over their number). So every row that a skipped place would have had is there.
- *Components.* `TarjanInv` is the invariant of `strongconnect` in terms of its own stacks. Numbers
  go up along the stack and along the open calls; each open call leads to all that is later on the stack
  (`CallsLeadUp`), and each module on the stack leads to that of an open call met no later
  (`AllLeadsDown`). A low link is the number of a module that the call leads to, and no edge looked at
  within the call leads lower (`LowIsReached`, `LowIsLeast`). No edge leaves what is finished. A call that
  returns with its own number therefore pops just the modules that it leads to and that lead to it.
- *Cycles.* `extract_cycle` goes from the first module on to a successor within the component each
  time. It must meet itself within as many steps as there are modules; up to then its modules differ.
  The cycle shown stays in its component, so there are as many cycles as components that have one.

`UpgradeProofs` proves, for every number of commits, clients and requests:

| Theorem | States | Assumes |
|---|---|---|
| `UpgradeTypeCorrect` | `Spec => []TypeOK` | |
| `UpgradeInvariance` | `Spec => []IInv` | |
| `UpgradesGoForward` | an upgrade along a channel never installs an older build of it | `TagsGrow` |
| `InstalledIsPublished` | the installed binary is whole, and one that was published | `OneInstaller` |

`Offers` says that the newest build published on a channel is the one on offer (on stable, where
tags grow), so that a download by
a name that moves (`canary`) can only become newer between the question and the answer;
`HasPublished` and `IsNoOlder` carry this along the steps of a client. `OneInstaller` is needed because
installers share the name `pyq.new`: one may move what the other is still copying.

Only model-checked: the three liveness properties `Settles`, `SettlesOnOneRun` and `CatchesUp`,
whose fairness is beyond this prover; what `GraphCache` keeps beyond `Steady`; and the two
disagreements, which are counterexamples. Inductions over numbers and paths are proved here
from well-foundedness, for sets of numbers, and the recursive functions of the models by showing that they have
a solution; no operator of a module with theorems is `RECURSIVE`. The inductive invariants, and the types of
`BlobStore` and `ParseCache`, are proved and no run repeats them. Blake3 is taken to be injective, in the model and therefore in the proofs.

## Disagreements found

Two are runs with `expect: violation`; the quotations are in `PROJECT.json`.

| Run | The code does | The text says |
|---|---|---|
| `graph_recording_lost` | a file the safety net adds is recorded without its other importers' calls | byte-identical to a from-scratch record |
| `queries_twins` | of two definitions with one FQN only the first queued is expanded, and what the other alone calls is reported dead | every FQN forward-reachable from any of the seeds |

More follow from the models. They are assumptions, exceptions or parameters of the passing
runs, and a change of these shows each of them.

In the caches:

- A re-exporter is deleted; its importer keeps the callee (`graph.rs` 653, contra 634-636).
  `ForwardExact` excepts what a deletion took away.
- A recording made while a file was edited is stored under the tree before the edit, and
  is replayed when the edit is reverted (`cache.rs` 311, contra 13-14): the reason for
  `habit` in `GraphCache`.
- What ty reads besides the walked files is in no key (`ty_backed.rs` 60, contra
  `cache.rs` 267-268): `ConfigChanges` is `FALSE` where `AnswerIsLive` is checked.
- A re-exporter that drops its import leaves stale callers at the definition (`lostEdges`).
- `write_bin` takes no lock, although `DESIGN.md` 116 calls writes lockfile-guarded; `NeverTorn`
  and the refinement show that none is needed.
- A stat that fails is size 0 at time 0, and an entry with it is trusted when a stat fails
  again, however old it is (the exception in `NeverOlderThanRun`). An edit that keeps the size
  and the timestamp is never noticed (`EveryWriteTicks`). An edit that the `FileIndex` does not
  show is in the key of the graph layer but not in its diff (`IndexOf` is injective).
- A suite that was aborted is stored and served until the tree changes; `CoverageIsTrue`
  says nothing of its lines, which are all reported uncovered.

In the suite run and its verbs:

- A line is given to the test that is current, whichever thread ran it (`coverage.py` 73,
  contra 3-5): `MainIsAttributedExactly` is about pytest's own thread.
- A line that only an import ran is covered, by no test, although `lib.rs` 292 says that
  `is_covered` is about lines executed in any test.
- "Deletions contribute nothing" and a hunk `+c,0` has "no changed lines" (`change_cov.rs` 14-15,
  92-93), but `count.max(1)` (67) makes the line that a bare deletion comes after a changed line,
  which is then reported as covered or not. `ChangeCov` has it as the code does; `CoverageIsTrue`
  excepts the rows of `DeletionMarks`.

In the static verbs:

- Decorators, defaults and annotations of a function are no module scope to the visitor
  (`extract.rs` 282-287), although `model.rs` 80-83 says such code is and importing runs it.
- `core.main()` at module scope seeds `core`, not `main` (`Mention`s by attribute).
- `is_test_node` accepts a test-named function within a function, `is_collected_test_def`
  does not: the second conjunct of `TestsAreDual`.
- A lambda that nothing calls and that calls no definition is in no recording. A base that is not a dotted
  name (`Repo[Row]`) is no base when it is the only one.
- The caveat of `graph --reverse` and `tests` looks at the roots alone; callers further
  up may be framework entries while the answer is called exhaustive. `graph --depth`
  forward is called exhaustive too.
- A relative import in the `__init__.py` of the root resolves to a name that starts with an
  empty part, and `from . import NAME` gives no edge to the package.
- `defs` points an import at the only project definition of the name, even if the import is
  of an outsider of that name or an alias bound to it. A qualified `callers` finds no
  caller that imports the name, if ty does not see it from the definition. An imported
  call is listed without its definition when there are several, contra `unified.rs` 13-15.
- The rest of that comment (`unified.rs` 17-20) is out of date: a qualified query would resolve by its
  leaf, return every definition's rows with `resolves_to`, and leave it to the caller to filter until
  the index knows containers. The index does: `occurrences` takes the definitions in the scope of
  the qualifier and no uses (95-127), as `qualified_callers_scope_to_one_def` in `tests/cli.rs`
  expects, and if that is one definition its rows carry no `resolves_to`. `SweepIsExact` has the code's rule.

In upgrades:

- `pyq channel stable` tells a canary user that the next upgrade moves to the latest stable build
  (`channel.rs` 86-89), but `compare` looks at versions (`upgrade.rs` 74-79), and a canary build of
  the same version or a greater one stays: the exception in `Latest`. `ForwardOnly` excepts a
  change of channel.
- `canary` is said always to be the tip of `main` (`release.yml` 5-6). A failed build leaves the one
  before, and a create that fails after the delete (`release.yml` 130-131) leaves none until the
  next push (`FlowFails`); `pyq upgrade` then reports that there is none.
- "The workflow only ever publishes forward" (`upgrade.rs` 211-213) is the habit of those who
  push tags: a tag of an older version would be published all the same (`TagsGrow`).

## What is abstracted, and what is not modelled

- A walk of the tree is one step. The code lists directories one by one; a file that
  appears or goes during the listing is, in the model, there or not there at the walk.
- Contents are compared, not hashed; a `FileIndex` is the content and the release.
- In `GraphRecording` the tree holds still during a recording and one name is followed;
  in `GraphCache` it does not, and files do not influence each other.
- ty is an oracle: a function of the tree (and of the configuration).
- In `LedgerCache` a version of the tree is whole: an edit is one step, and a suite run
  sees one version. `SuiteRun` has the run itself.
- In `Queries` the recording is complete and of the present tree (what a repaired one
  lacks is in `GraphRecording`), and ty resolves what the checkout says it does.
- In `Upgrade` a tag is a commit with that commit's Cargo version, a checksum that matches is the same
  build, and one installer runs at a time: two would share `pyq.new`.
- Formatting, progress output and messages are left out.

Not modelled: mock targets (`mock.rs` is a lookup of one dotted path in the index and in
ty's member tables, without state or order); the classification of calls by spelling,
signatures and docstrings in `extract.rs` (text without control); argument parsing,
rendering and the card of `describe`, which puts rows of other verbs together; pytest-xdist,
which the code does not mention. ty, ruff's parser, pytest, git and GitHub are other people's
programs and appear as environments.

## Plan

1. Abstract specifications: what `graph.bin` and `ledger.bin` promise as a register of answers under
   keys, with `GraphCache` and `LedgerCache` shown to implement it under `Steady`.
2. What `GraphCache` still promises when the tree is edited back during a run: an answer is ty's about
   something the file was.
3. Step properties of the walks (what was visited is never forgotten, a depth never lowered) and of
   Tarjan's search (a component found is never changed), from the invariants that are there.
