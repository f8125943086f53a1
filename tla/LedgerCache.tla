----------------------------- MODULE LedgerCache ----------------------------
(***************************************************************************)
(* The ledger layer of the analysis cache, ledger() of pyq-cli/src/        *)
(* cache.rs, and the two verbs that answer from it: "tests --base"         *)
(* (query_change_cov) and "effects" (query_effects).                       *)
(*                                                                         *)
(* A run reads the tree up to three times: git's diff or ty's call graph   *)
(* (its "view"), the walk that fingerprints the tree, and, minutes later,  *)
(* pytest.  What pytest observed is stored under the fingerprint.  The     *)
(* interpreter is not part of it, so processes with different interpreters *)
(* share one ledger.bin.                                                   *)
(*                                                                         *)
(* The tree is one of the versions 1 .. MaxVersion; what a version does    *)
(* when its suite is run is given by the constants.                        *)
(***************************************************************************)
EXTENDS Naturals, Sequences

CONSTANTS
    MaxVersion,    \* bound: the versions a tree may have
    Procs,
    Pythons,       \* interpreters that PYQ_PYTHON may name
    Monitors,      \* those with sys.monitoring, 3.12 and later
    Suite,         \* Suite[y][v]: how v's suite ends under interpreter y:
                   \*   "ran", "aborted" (pytest gave up before the tests), or
                   \*   "missing" (nothing can be run)
    Diff,          \* Diff[v]: the lines of git diff <base> at version v
    Ran,           \* Ran[v]: the lines that v's suite runs
    Performed,     \* Performed[v]: its audited effects, <<owner, category>>
    Sites,         \* Sites[v]: the static effects of version v
    Scope,         \* Scope[v]: what the queried symbol reaches at version v
    Habits,        \* how the tree is edited, a subset of
                   \*   "quiet": anyhow, but never during a run
                   \*   "forward": any time, but never back
    None

Versions == 1 .. MaxVersion

ASSUME MaxVersionIsPositive == MaxVersion \in Nat \ {0}
ASSUME MonitorsAreInterpreters == Monitors \subseteq Pythons
ASSUME HabitsType == Habits \subseteq {"quiet", "forward"}
ASSUME NoneIsNoValue ==
    /\ None \notin Versions
    /\ None \notin [of : Versions, by : Pythons]
    /\ None \notin [fingerprint : Versions, led : [of : Versions, by : Pythons]]
    /\ None \notin [verb : {"coverage", "effects of all", "effects of symbol"},
                      python : Pythons, mode : {"normal", "no suite", "no cache"}]

\* A diff is a sequence of "+++" lines and of hunks.
ASSUME DiffIsOfLines ==
    \A v \in Versions :
        /\ DOMAIN Diff[v] = 1 .. Len(Diff[v]) /\ Len(Diff[v]) \in Nat
        /\ \A i \in DOMAIN Diff[v] :
              \/ Diff[v][i].is = "file"
              \/ /\ Diff[v][i].is = "hunk"
                 /\ Diff[v][i].start \in Nat /\ Diff[v][i].count \in Nat

INSTANCE ChangeCov WITH Nowhere <- None
INSTANCE EffectsFusion

VARIABLES
    habit,     \* how the tree is edited in this behaviour
    disk,      \* the version of the tree
    blob,      \* ledger.bin: a LedgerCache, or None
    pc,        \* pc[p]: where p is
    asked,     \* asked[p]: verb, interpreter and environment of p's query
    view,      \* view[p]: the version that was diffed, or whose calls were resolved
    files,     \* files[p]: the version p indexed and fingerprinted
    led,       \* led[p]: the Ledger p answers from; None when unavailable
    seen       \* seen[p]: (history) the versions since p began

vars == <<habit, disk, blob, pc, asked, view, files, led, seen>>

-----------------------------------------------------------------------------
(* Data *)

Maybe(S) == S \cup {None}
Verbs == {"coverage", "effects of all", "effects of symbol"}

\* PYQ_NO_SUITE and PYQ_NO_CACHE; under the former the latter makes no difference.
Modes == {"normal", "no suite", "no cache"}
Queries == [verb : Verbs, python : Pythons, mode : Modes]

\* What one suite run observed, reduced to where that came from.
Ledgers == [of : Versions, by : Pythons]
Blobs == [fingerprint : Versions, led : Ledgers]

TypeOK ==
    /\ habit \in Habits
    /\ disk \in Versions
    /\ blob \in Maybe(Blobs)
    /\ pc \in [Procs -> {"idle", "diff", "index", "graph", "open", "run", "store", "done"}]
    /\ asked \in [Procs -> Maybe(Queries)]
    /\ view \in [Procs -> Maybe(Versions)]
    /\ files \in [Procs -> Maybe(Versions)]
    /\ led \in [Procs -> Maybe(Ledgers)]
    /\ seen \in [Procs -> SUBSET Versions]
    /\ \A p \in Procs : pc[p] = "idle" <=> asked[p] = None

Init ==
    /\ habit \in Habits
    /\ disk \in Versions
    /\ blob = None
    /\ pc = [p \in Procs |-> "idle"]
    /\ asked = [p \in Procs |-> None]
    /\ view = [p \in Procs |-> None]
    /\ files = [p \in Procs |-> None]
    /\ led = [p \in Procs |-> None]
    /\ seen = [p \in Procs |-> {}]

At(p, label) == pc[p] = label
Goto(p, label) == pc' = [pc EXCEPT ![p] = label]

-----------------------------------------------------------------------------
(* The environment *)

EditTree ==
    /\ habit = "quiet" => \A p \in Procs : At(p, "idle") \/ At(p, "done")
    /\ disk' \in Versions
    /\ habit = "forward" => disk' > disk
    /\ seen' = [p \in Procs |-> IF At(p, "idle") THEN {} ELSE seen[p] \cup {disk'}]
    /\ UNCHANGED <<habit, blob, pc, asked, view, files, led>>

Clean ==
    /\ blob' = None
    /\ UNCHANGED <<habit, disk, pc, asked, view, files, led, seen>>

-----------------------------------------------------------------------------
(* A query, up to the ledger *)

Start(p) ==
    /\ At(p, "idle")
    /\ \E q \in Queries :
          /\ asked' = [asked EXCEPT ![p] = q]
          /\ Goto(p, IF q.verb = "coverage" THEN "diff" ELSE "index")
    /\ seen' = [seen EXCEPT ![p] = {disk}]
    /\ UNCHANGED <<habit, disk, blob, view, files, led>>

\* change_cov::changed_lines
TakeDiff(p) ==
    /\ At(p, "diff")
    /\ view' = [view EXCEPT ![p] = disk]
    /\ Goto(p, "index")
    /\ UNCHANGED <<habit, disk, blob, asked, files, led, seen>>

\* cache::indexed
Index(p) ==
    /\ At(p, "index")
    /\ files' = [files EXCEPT ![p] = disk]
    /\ Goto(p, IF asked[p].verb = "effects of symbol" THEN "graph" ELSE "open")
    /\ UNCHANGED <<habit, disk, blob, asked, view, led, seen>>

\* cache::call_graph and the closure of the symbol
Closure(p) ==
    /\ At(p, "graph")
    /\ view' = [view EXCEPT ![p] = disk]
    /\ Goto(p, "open")
    /\ UNCHANGED <<habit, disk, blob, asked, files, led, seen>>

-----------------------------------------------------------------------------
(* ledger() *)

\* PYQ_NO_SUITE: no blob is read and no suite run.
Skip(p) ==
    /\ At(p, "open")
    /\ asked[p].mode = "no suite"
    /\ Goto(p, "done")
    /\ UNCHANGED <<habit, disk, blob, asked, view, files, led, seen>>

\* Mutant: whatever ledger there is will do.
ServesAny(p) == asked[p].mode = "normal" /\ blob # None

\* With the cache off there is no fingerprint.
Serves(p) == asked[p].mode = "normal" /\ blob # None /\ blob.fingerprint = files[p]

Hit(p) ==
    /\ At(p, "open")
    /\ asked[p].mode # "no suite"
    /\ Serves(p)
    /\ led' = [led EXCEPT ![p] = blob.led]
    /\ Goto(p, "done")
    /\ UNCHANGED <<habit, disk, blob, asked, view, files, seen>>

Miss(p) ==
    /\ At(p, "open")
    /\ asked[p].mode # "no suite"
    /\ ~Serves(p)
    /\ Goto(p, "run")
    /\ UNCHANGED <<habit, disk, blob, asked, view, files, led, seen>>

\* observed_all: pytest imports whatever the tree is by now.  A suite that
\* fails is a suite that ran.
RunSuite(p) ==
    /\ At(p, "run")
    /\ Suite[asked[p].python][disk] # "missing"
    /\ led' = [led EXCEPT ![p] = [of |-> disk, by |-> asked[p].python]]
    /\ Goto(p, IF asked[p].mode = "normal" THEN "store" ELSE "done")
    /\ UNCHANGED <<habit, disk, blob, asked, view, files, seen>>

\* Mutant: what could not be observed is stored as well.
RunFailsStored(p) ==
    /\ At(p, "run")
    /\ Goto(p, "store")
    /\ UNCHANGED <<habit, disk, blob, asked, view, files, led, seen>>

\* observed_all failed: nothing is stored, the next call tries again.
RunFails(p) ==
    /\ At(p, "run")
    /\ Goto(p, "done")
    /\ UNCHANGED <<habit, disk, blob, asked, view, files, led, seen>>

\* Mutant: only the ledger of a suite that ran its tests is kept.
StoreComplete(p) ==
    /\ At(p, "store")
    /\ blob' = IF Suite[led[p].by][led[p].of] = "ran"
               THEN [fingerprint |-> files[p], led |-> led[p]] ELSE blob
    /\ Goto(p, "done")
    /\ UNCHANGED <<habit, disk, asked, view, files, led, seen>>

Store(p) ==
    /\ At(p, "store")
    /\ blob' = [fingerprint |-> files[p], led |-> led[p]]
    /\ Goto(p, "done")
    /\ UNCHANGED <<habit, disk, asked, view, files, led, seen>>

StoreFails(p) ==
    /\ At(p, "store")
    /\ Goto(p, "done")
    /\ UNCHANGED <<habit, disk, blob, asked, view, files, led, seen>>

\* The query has answered, has failed (git did), or died.
Gone(p) ==
    /\ ~At(p, "idle")
    /\ Goto(p, "idle")
    /\ asked' = [asked EXCEPT ![p] = None]
    /\ view' = [view EXCEPT ![p] = None]
    /\ files' = [files EXCEPT ![p] = None]
    /\ led' = [led EXCEPT ![p] = None]
    /\ seen' = [seen EXCEPT ![p] = {}]
    /\ UNCHANGED <<habit, disk, blob>>

-----------------------------------------------------------------------------
(* The answers *)

Observes(l) == l # None /\ Suite[l.by][l.of] = "ran"

\* Ledger.coverage; unavailable and old interpreters have none.
CoverageOf(l) ==
    [monitoring |-> l # None /\ l.by \in Monitors,
     lines |-> IF Observes(l) THEN Ran[l.of] ELSE {}]

EffectsOf(l) == IF Observes(l) THEN Performed[l.of] ELSE {}

Answer(p) ==
    CASE asked[p].verb = "coverage" ->
           CoverageRows(ChangedLines(Diff[view[p]]), CoverageOf(led[p]))
      [] asked[p].verb = "effects of all" ->
           Fuse(Sites[files[p]], EffectsOf(led[p]), None)
      [] asked[p].verb = "effects of symbol" ->
           Fuse(Sites[files[p]], EffectsOf(led[p]), Scope[view[p]])

-----------------------------------------------------------------------------

Query(p) ==
    \/ TakeDiff(p) \/ Index(p) \/ Closure(p)
    \/ Skip(p) \/ Hit(p) \/ Miss(p)
    \/ RunSuite(p) \/ RunFails(p) \/ Store(p) \/ StoreFails(p)

Next ==
    \/ EditTree \/ Clean
    \/ \E p \in Procs : Start(p) \/ Query(p) \/ Gone(p)

Spec == Init /\ [][Next]_vars

\* A query that has begun goes on, and what can succeed does so now and then.
FairSpec ==
    /\ Spec
    /\ \A p \in Procs : /\ WF_vars(Query(p))
                        /\ SF_vars(RunSuite(p))
                        /\ SF_vars(Store(p))

-----------------------------------------------------------------------------
(* Properties *)

\* The tree was one version, v, for as long as p ran.
Undisturbed(p, v) == At(p, "done") /\ seen[p] = {v}

\* The hunks of version v, with the file that the last "+++" line above names.
HunksOf(v) ==
    {[file |-> Diff[v][m[1]].path, start |-> Diff[v][m[2]].start, count |-> Diff[v][m[2]].count] :
        m \in {ij \in (DOMAIN Diff[v]) \X (DOMAIN Diff[v]) :
                        /\ ij[1] < ij[2]
                        /\ Diff[v][ij[1]].is = "file"
                        /\ Diff[v][ij[1]].path # None
                        /\ \A k \in ij[1] + 1 .. ij[2] : Diff[v][k].is = "hunk"}}

\* The lines of version v that its base does not have, and the lines that a mere
\* deletion comes after.
AddedLines(v) ==
    UNION {{<<h.file, h.start + n>> : n \in 0 .. h.count - 1} : h \in HunksOf(v)}
DeletionMarks(v) == {<<h.file, h.start>> : h \in {g \in HunksOf(v) : g.count = 0}}

\* The ledger a run answers from, its own or another process's, is of the very
\* tree that the run indexed, if nobody edited it meanwhile: the window of
\* minutes between fingerprint and suite run leaves nothing in ledger.bin that is
\* served for the wrong tree (cache.rs 435-490).
LedgerIsOfTheTree ==
    \A p \in Procs, v \in Versions :
        Undisturbed(p, v) /\ led[p] # None => led[p].of = v

\* "uncovered" and "covered" are true of the changed lines of the tree, each has its
\* row, and nothing is called uncovered because nobody watched (main.rs 896-901), if
\* the suite got as far as its tests.  Excepted are the rows of bare deletions: that
\* a deletion contributes no changed line (change_cov.rs 14-15, 92-93) is not what the
\* code does, which gives it the line that it comes after (change_cov.rs 67).
CoverageIsTrue ==
    \A p \in Procs, v \in Versions :
        Undisturbed(p, v) /\ asked[p].verb = "coverage" =>
            LET watched == led[p] # None /\ led[p].by \in Monitors
            IN  led[p] = None \/ Observes(led[p]) =>
                  {r \in Answer(p) : r.line \notin DeletionMarks(v) \ AddedLines(v)} =
                      {[line |-> x,
                        status |-> CASE ~watched -> "unknown"
                                     [] watched /\ x \in Ran[v] -> "covered"
                                     [] OTHER -> "uncovered"] : x \in AddedLines(v)}

\* Every effect the suite performed and every static effect of the query is in the
\* answer, under a label that is true: a static effect that the audit hook can see
\* is "predicted" only if the run did not perform it, and one that it cannot see is
\* never held against the prediction (main.rs 663-672, 890-893).
EffectsAreTrue ==
    \A p \in Procs, v \in Versions :
        Undisturbed(p, v) /\ asked[p].verb # "coverage" =>
            LET all == asked[p].verb = "effects of all"
                performed == IF Observes(led[p]) THEN Performed[v] ELSE {}
                About(o) == all \/ o \in Scope[v].reachable
                Rows(c) == {r \in Answer(p) : r.confidence = c}
            IN  /\ \A s \in Sites[v] :
                      (IF s.import_time THEN all \/ s.file \in Scope[v].in_play
                                        ELSE About(s.owner)) =>
                         \E r \in Answer(p) : r.site = s
                /\ \A k \in performed : About(k[1]) =>
                      \E r \in Rows("confirmed") \cup Rows("observed") : r.key = k
                /\ \A r \in Rows("confirmed") \cup Rows("observed") : r.key \in performed
                /\ \A r \in Rows("predicted") \cup Rows("unverifiable") :
                      /\ r.key \notin performed
                      /\ r.site.cat \in {"fs", "network", "subprocess", "db"}
                            <=> r.confidence = "predicted"

\* What a query says of a tree that was left alone is true of that tree, whoever ran
\* the suite for it, and whenever.
AnswersAreTrue == CoverageIsTrue /\ EffectsAreTrue

\* What keeps the suite from being run once and for all: edits, cleans, and queries
\* that bypass the cache or name an interpreter that cannot run the suite.
Disturbance ==
    \/ EditTree \/ Clean
    \/ \E p \in Procs :
          /\ Start(p)
          /\ asked'[p].mode = "no cache" \/ Suite[asked'[p].python][disk] = "missing"

\* "effects, describe and tests --base share a single pytest run": once left alone,
\* processes that overwrite each other's ledger.bin, and run suites that fail, come
\* to run the suite no more.
SettlesOnOneRun ==
    <>[][~Disturbance]_vars => <>[](\A p \in Procs : ~At(p, "run"))

=============================================================================
