------------------------------ MODULE SuiteRun ------------------------------
(***************************************************************************)
(* One instrumented run of the test suite: drive and observed_all of       *)
(* pyq-dynamic/src/lib.rs start pytest with the plugin of                  *)
(* sidecar/pyq_trace/, whose collectors (coverage.py, ledger.py,           *)
(* shapes.py) are called back in the thread that runs a line, performs an  *)
(* audited effect or returns, and whose pytest_unconfigure writes three    *)
(* output files that observed_all reads when pytest is gone.               *)
(*                                                                         *)
(* A thread may lose the interpreter lock after any call that a callback   *)
(* makes, so a callback has as many steps as it has accesses to the        *)
(* collectors with a call in between.                                      *)
(***************************************************************************)
EXTENDS Naturals, FiniteSets

CONSTANTS
    Tests,      \* pytest nodeids
    Lines,      \* lines of the project
    Owners,     \* callables of the project
    Threads,    \* threads that the tests and the project start
    Main,       \* pytest's own thread, which runs the hooks and the tests
    MaxEvents,  \* bound: lines, effects and returns of one run
    None,       \* no test, no callback, no file
    Torn        \* a file that was created and not completely written

ASSUME NamesAreDistinct == /\ Main \notin Threads
                           /\ None \notin Tests
ASSUME MaxEventsIsNatural == MaxEvents \in Nat

VARIABLES
    mode,       \* which collectors are asked for; has Python sys.monitoring
    pc,         \* where pytest is
    running,    \* the test that pytest is running, or None
    current,    \* CoverageTracker._current, named by the test it belongs to
    perTest,    \* CoverageTracker.per_test
    allLines,   \* CoverageTracker.all_lines
    hits,       \* EffectLedger._effects
    returns,    \* ShapeTracker.returns: the callables with an observed type
    busy,       \* busy[t]: the callback that thread t is in, or None
    startedBy,  \* startedBy[t]: the test that started thread t
    draft,      \* what pytest_unconfigure has computed and not yet written
    out,        \* the output files
    result,     \* what observed_all returned
    events,     \* how many events there were
    ran,        \* (history) <<thread, test, line>>: who ran what, for which test
    performed,  \* (history) audited effects by callable
    upto        \* (history) what had been observed when the session ended

tracker == <<current, perTest, allLines>>
collected == <<tracker, hits, returns>>
outcome == <<draft, out, result>>
history == <<events, ran, performed, upto>>
vars == <<mode, pc, running, collected, busy, startedBy, outcome, history>>

-----------------------------------------------------------------------------
(* Data *)

Everyone == Threads \cup {Main}
Origins == Tests \cup {None}
Maybe(S) == S \cup {None}

\* The callbacks, where they can be interrupted: _on_line before and after
\* all_lines.add, _hook with the count it got.
Callbacks ==
    [kind : {"enter", "added"}, line : Lines, for : Origins]
        \cup [kind : {"effect"}, owner : Owners, read : Nat]

PerTest == UNION {[D -> SUBSET Lines] : D \in SUBSET Tests}
Hits == UNION {[D -> 1 .. MaxEvents] : D \in SUBSET Owners}
Coverage == [files : SUBSET Lines, tests : PerTest]

Written(S) == S \cup {None, Torn}
NoOutput == [effects |-> None, coverage |-> None, shapes |-> None]
EmptyMap == [x \in {} |-> None]

Steps == {"starting", "between", "testing", "envelope", "effects", "dump effects",
          "coverage", "list files", "list tests", "shapes", "dump shapes", "gone"}

TypeOK ==
    /\ mode \in [all : BOOLEAN, monitoring : BOOLEAN]
    /\ pc \in Steps
    /\ running \in Origins
    /\ current \in Maybe(DOMAIN perTest)
    /\ perTest \in PerTest
    /\ allLines \subseteq Lines
    /\ hits \in Hits
    /\ returns \subseteq Owners
    /\ busy \in [Everyone -> Maybe(Callbacks)]
    /\ startedBy \in [Threads -> Origins \cup {"nobody"}]
    /\ draft \in [hits : Hits, files : SUBSET Lines]
    /\ out.effects \in Written(Hits)
    /\ out.coverage \in Written(Coverage)
    /\ out.shapes \in Written(SUBSET Owners)
    /\ result \in {"none", "ok", "error"}
    /\ events \in 0 .. MaxEvents
    /\ ran \subseteq Everyone \X Origins \X Lines
    /\ performed \in [Owners -> 0 .. MaxEvents]
    /\ upto \in [lines : SUBSET Lines, effects : SUBSET Owners, returns : SUBSET Owners]
    /\ pc = "testing" => running # None

Init ==
    /\ mode \in [all : BOOLEAN, monitoring : BOOLEAN]
    /\ pc = "starting"
    /\ running = None
    /\ current = None
    /\ perTest = EmptyMap
    /\ allLines = {}
    /\ hits = EmptyMap
    /\ returns = {}
    /\ busy = [t \in Everyone |-> None]
    /\ startedBy = [t \in Threads |-> "nobody"]
    /\ draft = [hits |-> EmptyMap, files |-> {}]
    /\ out = NoOutput
    /\ result = "none"
    /\ events = 0
    /\ ran = {}
    /\ performed = [o \in Owners |-> 0]
    /\ upto = [lines |-> {}, effects |-> {}, returns |-> {}]

-----------------------------------------------------------------------------
(* The session, as pytest drives it *)

From(here, there) == pc = here /\ pc' = there
InSession == pc \in {"between", "testing"}

\* pytest_configure installs the collectors, before anything is collected.
Configure ==
    /\ From("starting", "between")
    /\ UNCHANGED <<mode, running, collected, busy, startedBy, outcome, history>>

\* No interpreter, no pytest, or arguments that pytest refuses.
NotConfigured ==
    /\ From("starting", "gone")
    /\ UNCHANGED <<mode, running, collected, busy, startedBy, outcome, history>>

\* Mutant: a test that runs again starts from an empty set.
StartAfresh(n) ==
    /\ current' = n
    /\ perTest' = [m \in DOMAIN perTest \cup {n} |-> IF m = n THEN {} ELSE perTest[m]]

\* Mutant: the test is looked up, but its set is never put into per_test.
StartUnlisted(n) == current' = n /\ UNCHANGED perTest

\* start_test: the set of the test, which a test that runs again already has.
StartTest(n) ==
    /\ current' = n
    /\ perTest' = [m \in DOMAIN perTest \cup {n} |->
                      IF m \in DOMAIN perTest THEN perTest[m] ELSE {}]

\* pytest_runtest_logstart.  A rerun plugin may start one nodeid several times.
LogStart(n) ==
    /\ From("between", "testing")
    /\ busy[Main] = None
    /\ running' = n
    /\ IF mode.all THEN StartTest(n) ELSE UNCHANGED <<current, perTest>>
    /\ UNCHANGED <<mode, allLines, hits, returns, busy, startedBy, outcome, history>>

\* pytest_runtest_logfinish, and its stop_test.
LogFinish ==
    /\ From("testing", "between")
    /\ busy[Main] = None
    /\ running' = None
    /\ current' = None
    /\ UNCHANGED <<mode, perTest, allLines, hits, returns, busy, startedBy, outcome, history>>

\* The session ends; pytest_unconfigure is next.
EndSession ==
    /\ pc' = "envelope"
    /\ upto' = [lines |-> {x[3] : x \in ran},
                effects |-> {o \in Owners : performed[o] > 0},
                returns |-> returns]
    /\ UNCHANGED <<mode, running, collected, startedBy, outcome, events, ran, performed>>

Finish ==
    /\ pc = "between"
    /\ busy[Main] = None
    /\ UNCHANGED busy
    /\ EndSession

\* Ctrl-C or pytest.exit ends the session inside a test and inside a callback;
\* pytest_runtest_logfinish is not called.
Interrupt ==
    /\ InSession
    /\ busy' = [busy EXCEPT ![Main] = None]
    /\ EndSession

Kill ==
    /\ pc' = "gone"
    /\ pc # "gone"
    /\ UNCHANGED <<mode, running, collected, busy, startedBy, outcome, history>>

-----------------------------------------------------------------------------
(* The callbacks, in the thread that caused them *)

Origin(t) == IF t = Main THEN running ELSE startedBy[t]

\* Thread t runs code of the project.  Main does so while it collects and tests;
\* the others go on as long as the process does.
Runs(t) ==
    /\ busy[t] = None
    /\ IF t = Main THEN InSession
                   ELSE startedBy[t] # "nobody" /\ pc # "gone"

StartThread(t, u) ==
    /\ InSession
    /\ Runs(u)
    /\ startedBy[t] = "nobody"
    /\ startedBy' = [startedBy EXCEPT ![t] = Origin(u)]
    /\ UNCHANGED <<mode, pc, running, collected, busy, outcome, history>>

Event == events < MaxEvents /\ events' = events + 1
Enter(t, callback) == busy' = [busy EXCEPT ![t] = callback]
Leave(t) == busy' = [busy EXCEPT ![t] = None]
In(t, kind) == pc # "gone" /\ busy[t] # None /\ busy[t].kind = kind

\* Are line events on?  uninstall turns them off before coverage is written.
LinesOn == /\ mode.all /\ mode.monitoring
           /\ pc \in {"between", "testing", "envelope", "effects", "dump effects", "coverage"}

ReturnsOn == /\ mode.all /\ mode.monitoring
             /\ \/ LinesOn
                \/ pc \in {"list files", "list tests", "shapes"}

RunLine(t, l) ==
    /\ Runs(t)
    /\ LinesOn
    /\ Event
    /\ Enter(t, [kind |-> "enter", line |-> l, for |-> Origin(t)])
    /\ UNCHANGED <<mode, pc, running, collected, startedBy, outcome, ran, performed, upto>>

\* Before Python 3.12 nobody is called back.
RunUnseen(t, l) ==
    /\ Runs(t)
    /\ InSession
    /\ mode.all /\ ~mode.monitoring
    /\ Event
    /\ ran' = ran \cup {<<t, Origin(t), l>>}
    /\ UNCHANGED <<mode, pc, running, collected, busy, startedBy, outcome, performed, upto>>

\* Mutant: only lines of tests reach the union.
AddTestLine(t) ==
    /\ In(t, "enter")
    /\ allLines' = IF current = None THEN allLines ELSE allLines \cup {busy[t].line}
    /\ Enter(t, [busy[t] EXCEPT !.kind = "added"])
    /\ UNCHANGED <<mode, pc, running, current, perTest, hits, returns, startedBy,
                   outcome, history>>

\* _on_line: all_lines.add(key).
AddLine(t) ==
    /\ In(t, "enter")
    /\ allLines' = allLines \cup {busy[t].line}
    /\ Enter(t, [busy[t] EXCEPT !.kind = "added"])
    /\ UNCHANGED <<mode, pc, running, current, perTest, hits, returns, startedBy,
                   outcome, history>>

\* _on_line: whatever test is current by now gets the line.
Attribute(t) ==
    /\ In(t, "added")
    /\ Leave(t)
    /\ perTest' = IF current = None THEN perTest
                  ELSE [perTest EXCEPT ![current] = @ \cup {busy[t].line}]
    /\ ran' = ran \cup {<<t, busy[t].for, busy[t].line>>}
    /\ UNCHANGED <<current, allLines>>
    /\ UNCHANGED <<mode, running, hits, returns, startedBy, events, performed, upto>>

AttributeLine(t) ==
    /\ Attribute(t)
    /\ UNCHANGED <<pc, outcome>>

\* _hook: _effects.get(key, 0).  It is installed in every mode and never removed;
\* what it collects after the envelope is rendered is not looked at any more.
AuditEffect(t, o) ==
    /\ Runs(t)
    /\ InSession \/ pc = "envelope"
    /\ Event
    /\ Enter(t, [kind |-> "effect", owner |-> o,
                 read |-> IF o \in DOMAIN hits THEN hits[o] ELSE 0])
    /\ UNCHANGED <<mode, pc, running, collected, startedBy, outcome, ran, performed, upto>>

\* Mutant: a first effect is counted from what get returned before.
CountKnown(t) ==
    /\ In(t, "effect")
    /\ Leave(t)
    /\ hits' = [p \in DOMAIN hits |-> IF p = busy[t].owner THEN busy[t].read + 1 ELSE hits[p]]
    /\ performed' = [performed EXCEPT ![busy[t].owner] = @ + 1]
    /\ UNCHANGED <<mode, running, tracker, returns, startedBy, events, ran, upto>>

\* _hook: _effects[key] = that + 1.
Count(t) ==
    /\ In(t, "effect")
    /\ Leave(t)
    /\ LET o == busy[t].owner
       IN  /\ hits' = [p \in DOMAIN hits \cup {o} |-> IF p = o THEN busy[t].read + 1 ELSE hits[p]]
           /\ performed' = [performed EXCEPT ![o] = @ + 1]
    /\ UNCHANGED <<mode, running, tracker, returns, startedBy, events, ran, upto>>

CountEffect(t) ==
    /\ Count(t)
    /\ UNCHANGED <<pc, outcome>>

\* _on_return.
ObserveReturn(t, o) ==
    /\ Runs(t)
    /\ ReturnsOn
    /\ Event
    /\ returns' = returns \cup {o}
    /\ UNCHANGED <<mode, pc, running, tracker, hits, busy, startedBy, outcome,
                   ran, performed, upto>>

-----------------------------------------------------------------------------
(* pytest_unconfigure *)

Quiet == UNCHANGED <<mode, running, collected, busy, startedBy, result, history>>

\* The envelope is rendered first, and its file opened then.
RenderEffects ==
    /\ From("envelope", "effects")
    /\ draft' = [draft EXCEPT !.hits = hits]
    /\ UNCHANGED out
    /\ Quiet

\* A callable's first effect, in a thread, while results is in the middle of the dict:
\* the iteration fails, and pytest_unconfigure with it.
RenderBreaks(t) ==
    /\ From("envelope", "gone")
    /\ DOMAIN hits # {}
    /\ Count(t)
    /\ busy[t].owner \notin DOMAIN hits
    /\ UNCHANGED outcome

OpenEffects ==
    /\ From("effects", "dump effects")
    /\ out' = [out EXCEPT !.effects = Torn]
    /\ UNCHANGED draft
    /\ Quiet

DumpEffects ==
    /\ pc = "dump effects"
    /\ pc' = IF mode.all THEN "coverage" ELSE "gone"
    /\ out' = [out EXCEPT !.effects = draft.hits]
    /\ UNCHANGED draft
    /\ Quiet

\* The coverage file is opened first, and its contents computed then.
OpenCoverage ==
    /\ From("coverage", "list files")
    /\ out' = [out EXCEPT !.coverage = Torn]
    /\ UNCHANGED draft
    /\ Quiet

\* to_dict: the union ...
ListFiles ==
    /\ From("list files", "list tests")
    /\ draft' = [draft EXCEPT !.files = allLines]
    /\ UNCHANGED out
    /\ Quiet

\* ... and then the tests.
ListTests ==
    /\ From("list tests", "shapes")
    /\ out' = [out EXCEPT !.coverage = [files |-> draft.files, tests |-> perTest]]
    /\ UNCHANGED draft
    /\ Quiet

\* A thread that was in the callback adds to the set of the interrupted test while
\* to_dict is in the middle of it.
ListBreaks(t) ==
    /\ From("list tests", "gone")
    /\ current # None
    /\ perTest[current] # {}
    /\ Attribute(t)
    /\ perTest' # perTest
    /\ UNCHANGED outcome

OpenShapes ==
    /\ From("shapes", "dump shapes")
    /\ out' = [out EXCEPT !.shapes = Torn]
    /\ UNCHANGED draft
    /\ Quiet

DumpShapes ==
    /\ From("dump shapes", "gone")
    /\ out' = [out EXCEPT !.shapes = returns]
    /\ UNCHANGED draft
    /\ Quiet

Unconfigure ==
    \/ RenderEffects \/ OpenEffects \/ DumpEffects
    \/ OpenCoverage \/ ListFiles \/ ListTests
    \/ OpenShapes \/ DumpShapes
    \/ \E t \in Threads : RenderBreaks(t) \/ ListBreaks(t)

-----------------------------------------------------------------------------
(* pyq, which waits for pytest to be gone *)

Parses(o) == o \notin {None, Torn}

\* Mutant: whoever wrote the first file has written them all.
ObserveFirst ==
    /\ pc = "gone"
    /\ result = "none"
    /\ result' = IF Parses(out.effects) THEN "ok" ELSE "error"
    /\ UNCHANGED <<mode, pc, running, collected, busy, startedBy, draft, out, history>>

\* observed_all, or observed_effects when only effects are asked for.
Observe ==
    /\ pc = "gone"
    /\ result = "none"
    /\ result' = IF /\ Parses(out.effects)
                    /\ mode.all => Parses(out.coverage) /\ Parses(out.shapes)
                 THEN "ok" ELSE "error"
    /\ UNCHANGED <<mode, pc, running, collected, busy, startedBy, draft, out, history>>

\* The call is over.  The next one has another interpreter and files of its own.
Returned == result # "none" /\ UNCHANGED vars

\* Mutant: coverage is taken at its word.
SuiteRan == result = "ok" /\ mode.all

\* Coverage::monitoring_available, which is false too when there is no ledger.
MonitoringAvailable == result = "ok" /\ mode.all /\ mode.monitoring

\* query_change_cov: what is said of a changed line.
Status(l) ==
    IF ~MonitoringAvailable THEN "unknown"
    ELSE IF l \in out.coverage.files THEN "covered" ELSE "uncovered"

CoveringTests(l) ==
    {n \in DOMAIN out.coverage.tests : l \in out.coverage.tests[n]}

-----------------------------------------------------------------------------
Callback(t) ==
    \/ \E u \in Everyone : t \in Threads /\ StartThread(t, u)
    \/ \E l \in Lines : RunLine(t, l) \/ RunUnseen(t, l)
    \/ AddLine(t)
    \/ AttributeLine(t)
    \/ \E o \in Owners : AuditEffect(t, o) \/ ObserveReturn(t, o)
    \/ CountEffect(t)

Next ==
    \/ Configure \/ NotConfigured
    \/ \E n \in Tests : LogStart(n)
    \/ LogFinish \/ Finish \/ Interrupt \/ Kill
    \/ \E t \in Everyone : Callback(t)
    \/ Unconfigure
    \/ Observe \/ Returned

Spec == Init /\ [][Next]_vars

-----------------------------------------------------------------------------
(* Properties *)

RanBy(t, n) == {l \in Lines : <<t, n, l>> \in ran}
InBackground == {l \in Lines : \E t \in Threads, n \in Origins : <<t, n, l>> \in ran}

\* An observation that pyq accepts is of the whole session: whatever died or broke
\* while pytest wrote its three files, no effect, line, test or return type that was
\* observed before the session ended is missing (lib.rs 68-106, 169-181).
OkIsWhole ==
    result = "ok" =>
        /\ Parses(out.effects) /\ upto.effects \subseteq DOMAIN out.effects
        /\ mode.all => /\ Parses(out.coverage) /\ Parses(out.shapes)
                       /\ mode.monitoring => upto.lines \subseteq out.coverage.files
                       /\ DOMAIN perTest = DOMAIN out.coverage.tests
                       /\ upto.returns \subseteq out.shapes

\* A changed line is called uncovered only if no test, fixture or import ran it in the
\* session; when pyq cannot know, it does not say so (main.rs 919-978).
UncoveredWasNotRun ==
    result # "none" =>
        \A l \in Lines : Status(l) = "uncovered" => l \notin upto.lines

\* pytest's own thread is attributed exactly, over all the runs of a test: every line it
\* ran for a finished test, and beyond these only what some other thread ran
\* (coverage.py 54-74).  The test that was interrupted, if any, is still current.
MainIsAttributedExactly ==
    Parses(out.coverage) /\ mode.monitoring =>
        \A n \in DOMAIN out.coverage.tests \ {current} :
            /\ RanBy(Main, n) \subseteq out.coverage.tests[n]
            /\ out.coverage.tests[n] \subseteq RanBy(Main, n) \cup InBackground

\* The tests that cover a line and the lines that are covered agree, unless a test was
\* cut short (coverage.py 67-85, lib.rs 292-304).
CoveringTestsCover ==
    Parses(out.coverage) /\ current = None =>
        \A l \in Lines : CoveringTests(l) # {} => l \in out.coverage.files

\* Threads may overwrite each other's counts, but a callable is in the ledger exactly when
\* it performed an effect, and never with more hits than it had (ledger.py 86-88).
LedgerNeverOvercounts ==
    /\ DOMAIN hits = {o \in Owners : performed[o] > 0}
    /\ \A o \in DOMAIN hits : hits[o] <= performed[o]

=============================================================================
