--------------------------- MODULE SuiteRunProofs ---------------------------
(***************************************************************************)
(* Proofs about SuiteRun, for every set of tests, lines, callables and     *)
(* threads and every number of events: the ledger, what the files that pyq *)
(* accepts say of the session, and the types, for which each effect that   *)
(* is counted, or about to be, must have been an event.                    *)
(***************************************************************************)
EXTENDS SuiteRun, FiniteSetTheorems, TLAPS

\* The steps of pytest's hooks that leave the collectors and the files alone.
Hook ==
    \/ Configure \/ NotConfigured
    \/ \E n \in Tests : LogStart(n)
    \/ LogFinish \/ Finish \/ Kill

\* The steps of pytest_unconfigure that nothing breaks.
Writing ==
    \/ RenderEffects \/ OpenEffects \/ DumpEffects
    \/ OpenCoverage \/ ListFiles \/ ListTests
    \/ OpenShapes \/ DumpShapes

\* Next, by what the steps disturb.
LEMMA NextByKind ==
    ASSUME [Next]_vars
    PROVE  \/ Hook \/ Interrupt \/ Writing \/ Observe \/ UNCHANGED vars
           \/ \E t \in Threads : RenderBreaks(t) \/ ListBreaks(t)
           \/ \E t \in Everyone : Callback(t)
BY DEF Next, Unconfigure, Hook, Writing, Returned

-----------------------------------------------------------------------------
(* The ledger *)

\* Thread t is in the audit hook, between get and the assignment.
Counting(t) == busy[t] # None /\ busy[t].kind = "effect"

LedgerInv ==
    /\ busy = [t \in Everyone |-> busy[t]]
    /\ performed \in [Owners -> Nat]
    /\ LedgerNeverOvercounts
    /\ \A o \in DOMAIN hits : hits[o] \in Nat
    /\ \A t \in Everyone : Counting(t) =>
           /\ busy[t].owner \in Owners
           /\ busy[t].read \in Nat
           /\ busy[t].read <= performed[busy[t].owner]

LEMMA LedgerInit == Init => LedgerInv
BY DEF Init, LedgerInv, LedgerNeverOvercounts, Counting, EmptyMap

\* A step that leaves the ledger alone and starts no count.
LEMMA LedgerUntouched ==
    ASSUME LedgerInv,
           UNCHANGED <<hits, performed>>,
           busy' = [t \in Everyone |-> busy'[t]],
           \A t \in Everyone : busy'[t] = busy[t] \/ ~Counting(t)'
    PROVE  LedgerInv'
BY DEF LedgerInv, LedgerNeverOvercounts, Counting

\* Whatever the others counted meanwhile, the count that was read is not above theirs.
LEMMA LedgerCount ==
    ASSUME LedgerInv, NEW t \in Everyone, Count(t)
    PROVE  LedgerInv'
<1>. DEFINE o == busy[t].owner
<1>1. /\ o \in Owners
      /\ busy[t].read \in Nat
      /\ busy[t].read <= performed[o]
    BY DEF Count, In, LedgerInv, Counting
<1>2. /\ performed' = [performed EXCEPT ![o] = @ + 1]
      /\ DOMAIN hits' = DOMAIN hits \cup {o}
      /\ \A p \in DOMAIN hits' : hits'[p] = IF p = o THEN busy[t].read + 1 ELSE hits[p]
      /\ busy' = [busy EXCEPT ![t] = None]
    BY DEF Count, Leave
<1>3. performed' \in [Owners -> Nat]
    BY <1>1, <1>2 DEF LedgerInv
<1>4. \A p \in Owners : performed'[p] = IF p = o THEN performed[p] + 1 ELSE performed[p]
    BY <1>1, <1>2 DEF LedgerInv
<1>5. LedgerNeverOvercounts'
    BY <1>1, <1>2, <1>4 DEF LedgerInv, LedgerNeverOvercounts
<1>6. \A p \in DOMAIN hits' : hits'[p] \in Nat
    BY <1>1, <1>2 DEF LedgerInv
<1>7. \A u \in Everyone : Counting(u)' => u # t /\ Counting(u) /\ busy'[u] = busy[u]
    BY <1>2 DEF LedgerInv, Counting
<1>8. ASSUME NEW u \in Everyone, Counting(u)'
      PROVE  /\ busy'[u].owner \in Owners
             /\ busy'[u].read \in Nat
             /\ busy'[u].read <= performed'[busy'[u].owner]
    BY <1>4, <1>7, <1>8 DEF LedgerInv
<1>9. busy' = [u \in Everyone |-> busy'[u]]
    BY <1>2 DEF LedgerInv
<1>. QED
    BY <1>3, <1>5, <1>6, <1>8, <1>9 DEF LedgerInv

LEMMA LedgerCallback ==
    ASSUME LedgerInv, NEW t \in Everyone, Callback(t)
    PROVE  LedgerInv'
<1>1. ASSUME NEW u \in Everyone, t \in Threads, StartThread(t, u)
      PROVE  LedgerInv'
    BY <1>1, LedgerUntouched DEF StartThread, collected, outcome, history, LedgerInv
<1>2. ASSUME NEW l \in Lines, RunLine(t, l)
      PROVE  LedgerInv'
    BY <1>2, LedgerUntouched DEF RunLine, Enter, Counting, collected, LedgerInv
<1>3. ASSUME NEW l \in Lines, RunUnseen(t, l)
      PROVE  LedgerInv'
    BY <1>3, LedgerUntouched DEF RunUnseen, collected, LedgerInv
<1>4. CASE AddLine(t)
    BY <1>4, LedgerUntouched DEF AddLine, Enter, In, Counting, history, LedgerInv
<1>5. CASE AttributeLine(t)
    BY <1>5, LedgerUntouched DEF AttributeLine, Attribute, Leave, Counting, LedgerInv
<1>6. ASSUME NEW o \in Owners, AuditEffect(t, o)
      PROVE  LedgerInv'
    <2>1. /\ UNCHANGED <<hits, performed>>
          /\ busy' = [busy EXCEPT ![t] = [kind |-> "effect", owner |-> o,
                         read |-> IF o \in DOMAIN hits THEN hits[o] ELSE 0]]
        BY <1>6 DEF AuditEffect, Enter, collected
    <2>2. /\ busy'[t].owner = o
          /\ busy'[t].read \in Nat
          /\ busy'[t].read <= performed[o]
        BY <2>1 DEF LedgerInv, LedgerNeverOvercounts
    <2>3. \A u \in Everyone \ {t} : busy'[u] = busy[u]
        BY <2>1 DEF LedgerInv
    <2>4. busy' = [u \in Everyone |-> busy'[u]]
        BY <2>1 DEF LedgerInv
    <2>. QED
        BY <2>1, <2>2, <2>3, <2>4 DEF LedgerInv, LedgerNeverOvercounts, Counting
<1>7. ASSUME NEW o \in Owners, ObserveReturn(t, o)
      PROVE  LedgerInv'
    BY <1>7, LedgerUntouched DEF ObserveReturn, LedgerInv
<1>8. CASE CountEffect(t)
    BY <1>8, LedgerCount DEF CountEffect
<1>. QED
    BY <1>1, <1>2, <1>3, <1>4, <1>5, <1>6, <1>7, <1>8 DEF Callback

LEMMA LedgerNext == LedgerInv /\ [Next]_vars => LedgerInv'
<1>. SUFFICES ASSUME LedgerInv, [Next]_vars PROVE LedgerInv'
    OBVIOUS
<1>1. CASE Hook
    BY <1>1, LedgerUntouched
    DEF Hook, Configure, NotConfigured, LogStart, LogFinish, Finish, EndSession, Kill,
        collected, history, LedgerInv
<1>2. CASE Interrupt
    BY <1>2, LedgerUntouched DEF Interrupt, EndSession, collected, Counting, LedgerInv
<1>3. CASE Writing
    <2>1. Quiet
        BY <1>3 DEF Writing, RenderEffects, OpenEffects, DumpEffects, OpenCoverage,
                    ListFiles, ListTests, OpenShapes, DumpShapes
    <2>. QED
        BY <2>1, LedgerUntouched DEF Quiet, collected, history, LedgerInv
<1>4. CASE Observe
    BY <1>4, LedgerUntouched DEF Observe, collected, history, LedgerInv
<1>5. CASE UNCHANGED vars
    BY <1>5, LedgerUntouched DEF vars, collected, history, LedgerInv
<1>6. ASSUME NEW t \in Threads, RenderBreaks(t)
      PROVE  LedgerInv'
    BY <1>6, LedgerCount DEF RenderBreaks, Everyone
<1>7. ASSUME NEW t \in Threads, ListBreaks(t)
      PROVE  LedgerInv'
    BY <1>7, LedgerUntouched DEF ListBreaks, Attribute, Leave, Counting, LedgerInv
<1>8. ASSUME NEW t \in Everyone, Callback(t)
      PROVE  LedgerInv'
    BY <1>8, LedgerCallback
<1>. QED
    BY <1>1, <1>2, <1>3, <1>4, <1>5, <1>6, <1>7, <1>8, NextByKind

-----------------------------------------------------------------------------
(* The files *)

\* Nothing is written before the session has ended; pyq reads when pytest is gone.
FilesInv ==
    /\ out = [effects |-> out.effects, coverage |-> out.coverage, shapes |-> out.shapes]
    /\ draft = [hits |-> draft.hits, files |-> draft.files]
    /\ pc \in {"starting", "between", "testing"} => out = NoOutput
    /\ result # "none" => pc = "gone"
    /\ result = "ok" => /\ Parses(out.effects)
                        /\ mode.all => Parses(out.coverage) /\ Parses(out.shapes)

LEMMA FilesInit == Init => FilesInv
BY DEF Init, FilesInv, NoOutput

LEMMA FilesNext == FilesInv /\ [Next]_vars => FilesInv'
<1>. SUFFICES ASSUME FilesInv, [Next]_vars PROVE FilesInv'
    OBVIOUS
<1>. USE DEF FilesInv, Parses
<1>1. CASE Hook
    BY <1>1 DEF Hook, Configure, NotConfigured, LogStart, LogFinish, Finish, EndSession,
                Kill, From, outcome
<1>2. CASE Interrupt
    BY <1>2 DEF Interrupt, EndSession, InSession, outcome
<1>3. CASE Writing
    BY <1>3 DEF Writing, RenderEffects, OpenEffects, DumpEffects, OpenCoverage,
                ListFiles, ListTests, OpenShapes, DumpShapes, Quiet, From
<1>4. CASE Observe
    BY <1>4 DEF Observe
<1>5. CASE UNCHANGED vars
    BY <1>5 DEF vars, outcome
<1>6. ASSUME NEW t \in Threads, RenderBreaks(t) \/ ListBreaks(t)
      PROVE  FilesInv'
    BY <1>6 DEF RenderBreaks, ListBreaks, Count, Attribute, From, outcome
<1>7. ASSUME NEW t \in Everyone, Callback(t)
      PROVE  FilesInv'
    BY <1>7 DEF Callback, StartThread, RunLine, RunUnseen, AddLine, AttributeLine, Attribute,
                AuditEffect, ObserveReturn, CountEffect, Count, outcome
<1>. QED
    BY <1>1, <1>2, <1>3, <1>4, <1>5, <1>6, <1>7, NextByKind

-----------------------------------------------------------------------------
(* Effects and return types, from the callbacks to the files *)

EffectsInv ==
    /\ upto.effects \subseteq DOMAIN hits
    /\ pc \in {"effects", "dump effects"} => upto.effects \subseteq DOMAIN draft.hits
    /\ Parses(out.effects) => upto.effects \subseteq DOMAIN out.effects

ReturnsInv ==
    /\ upto.returns \subseteq returns
    /\ Parses(out.shapes) => upto.returns \subseteq out.shapes

LEMMA EffectsInit == Init => EffectsInv /\ ReturnsInv
BY DEF Init, EffectsInv, ReturnsInv, NoOutput, Parses

LEMMA EffectsNext ==
    LedgerInv /\ FilesInv /\ EffectsInv /\ [Next]_vars => EffectsInv'
<1>. SUFFICES ASSUME LedgerInv, FilesInv, EffectsInv, [Next]_vars PROVE EffectsInv'
    OBVIOUS
<1>. USE DEF EffectsInv, Parses
<1>0. ASSUME EndSession, InSession
      PROVE  EffectsInv'
    <2>1. upto'.effects = {o \in Owners : performed[o] > 0}
        BY <1>0 DEF EndSession
    <2>2. /\ pc' = "envelope"
          /\ out' = NoOutput
          /\ hits' = hits
          /\ upto'.effects = DOMAIN hits
        BY <1>0, <2>1 DEF EndSession, InSession, FilesInv, collected, outcome,
                          LedgerInv, LedgerNeverOvercounts
    <2>. QED
        BY <2>2 DEF NoOutput
<1>1. CASE Hook
    <2>1. CASE Finish
        BY <1>0, <2>1 DEF Finish, InSession
    <2>. QED
        BY <1>1, <2>1 DEF Hook, Configure, NotConfigured, LogStart, LogFinish, Kill, From,
                          collected, outcome, history
<1>2. CASE Interrupt
    BY <1>0, <1>2 DEF Interrupt
<1>3. CASE Writing
    BY <1>3 DEF Writing, RenderEffects, OpenEffects, DumpEffects, OpenCoverage,
                ListFiles, ListTests, OpenShapes, DumpShapes, Quiet, From, FilesInv,
                collected, history
<1>4. CASE Observe
    BY <1>4 DEF Observe, collected, history
<1>5. CASE UNCHANGED vars
    BY <1>5 DEF vars, collected, outcome, history
<1>6. ASSUME NEW t, Count(t)
      PROVE  DOMAIN hits \subseteq DOMAIN hits' /\ upto' = upto
    BY <1>6 DEF Count
<1>7. ASSUME NEW t \in Threads, RenderBreaks(t) \/ ListBreaks(t)
      PROVE  EffectsInv'
    <2>1. /\ pc' = "gone" /\ out' = out
          /\ DOMAIN hits \subseteq DOMAIN hits' /\ upto' = upto
        BY <1>6, <1>7 DEF RenderBreaks, ListBreaks, Attribute, From, outcome
    <2>. QED
        BY <2>1
<1>8. ASSUME NEW t \in Everyone, Callback(t)
      PROVE  EffectsInv'
    <2>1. /\ pc' = pc /\ draft' = draft /\ out' = out
          /\ DOMAIN hits \subseteq DOMAIN hits' /\ upto' = upto
        <3>1. CASE CountEffect(t)
            BY <1>6, <3>1 DEF CountEffect, outcome
        <3>2. CASE ~CountEffect(t)
            BY <1>8, <3>2 DEF Callback, StartThread, RunLine, RunUnseen, AddLine,
                AttributeLine, Attribute, AuditEffect, ObserveReturn, collected, outcome, history
        <3>. QED
            BY <3>1, <3>2
    <2>. QED
        BY <2>1
<1>. QED
    BY <1>1, <1>2, <1>3, <1>4, <1>5, <1>7, <1>8, NextByKind

LEMMA ReturnsNext ==
    FilesInv /\ ReturnsInv /\ [Next]_vars => ReturnsInv'
<1>. SUFFICES ASSUME FilesInv, ReturnsInv, [Next]_vars PROVE ReturnsInv'
    OBVIOUS
<1>. USE DEF ReturnsInv, Parses
<1>1. CASE Hook
    BY <1>1 DEF Hook, Configure, NotConfigured, LogStart, LogFinish, Finish, EndSession,
                Kill, From, collected, outcome, history, FilesInv, NoOutput
<1>2. CASE Interrupt
    BY <1>2 DEF Interrupt, EndSession, InSession, collected, outcome, FilesInv, NoOutput
<1>3. CASE Writing
    BY <1>3 DEF Writing, RenderEffects, OpenEffects, DumpEffects, OpenCoverage,
                ListFiles, ListTests, OpenShapes, DumpShapes, Quiet, From, FilesInv,
                collected, history
<1>4. CASE Observe
    BY <1>4 DEF Observe, collected, history
<1>5. CASE UNCHANGED vars
    BY <1>5 DEF vars, collected, outcome, history
<1>6. ASSUME NEW t \in Threads, RenderBreaks(t) \/ ListBreaks(t)
      PROVE  ReturnsInv'
    BY <1>6 DEF RenderBreaks, ListBreaks, Count, Attribute, From, outcome
<1>7. ASSUME NEW t \in Everyone, Callback(t)
      PROVE  ReturnsInv'
    BY <1>7 DEF Callback, StartThread, RunLine, RunUnseen, AddLine, AttributeLine, Attribute,
                AuditEffect, ObserveReturn, CountEffect, Count, collected, outcome, history
<1>. QED
    BY <1>1, <1>2, <1>3, <1>4, <1>5, <1>6, <1>7, NextByKind

-----------------------------------------------------------------------------
(* Lines, from the callbacks to the file *)

\* Thread t is in the line callback.
OnLine(t) == busy[t] # None /\ busy[t].kind \in {"enter", "added"}

LinesInv ==
    /\ \A t \in Everyone : OnLine(t) =>
           /\ busy[t] = [kind |-> busy[t].kind, line |-> busy[t].line, for |-> busy[t].for]
           /\ busy[t].kind = "added" => busy[t].line \in allLines
    /\ mode.monitoring => \A x \in ran : x[3] \in allLines
    /\ mode.monitoring => upto.lines \subseteq allLines
    /\ \A n \in DOMAIN perTest : perTest[n] \subseteq allLines

LEMMA LinesInit == Init => LinesInv
BY DEF Init, LinesInv, OnLine, EmptyMap

LEMMA LinesUntouched ==
    ASSUME LinesInv, LedgerInv,
           UNCHANGED <<mode, perTest, allLines, ran, upto>>,
           \A t \in Everyone : busy'[t] = busy[t] \/ ~OnLine(t)'
    PROVE  LinesInv'
BY DEF LinesInv, OnLine

LEMMA LinesAttribute ==
    ASSUME LinesInv, LedgerInv, NEW t \in Everyone, Attribute(t)
    PROVE  LinesInv'
<1>1. busy[t].line \in allLines
    BY DEF Attribute, In, LinesInv, OnLine
<1>2. /\ allLines' = allLines /\ mode' = mode /\ upto' = upto
      /\ ran' = ran \cup {<<t, busy[t].for, busy[t].line>>}
      /\ busy' = [busy EXCEPT ![t] = None]
      /\ perTest' = IF current = None THEN perTest
                    ELSE [perTest EXCEPT ![current] = @ \cup {busy[t].line}]
    BY DEF Attribute, Leave
<1>3. \A n \in DOMAIN perTest' : perTest'[n] \subseteq allLines'
    BY <1>1, <1>2 DEF LinesInv
<1>4. mode.monitoring => \A x \in ran' : x[3] \in allLines
    BY <1>1, <1>2 DEF LinesInv
<1>5. \A u \in Everyone : busy'[u] = busy[u] \/ busy'[u] = None
    BY <1>2 DEF LedgerInv
<1>. QED
    BY <1>2, <1>3, <1>4, <1>5 DEF LinesInv, OnLine

LEMMA LinesEnd ==
    ASSUME LinesInv, EndSession, \A t \in Everyone : busy'[t] = busy[t] \/ busy'[t] = None
    PROVE  LinesInv'
<1>1. UNCHANGED <<mode, perTest, allLines, ran>>
    BY DEF EndSession, collected, tracker
<1>2. upto'.lines = {x[3] : x \in ran}
    BY DEF EndSession
<1>3. mode.monitoring => upto'.lines \subseteq allLines
    BY <1>2 DEF LinesInv
<1>. QED
    BY <1>1, <1>3 DEF LinesInv, OnLine

LEMMA LinesCallback ==
    ASSUME LinesInv, LedgerInv, NEW t \in Everyone, Callback(t)
    PROVE  LinesInv'
<1>1. ASSUME NEW u \in Everyone, t \in Threads, StartThread(t, u)
      PROVE  LinesInv'
    BY <1>1, LinesUntouched DEF StartThread, collected, tracker, outcome, history
<1>2. ASSUME NEW l \in Lines, RunLine(t, l)
      PROVE  LinesInv'
    BY <1>2 DEF RunLine, Enter, OnLine, collected, tracker, LinesInv, LedgerInv
<1>3. ASSUME NEW l \in Lines, RunUnseen(t, l)
      PROVE  LinesInv'
    BY <1>3 DEF RunUnseen, OnLine, collected, tracker, LinesInv
<1>4. CASE AddLine(t)
    <2>1. OnLine(t) /\ busy[t] = [kind |-> busy[t].kind, line |-> busy[t].line, for |-> busy[t].for]
        BY <1>4 DEF AddLine, In, OnLine, LinesInv
    <2>2. /\ allLines' = allLines \cup {busy[t].line}
          /\ busy' = [busy EXCEPT ![t] = [busy[t] EXCEPT !.kind = "added"]]
          /\ UNCHANGED <<mode, perTest, ran, upto>>
        BY <1>4 DEF AddLine, Enter, history
    <2>3. busy'[t] = [kind |-> "added", line |-> busy[t].line, for |-> busy[t].for]
        BY <2>1, <2>2 DEF LedgerInv
    <2>4. \A u \in Everyone \ {t} : busy'[u] = busy[u]
        BY <2>2 DEF LedgerInv
    <2>. QED
        BY <2>2, <2>3, <2>4 DEF LinesInv, OnLine
<1>5. CASE AttributeLine(t)
    BY <1>5, LinesAttribute DEF AttributeLine
<1>6. ASSUME NEW o \in Owners, AuditEffect(t, o)
      PROVE  LinesInv'
    BY <1>6, LinesUntouched DEF AuditEffect, Enter, OnLine, collected, tracker, LedgerInv
<1>7. ASSUME NEW o \in Owners, ObserveReturn(t, o)
      PROVE  LinesInv'
    BY <1>7, LinesUntouched DEF ObserveReturn, tracker
<1>8. CASE CountEffect(t)
    BY <1>8, LinesUntouched DEF CountEffect, Count, Leave, OnLine, tracker, LedgerInv
<1>. QED
    BY <1>1, <1>2, <1>3, <1>4, <1>5, <1>6, <1>7, <1>8 DEF Callback

LEMMA LinesNext ==
    LedgerInv /\ LinesInv /\ [Next]_vars => LinesInv'
<1>. SUFFICES ASSUME LedgerInv, LinesInv, [Next]_vars PROVE LinesInv'
    OBVIOUS
<1>1. CASE Hook
    <2>1. ASSUME NEW n \in Tests, LogStart(n)
          PROVE  LinesInv'
        BY <2>1 DEF LogStart, StartTest, OnLine, LinesInv, history
    <2>2. CASE Finish
        BY <2>2, LinesEnd DEF Finish
    <2>. QED
        BY <1>1, <2>1, <2>2, LinesUntouched
        DEF Hook, Configure, NotConfigured, LogFinish, Kill, collected, tracker, history
<1>2. CASE Interrupt
    BY <1>2, LinesEnd DEF Interrupt, LedgerInv
<1>3. CASE Writing
    <2>1. Quiet
        BY <1>3 DEF Writing, RenderEffects, OpenEffects, DumpEffects, OpenCoverage,
                    ListFiles, ListTests, OpenShapes, DumpShapes
    <2>. QED
        BY <2>1, LinesUntouched DEF Quiet, collected, tracker, history
<1>4. CASE Observe
    BY <1>4, LinesUntouched DEF Observe, collected, tracker, history
<1>5. CASE UNCHANGED vars
    BY <1>5, LinesUntouched DEF vars, collected, tracker, history
<1>6. ASSUME NEW t \in Threads, RenderBreaks(t)
      PROVE  LinesInv'
    BY <1>6, LinesUntouched DEF RenderBreaks, Count, Leave, OnLine, tracker, LedgerInv, Everyone
<1>7. ASSUME NEW t \in Threads, ListBreaks(t)
      PROVE  LinesInv'
    BY <1>7, LinesAttribute DEF ListBreaks, Everyone
<1>8. ASSUME NEW t \in Everyone, Callback(t)
      PROVE  LinesInv'
    BY <1>8, LinesCallback
<1>. QED
    BY <1>1, <1>2, <1>3, <1>4, <1>5, <1>6, <1>7, <1>8, NextByKind

-----------------------------------------------------------------------------
(* The coverage file *)

\* What to_dict lists, before and after it is in the file.  A thread may still be in
\* the callback, but it adds to the test that was interrupted and to no other.
CoverageInv ==
    /\ pc = "list tests" =>
           /\ mode.monitoring => upto.lines \subseteq draft.files
           /\ current = None => \A n \in DOMAIN perTest : perTest[n] \subseteq draft.files
    /\ Parses(out.coverage) =>
           /\ mode.monitoring => upto.lines \subseteq out.coverage.files
           /\ DOMAIN out.coverage.tests = DOMAIN perTest
           /\ \A n \in DOMAIN perTest \ {current} : out.coverage.tests[n] = perTest[n]
           /\ CoveringTestsCover

LEMMA CoverageInit == Init => CoverageInv
BY DEF Init, CoverageInv, NoOutput, Parses

\* A step of a session, when there is no file yet.
LEMMA CoverageInSession ==
    ASSUME pc' # "list tests", out' = NoOutput
    PROVE  CoverageInv'
BY DEF CoverageInv, NoOutput, Parses

LEMMA CoverageUntouched ==
    ASSUME CoverageInv,
           pc' = pc \/ pc' # "list tests",
           UNCHANGED <<mode, current, perTest, upto, draft>>,
           out'.coverage = out.coverage \/ ~Parses(out'.coverage)
    PROVE  CoverageInv'
BY DEF CoverageInv, CoveringTestsCover, CoveringTests, Parses

LEMMA CoverageAttribute ==
    ASSUME CoverageInv, NEW t, Attribute(t),
           pc' = pc \/ pc' # "list tests",
           UNCHANGED <<draft, out>>
    PROVE  CoverageInv'
<1>1. /\ UNCHANGED <<mode, current, upto>>
      /\ DOMAIN perTest' = DOMAIN perTest
      /\ \A n \in DOMAIN perTest \ {current} : perTest'[n] = perTest[n]
      /\ current = None => perTest' = perTest
    BY DEF Attribute
<1>. QED
    BY <1>1 DEF CoverageInv, CoveringTestsCover, CoveringTests, Parses

LEMMA CoverageWriting ==
    ASSUME FilesInv, LinesInv, CoverageInv, Writing
    PROVE  CoverageInv'
<1>1. Quiet
    BY DEF Writing, RenderEffects, OpenEffects, DumpEffects, OpenCoverage,
           ListFiles, ListTests, OpenShapes, DumpShapes
<1>2. UNCHANGED <<mode, current, perTest, allLines, upto>>
    BY <1>1 DEF Quiet, collected, tracker, history
<1>3. CASE ListFiles
    <2>1. /\ pc' = "list tests" /\ pc = "list files"
          /\ draft'.files = allLines
          /\ out' = out
        BY <1>3 DEF ListFiles, From, FilesInv
    <2>. QED
        BY <1>2, <2>1 DEF CoverageInv, CoveringTestsCover, CoveringTests, LinesInv
<1>4. CASE ListTests
    <2>. DEFINE c == [files |-> draft.files, tests |-> perTest]
    <2>1. pc = "list tests" /\ pc' = "shapes" /\ out'.coverage = c
        BY <1>4 DEF ListTests, From, FilesInv
    <2>2. c.files = draft.files /\ c.tests = perTest
        OBVIOUS
    <2>. HIDE DEF c
    <2>3. out'.coverage.files = draft.files /\ out'.coverage.tests = perTest
        BY <2>1, <2>2
    <2>4. /\ mode.monitoring => upto.lines \subseteq draft.files
          /\ current = None => \A n \in DOMAIN perTest : perTest[n] \subseteq draft.files
        BY <2>1 DEF CoverageInv
    <2>5. CoveringTestsCover'
        BY <1>2, <2>3, <2>4 DEF CoveringTestsCover, CoveringTests
    <2>. QED
        BY <1>2, <2>1, <2>3, <2>4, <2>5 DEF CoverageInv
<1>5. CASE RenderEffects
    BY <1>2, <1>5 DEF RenderEffects, From, CoverageInv, CoveringTestsCover, CoveringTests
<1>6. CASE OpenEffects \/ DumpEffects \/ OpenCoverage \/ OpenShapes \/ DumpShapes
    <2>1. /\ pc' # "list tests" /\ draft' = draft
          /\ out'.coverage = out.coverage \/ ~Parses(out'.coverage)
        BY <1>6 DEF OpenEffects, DumpEffects, OpenCoverage, OpenShapes, DumpShapes, From,
                    FilesInv, Parses
    <2>. QED
        BY <1>2, <2>1, CoverageUntouched
<1>. QED
    BY <1>3, <1>4, <1>5, <1>6 DEF Writing

LEMMA CoverageNext ==
    FilesInv /\ LinesInv /\ CoverageInv /\ [Next]_vars => CoverageInv'
<1>. SUFFICES ASSUME FilesInv, LinesInv, CoverageInv, [Next]_vars PROVE CoverageInv'
    OBVIOUS
<1>1. CASE Hook
    <2>1. CASE Kill
        BY <1>1, <2>1, CoverageUntouched DEF Kill, collected, tracker, outcome, history
    <2>2. CASE ~Kill
        BY <1>1, <2>2, CoverageInSession
        DEF Hook, Configure, NotConfigured, LogStart, LogFinish, Finish, EndSession, From,
            outcome, FilesInv
    <2>. QED
        BY <2>1, <2>2
<1>2. CASE Interrupt
    BY <1>2, CoverageInSession DEF Interrupt, InSession, EndSession, outcome, FilesInv
<1>3. CASE Writing
    BY <1>3, CoverageWriting
<1>4. CASE Observe
    BY <1>4, CoverageUntouched DEF Observe, collected, tracker, history
<1>5. CASE UNCHANGED vars
    BY <1>5, CoverageUntouched DEF vars, collected, tracker, outcome, history
<1>6. ASSUME NEW t \in Threads, RenderBreaks(t)
      PROVE  CoverageInv'
    BY <1>6, CoverageUntouched DEF RenderBreaks, Count, From, tracker, outcome
<1>7. ASSUME NEW t \in Threads, ListBreaks(t)
      PROVE  CoverageInv'
    BY <1>7, CoverageAttribute DEF ListBreaks, From, outcome
<1>8. ASSUME NEW t \in Everyone, Callback(t)
      PROVE  CoverageInv'
    <2>1. CASE AttributeLine(t)
        BY <2>1, CoverageAttribute DEF AttributeLine, outcome
    <2>2. CASE ~AttributeLine(t)
        BY <1>8, <2>2, CoverageUntouched
        DEF Callback, StartThread, RunLine, RunUnseen, AddLine, AuditEffect, ObserveReturn,
            CountEffect, Count, collected, tracker, outcome, history
    <2>. QED
        BY <2>1, <2>2
<1>. QED
    BY <1>1, <1>2, <1>3, <1>4, <1>5, <1>6, <1>7, <1>8, NextByKind

-----------------------------------------------------------------------------
(* Who ran what *)

Covered(n) == IF n \in DOMAIN perTest THEN perTest[n] ELSE {}

\* The session has not ended.
Before == pc = "starting" \/ InSession

MainInv ==
    /\ running \in Origins
    /\ startedBy \in [Threads -> Origins \cup {"nobody"}]
    /\ current \in Maybe(DOMAIN perTest)
    /\ DOMAIN perTest \subseteq Tests
    /\ mode.all /\ Before => current = running
    /\ \A t \in Everyone : OnLine(t) => busy[t].line \in Lines /\ busy[t].for \in Origins
    /\ pc # "gone" /\ OnLine(Main) => InSession /\ mode.all /\ busy[Main].for = running
    /\ mode.monitoring =>
           \A n \in Tests : /\ RanBy(Main, n) \subseteq Covered(n)
                            /\ Covered(n) \subseteq RanBy(Main, n) \cup InBackground

LEMMA MainInit == Init => MainInv
<1>. SUFFICES ASSUME Init PROVE MainInv
    OBVIOUS
<1>1. /\ running = None /\ current = None /\ perTest = EmptyMap /\ ran = {}
      /\ startedBy = [t \in Threads |-> "nobody"]
      /\ busy = [t \in Everyone |-> None]
    BY DEF Init
<1>2. DOMAIN perTest = {}
    BY <1>1 DEF EmptyMap
<1>3. \A t \in Everyone : ~OnLine(t)
    BY <1>1 DEF OnLine
<1>4. Main \in Everyone
    BY DEF Everyone
<1>5. \A n \in Tests : Covered(n) = {} /\ RanBy(Main, n) = {}
    BY <1>1, <1>2 DEF Covered, RanBy
<1>. QED
    BY <1>1, <1>2, <1>3, <1>4, <1>5 DEF MainInv, Origins, Maybe

\* A step that attributes nothing.
LEMMA MainUntouched ==
    ASSUME MainInv, LedgerInv,
           UNCHANGED <<mode, running, startedBy, current, perTest, ran>>,
           \A t \in Everyone : busy'[t] = busy[t] \/ ~OnLine(t)',
           pc' \in {pc, "gone"}
    PROVE  MainInv'
<1>1. (\A n \in Tests : Covered(n)' = Covered(n) /\ RanBy(Main, n)' = RanBy(Main, n))
      /\ InBackground' = InBackground
    BY DEF Covered, RanBy, InBackground
<1>2. (mode.all /\ Before => current = running)'
    BY DEF MainInv, Before, InSession
<1>3. (pc # "gone" /\ OnLine(Main) => InSession /\ mode.all /\ busy[Main].for = running)'
    BY DEF MainInv, Before, InSession, OnLine, Everyone
<1>4. \A t \in Everyone : OnLine(t)' => busy'[t].line \in Lines /\ busy'[t].for \in Origins
    BY DEF MainInv, OnLine
<1>. QED
    BY <1>1, <1>2, <1>3, <1>4 DEF MainInv

\* The same, when the session ends or has ended.
LEMMA MainAfter ==
    ASSUME MainInv, LedgerInv,
           UNCHANGED <<mode, running, startedBy, current, perTest, ran>>,
           \A t \in Everyone : busy'[t] = busy[t] \/ ~OnLine(t)',
           ~Before',
           pc' # "gone" => ~OnLine(Main)'
    PROVE  MainInv'
<1>1. (\A n \in Tests : Covered(n)' = Covered(n) /\ RanBy(Main, n)' = RanBy(Main, n))
      /\ InBackground' = InBackground
    BY DEF Covered, RanBy, InBackground
<1>2. \A t \in Everyone : OnLine(t)' => busy'[t].line \in Lines /\ busy'[t].for \in Origins
    BY DEF MainInv, OnLine
<1>. QED
    BY <1>1, <1>2 DEF MainInv

\* pytest's thread gives a line to the test that it runs; another thread makes the line
\* one of the background.
LEMMA MainAttribute ==
    ASSUME MainInv, LedgerInv, NEW t \in Everyone, Attribute(t),
           pc' = pc \/ pc' = "gone"
    PROVE  MainInv'
<1>. DEFINE l == busy[t].line
            f == busy[t].for
<1>1. /\ OnLine(t) /\ pc # "gone"
      /\ l \in Lines /\ f \in Origins
    BY DEF Attribute, In, OnLine, MainInv
<1>2. /\ UNCHANGED <<mode, running, startedBy, current>>
      /\ ran' = ran \cup {<<t, f, l>>}
      /\ busy' = [busy EXCEPT ![t] = None]
      /\ perTest' = IF current = None THEN perTest
                    ELSE [perTest EXCEPT ![current] = @ \cup {l}]
    BY DEF Attribute, Leave
<1>3. \A u \in Everyone : OnLine(u)' => OnLine(u) /\ busy'[u] = busy[u]
    BY <1>2 DEF OnLine, LedgerInv
<1>4. \A n \in Tests : Covered(n)' = IF n = current THEN Covered(n) \cup {l} ELSE Covered(n)
    BY <1>2, NamesAreDistinct DEF Covered, MainInv, Maybe
<1>5. ASSUME mode.monitoring, NEW n \in Tests
      PROVE  /\ RanBy(Main, n)' \subseteq Covered(n)'
             /\ Covered(n)' \subseteq (RanBy(Main, n) \cup InBackground)'
    <2>1. /\ RanBy(Main, n) \subseteq Covered(n)
          /\ Covered(n) \subseteq RanBy(Main, n) \cup InBackground
        BY <1>5 DEF MainInv
    <2>2. CASE t = Main
        <3>1. f = running /\ current = running
            BY <1>1, <2>2 DEF MainInv, Before
        <3>2. InBackground' = InBackground
            BY <1>2, <2>2, NamesAreDistinct DEF InBackground
        <3>3. RanBy(Main, n)' = IF n = current THEN RanBy(Main, n) \cup {l} ELSE RanBy(Main, n)
            BY <1>1, <1>2, <2>2, <3>1 DEF RanBy
        <3>. QED
            BY <1>4, <2>1, <3>2, <3>3
    <2>3. CASE t # Main
        <3>1. RanBy(Main, n)' = RanBy(Main, n)
            BY <1>2, <2>3 DEF RanBy
        <3>2. InBackground' = InBackground \cup {l}
            BY <1>1, <1>2, <2>3 DEF InBackground, Everyone
        <3>. QED
            BY <1>4, <2>1, <3>1, <3>2
    <2>. QED
        BY <2>2, <2>3
<1>6. /\ current' \in Maybe(DOMAIN perTest')
      /\ DOMAIN perTest' \subseteq Tests
    BY <1>2 DEF MainInv, Maybe
<1>7. (mode.all /\ Before => current = running)'
    BY <1>2 DEF MainInv, Before, InSession
<1>8. (pc # "gone" /\ OnLine(Main) => InSession /\ mode.all /\ busy[Main].for = running)'
    BY <1>2, <1>3 DEF MainInv, InSession, Everyone
<1>. QED
    BY <1>2, <1>3, <1>5, <1>6, <1>7, <1>8 DEF MainInv

\* What MainInv says of who ran what, which a step keeps that attributes nothing.
LEMMA CoveredUntouched ==
    ASSUME MainInv, ran' = ran, mode' = mode,
           \A n \in Tests : Covered(n)' = Covered(n)
    PROVE  (mode.monitoring =>
               \A n \in Tests : /\ RanBy(Main, n) \subseteq Covered(n)
                                /\ Covered(n) \subseteq RanBy(Main, n) \cup InBackground)'
<1>1. (\A n \in Tests : RanBy(Main, n)' = RanBy(Main, n)) /\ InBackground' = InBackground
    BY DEF RanBy, InBackground
<1>. QED
    BY <1>1 DEF MainInv

LEMMA MainHook ==
    ASSUME MainInv, LedgerInv, Hook
    PROVE  MainInv'
<1>1. UNCHANGED <<mode, startedBy, busy, ran>>
    BY DEF Hook, Configure, NotConfigured, LogStart, LogFinish, Finish, EndSession, Kill,
           collected, tracker, history
<1>2. CASE Configure
    <2>1. /\ UNCHANGED <<running, current, perTest>>
          /\ pc = "starting" /\ pc' = "between"
        BY <1>2 DEF Configure, From, collected, tracker
    <2>2. \A n \in Tests : Covered(n)' = Covered(n)
        BY <2>1 DEF Covered
    <2>. QED
        BY <1>1, <2>1, <2>2, CoveredUntouched DEF MainInv, Before, InSession, OnLine
<1>3. ASSUME NEW n \in Tests, LogStart(n)
      PROVE  MainInv'
    <2>1. /\ pc = "between" /\ pc' = "testing" /\ busy[Main] = None
          /\ running' = n
          /\ IF mode.all THEN StartTest(n) ELSE UNCHANGED <<current, perTest>>
        BY <1>3 DEF LogStart, From
    <2>2. \A m \in Tests : Covered(m)' = Covered(m)
        BY <2>1 DEF Covered, StartTest
    <2>3. /\ current' \in Maybe(DOMAIN perTest')
          /\ DOMAIN perTest' \subseteq Tests
          /\ mode.all => current' = n
        BY <2>1 DEF StartTest, MainInv, Maybe
    <2>. QED
        BY <1>1, <2>1, <2>2, <2>3, CoveredUntouched
        DEF MainInv, Before, InSession, OnLine, Origins
<1>4. CASE LogFinish
    <2>1. /\ pc = "testing" /\ pc' = "between" /\ busy[Main] = None
          /\ running' = None /\ current' = None /\ perTest' = perTest
        BY <1>4 DEF LogFinish, From
    <2>2. \A n \in Tests : Covered(n)' = Covered(n)
        BY <2>1 DEF Covered
    <2>. QED
        BY <1>1, <2>1, <2>2, CoveredUntouched
        DEF MainInv, Before, InSession, OnLine, Origins, Maybe
<1>5. CASE Finish
    <2>1. /\ UNCHANGED <<running, current, perTest>>
          /\ pc' = "envelope" /\ busy[Main] = None
        BY <1>5 DEF Finish, EndSession, collected, tracker
    <2>. QED
        BY <1>1, <2>1, MainAfter DEF Before, InSession, OnLine
<1>6. CASE NotConfigured \/ Kill
    BY <1>1, <1>6, MainUntouched DEF NotConfigured, Kill, From, collected, tracker
<1>. QED
    BY <1>2, <1>3, <1>4, <1>5, <1>6 DEF Hook

LEMMA MainCallback ==
    ASSUME MainInv, LinesInv, LedgerInv, NEW t \in Everyone, Callback(t)
    PROVE  MainInv'
<1>1. ASSUME NEW u \in Everyone, t \in Threads, StartThread(t, u)
      PROVE  MainInv'
    <2>1. /\ UNCHANGED <<mode, pc, running, current, perTest, busy, ran>>
          /\ startedBy' = [startedBy EXCEPT ![t] = Origin(u)]
          /\ Origin(u) \in Origins
        BY <1>1 DEF StartThread, Runs, Origin, collected, tracker, history, MainInv, Everyone
    <2>2. \A n \in Tests : Covered(n)' = Covered(n)
        BY <2>1 DEF Covered
    <2>. QED
        BY <2>1, <2>2, CoveredUntouched DEF MainInv, Before, InSession, OnLine
<1>2. ASSUME NEW l \in Lines, RunLine(t, l)
      PROVE  MainInv'
    <2>1. /\ UNCHANGED <<mode, pc, running, startedBy, current, perTest, ran>>
          /\ busy' = [busy EXCEPT ![t] = [kind |-> "enter", line |-> l, for |-> Origin(t)]]
        BY <1>2 DEF RunLine, Enter, collected, tracker
    <2>2. /\ Origin(t) \in Origins
          /\ t = Main => InSession /\ mode.all /\ Origin(t) = running
        BY <1>2 DEF RunLine, Runs, LinesOn, Origin, MainInv, Everyone
    <2>3. /\ busy'[t] = [kind |-> "enter", line |-> l, for |-> Origin(t)]
          /\ \A u \in Everyone \ {t} : busy'[u] = busy[u]
        BY <2>1 DEF LedgerInv
    <2>4. \A n \in Tests : Covered(n)' = Covered(n)
        BY <2>1 DEF Covered
    <2>5. \A u \in Everyone : OnLine(u)' => busy'[u].line \in Lines /\ busy'[u].for \in Origins
        BY <2>2, <2>3 DEF MainInv, OnLine
    <2>6. (pc # "gone" /\ OnLine(Main) => InSession /\ mode.all /\ busy[Main].for = running)'
        BY <2>1, <2>2, <2>3 DEF MainInv, OnLine, InSession, Everyone
    <2>. QED
        BY <2>1, <2>4, <2>5, <2>6, CoveredUntouched DEF MainInv, Before, InSession
<1>3. ASSUME NEW l \in Lines, RunUnseen(t, l)
      PROVE  MainInv'
    BY <1>3 DEF RunUnseen, Before, InSession, OnLine, collected, tracker, MainInv
<1>4. CASE AddLine(t)
    <2>1. /\ UNCHANGED <<mode, pc, running, startedBy, current, perTest, ran>>
          /\ busy' = [busy EXCEPT ![t] = [busy[t] EXCEPT !.kind = "added"]]
          /\ OnLine(t)
        BY <1>4 DEF AddLine, Enter, In, OnLine, history
    <2>2. \A u \in Everyone \ {t} : busy'[u] = busy[u]
        BY <2>1 DEF LedgerInv
    <2>3. busy'[t].line = busy[t].line /\ busy'[t].for = busy[t].for
        <3>1. busy[t] = [kind |-> busy[t].kind, line |-> busy[t].line, for |-> busy[t].for]
            BY <2>1 DEF LinesInv
        <3>2. busy'[t] = [kind |-> "added", line |-> busy[t].line, for |-> busy[t].for]
            BY <2>1, <3>1 DEF LedgerInv
        <3>. QED
            BY <3>2
    <2>4. \A n \in Tests : Covered(n)' = Covered(n)
        BY <2>1 DEF Covered
    <2>5. \A u \in Everyone : OnLine(u)' => /\ OnLine(u)
                                            /\ busy'[u].line = busy[u].line
                                            /\ busy'[u].for = busy[u].for
        BY <2>1, <2>2, <2>3 DEF OnLine
    <2>6. (pc # "gone" /\ OnLine(Main) => InSession /\ mode.all /\ busy[Main].for = running)'
        BY <2>1, <2>5 DEF MainInv, InSession, Everyone
    <2>. QED
        BY <2>1, <2>4, <2>5, <2>6, CoveredUntouched DEF MainInv, Before, InSession
<1>5. CASE AttributeLine(t)
    BY <1>5, MainAttribute DEF AttributeLine
<1>6. ASSUME NEW o \in Owners, AuditEffect(t, o)
      PROVE  MainInv'
    BY <1>6, MainUntouched DEF AuditEffect, Enter, OnLine, collected, tracker, LedgerInv
<1>7. ASSUME NEW o \in Owners, ObserveReturn(t, o)
      PROVE  MainInv'
    BY <1>7, MainUntouched DEF ObserveReturn, tracker
<1>8. CASE CountEffect(t)
    BY <1>8, MainUntouched DEF CountEffect, Count, Leave, OnLine, tracker, LedgerInv
<1>. QED
    BY <1>1, <1>2, <1>3, <1>4, <1>5, <1>6, <1>7, <1>8 DEF Callback

LEMMA MainNext == LedgerInv /\ LinesInv /\ MainInv /\ [Next]_vars => MainInv'
<1>. SUFFICES ASSUME LedgerInv, LinesInv, MainInv, [Next]_vars PROVE MainInv'
    OBVIOUS
<1>1. CASE Hook
    BY <1>1, MainHook
<1>2. CASE Interrupt
    BY <1>2, MainAfter
    DEF Interrupt, EndSession, Before, InSession, OnLine, LedgerInv, Everyone, collected, tracker
<1>3. CASE Writing
    <2>1. Quiet
        BY <1>3 DEF Writing, RenderEffects, OpenEffects, DumpEffects, OpenCoverage,
                    ListFiles, ListTests, OpenShapes, DumpShapes
    <2>2. /\ ~Before'
          /\ ~Before /\ pc # "gone"
        BY <1>3 DEF Writing, RenderEffects, OpenEffects, DumpEffects, OpenCoverage,
                    ListFiles, ListTests, OpenShapes, DumpShapes, From, Before, InSession
    <2>3. UNCHANGED <<mode, running, startedBy, current, perTest, ran, busy>>
        BY <2>1 DEF Quiet, collected, tracker, history
    <2>4. pc' # "gone" => ~OnLine(Main)'
        BY <2>2, <2>3 DEF MainInv, OnLine, Before
    <2>. QED
        BY <2>2, <2>3, <2>4, MainAfter
<1>4. CASE Observe
    BY <1>4, MainUntouched DEF Observe, collected, tracker, history
<1>5. CASE UNCHANGED vars
    BY <1>5, MainUntouched DEF vars, collected, tracker, history
<1>6. ASSUME NEW t \in Threads, RenderBreaks(t)
      PROVE  MainInv'
    BY <1>6, MainUntouched
    DEF RenderBreaks, Count, Leave, OnLine, From, tracker, LedgerInv, Everyone
<1>7. ASSUME NEW t \in Threads, ListBreaks(t)
      PROVE  MainInv'
    BY <1>7, MainAttribute DEF ListBreaks, From, Everyone
<1>8. ASSUME NEW t \in Everyone, Callback(t)
      PROVE  MainInv'
    BY <1>8, MainCallback
<1>. QED
    BY <1>1, <1>2, <1>3, <1>4, <1>5, <1>6, <1>7, <1>8, NextByKind

-----------------------------------------------------------------------------
(* What holds of every run *)

IInv == LedgerInv /\ FilesInv /\ EffectsInv /\ ReturnsInv /\ LinesInv /\ CoverageInv /\ MainInv

LEMMA RunInvariant == Spec => []IInv
<1>1. Init => IInv
    BY LedgerInit, FilesInit, EffectsInit, LinesInit, CoverageInit, MainInit DEF IInv
<1>2. IInv /\ [Next]_vars => IInv'
    BY LedgerNext, FilesNext, EffectsNext, ReturnsNext, LinesNext, CoverageNext, MainNext DEF IInv
<1>. QED
    BY <1>1, <1>2, PTL DEF Spec

\* However the audit hooks of the threads interleave, no callable that performed an
\* effect is missing from the ledger, and no count is too high (ledger.py 62-89).
THEOREM LedgerCounts == Spec => []LedgerNeverOvercounts
<1>1. IInv => LedgerNeverOvercounts
    BY DEF IInv, LedgerInv
<1>. QED
    BY <1>1, RunInvariant, PTL

\* Whatever dies, breaks or goes on in a thread while pytest writes its three files, an
\* observation that pyq accepts lacks nothing that was observed before the session ended
\* (__init__.py pytest_unconfigure, lib.rs 68-106 and 169-181).
THEOREM AcceptedIsWhole == Spec => []OkIsWhole
<1>1. IInv => OkIsWhole
    BY DEF IInv, OkIsWhole, FilesInv, EffectsInv, ReturnsInv, CoverageInv
<1>. QED
    BY <1>1, RunInvariant, PTL

\* query_change_cov never calls a line uncovered that the session ran (main.rs 919-978).
THEOREM UncoveredIsCertain == Spec => []UncoveredWasNotRun
<1>1. OkIsWhole => UncoveredWasNotRun
    BY DEF OkIsWhole, UncoveredWasNotRun, Status, MonitoringAvailable
<1>. QED
    BY <1>1, AcceptedIsWhole, PTL

\* Who covers a line and what is covered agree, when no test was cut short: to_dict takes
\* the union before the tests, and no thread adds in between (coverage.py 67-85).
THEOREM CoverageAgrees == Spec => []CoveringTestsCover
<1>1. IInv => CoveringTestsCover
    <2>1. CASE Parses(out.coverage)
        BY <2>1 DEF IInv, CoverageInv
    <2>2. CASE ~Parses(out.coverage)
        BY <2>2 DEF CoveringTestsCover
    <2>. QED
        BY <2>1, <2>2
<1>. QED
    BY <1>1, RunInvariant, PTL

\* The lines that pytest's own thread ran for a test are all that test's, and a test that
\* was not cut short has no others but those of threads (coverage.py 47-74).
THEOREM MainThreadIsExact == Spec => []MainIsAttributedExactly
<1>1. IInv => MainIsAttributedExactly
    <2>. SUFFICES ASSUME IInv, Parses(out.coverage), mode.monitoring,
                         NEW n \in DOMAIN out.coverage.tests \ {current}
                  PROVE  /\ RanBy(Main, n) \subseteq out.coverage.tests[n]
                         /\ out.coverage.tests[n] \subseteq RanBy(Main, n) \cup InBackground
        BY DEF MainIsAttributedExactly
    <2>1. n \in DOMAIN perTest /\ out.coverage.tests[n] = perTest[n]
        BY DEF IInv, CoverageInv
    <2>2. n \in Tests /\ Covered(n) = perTest[n]
        BY <2>1 DEF IInv, MainInv, Covered
    <2>. QED
        BY <2>1, <2>2 DEF IInv, MainInv
<1>. QED
    BY <1>1, RunInvariant, PTL

-----------------------------------------------------------------------------
(* How many effects there were *)

\* The threads that are about to count an effect of o.
Pending(o) == {t \in Everyone : Counting(t) /\ busy[t].owner = o}

\* Each effect that was counted, or is about to be, was an event.
EventsInv ==
    /\ events \in 0 .. MaxEvents
    /\ \A o \in Owners : /\ IsFiniteSet(Pending(o))
                         /\ performed[o] + Cardinality(Pending(o)) <= events

\* Nothing has happened at first.
LEMMA EventsFirst == Init => EventsInv
<1> SUFFICES ASSUME Init PROVE EventsInv
    OBVIOUS
<1>1. events = 0 /\ busy = [t \in Everyone |-> None] /\ performed = [o \in Owners |-> 0]
    BY DEF Init
<1>2. \A o : Pending(o) = {}
    BY <1>1 DEF Pending, Counting
<1>3. \A o \in Owners : IsFiniteSet(Pending(o)) /\ performed[o] + Cardinality(Pending(o)) = 0
    BY <1>1, <1>2, FS_EmptySet
<1> QED
    BY <1>1, <1>3, MaxEventsIsNatural DEF EventsInv

\* A step that leaves the ledger alone and starts no count.
LEMMA EventsUntouched ==
    ASSUME EventsInv, LedgerInv, UNCHANGED performed,
           events' = events \/ (events < MaxEvents /\ events' = events + 1),
           \A t \in Everyone : busy'[t] = busy[t] \/ ~ Counting(t)'
    PROVE  EventsInv'
<1>1. events' \in 0 .. MaxEvents /\ events <= events' /\ events \in Nat /\ events' \in Nat
    BY MaxEventsIsNatural DEF EventsInv
<1>2. ASSUME NEW o \in Owners
      PROVE  IsFiniteSet(Pending(o)') /\ performed[o] + Cardinality(Pending(o)') <= events'
  <2>1. Pending(o)' \in SUBSET Pending(o)
      BY DEF Pending, Counting
  <2>2. IsFiniteSet(Pending(o)) /\ performed[o] + Cardinality(Pending(o)) <= events /\ performed[o] \in Nat
      BY DEF EventsInv, LedgerInv
  <2>3. IsFiniteSet(Pending(o)') /\ Cardinality(Pending(o)') <= Cardinality(Pending(o))
      BY <2>1, <2>2, FS_Subset
  <2>4. Cardinality(Pending(o)') \in Nat /\ Cardinality(Pending(o)) \in Nat
      BY <2>2, <2>3, FS_CardinalityType
  <2> QED
      BY <1>1, <2>2, <2>3, <2>4
<1> QED
    BY <1>1, <1>2 DEF EventsInv

\* An effect is counted that was pending.
LEMMA EventsCount ==
    ASSUME EventsInv, LedgerInv, NEW t \in Everyone, Count(t)
    PROVE  EventsInv'
<1>1. PICK q : q = busy[t].owner
    OBVIOUS
<1>2. /\ Counting(t) /\ q \in Owners /\ busy' = [busy EXCEPT ![t] = None] /\ events' = events
      /\ performed' = [performed EXCEPT ![q] = @ + 1] /\ performed \in [Owners -> Nat]
      /\ busy = [u \in Everyone |-> busy[u]]
    BY <1>1 DEF Count, In, Leave, Counting, LedgerInv
<1>3. busy'[t] = None /\ \A u \in Everyone \ {t} : busy'[u] = busy[u]
    BY <1>2
<1>4. Pending(q)' = Pending(q) \ {t} /\ t \in Pending(q)
    BY <1>1, <1>2, <1>3 DEF Pending, Counting
<1>5. ASSUME NEW o \in Owners, o # q PROVE Pending(o)' = Pending(o)
    BY <1>1, <1>2, <1>3, <1>5 DEF Pending, Counting
<1>6. ASSUME NEW o \in Owners
      PROVE  IsFiniteSet(Pending(o)') /\ performed'[o] + Cardinality(Pending(o)') <= events
  <2>1. IsFiniteSet(Pending(o)) /\ performed[o] + Cardinality(Pending(o)) <= events /\ performed[o] \in Nat
      BY <1>2 DEF EventsInv
  <2>2. CASE o # q
      BY <1>2, <1>5, <2>1, <2>2
  <2>3. CASE o = q
    <3>1. IsFiniteSet(Pending(o)') /\ Cardinality(Pending(o)') = Cardinality(Pending(o)) - 1
        BY <1>4, <2>1, <2>3, FS_RemoveElement
    <3>2. performed'[o] = performed[o] + 1
        BY <1>2, <2>3
    <3>3. Cardinality(Pending(o)) \in Nat /\ events \in Nat
        BY <2>1, FS_CardinalityType, MaxEventsIsNatural DEF EventsInv
    <3> QED
        BY <2>1, <3>1, <3>2, <3>3
  <2> QED
      BY <2>2, <2>3
<1> QED
    BY <1>2, <1>6 DEF EventsInv

\* An effect is about to be counted.
LEMMA EventsAudit ==
    ASSUME EventsInv, LedgerInv, NEW t \in Everyone, NEW q \in Owners, AuditEffect(t, q)
    PROVE  EventsInv'
<1> DEFINE c == [kind |-> "effect", owner |-> q, read |-> IF q \in DOMAIN hits THEN hits[q] ELSE 0]
<1>1. /\ busy[t] = None /\ busy' = [busy EXCEPT ![t] = c] /\ events < MaxEvents /\ events' = events + 1
      /\ performed' = performed /\ performed \in [Owners -> Nat]
      /\ busy = [u \in Everyone |-> busy[u]]
    BY DEF AuditEffect, Runs, Enter, Event, LedgerInv
<1>2. c.owner = q
    OBVIOUS
<1> HIDE DEF c
<1>3. busy'[t] = c /\ \A u \in Everyone \ {t} : busy'[u] = busy[u]
    BY <1>1
<1>4. \A o \in Owners : Pending(o)' \in SUBSET (Pending(o) \cup {t}) /\ (o # q => Pending(o)' \subseteq Pending(o))
    BY <1>1, <1>2, <1>3 DEF Pending, Counting
<1>5. events' \in 0 .. MaxEvents /\ events \in Nat
    BY <1>1, MaxEventsIsNatural DEF EventsInv
<1>6. ASSUME NEW o \in Owners
      PROVE  IsFiniteSet(Pending(o)') /\ performed[o] + Cardinality(Pending(o)') <= events'
  <2>1. IsFiniteSet(Pending(o)) /\ performed[o] + Cardinality(Pending(o)) <= events /\ performed[o] \in Nat
      BY <1>1 DEF EventsInv
  <2>2. t \notin Pending(o)
      BY <1>1 DEF Pending, Counting
  <2>3. IsFiniteSet(Pending(o) \cup {t}) /\ Cardinality(Pending(o) \cup {t}) = Cardinality(Pending(o)) + 1
      BY <2>1, <2>2, FS_AddElement
  <2>4. IsFiniteSet(Pending(o)') /\ Cardinality(Pending(o)') <= Cardinality(Pending(o)) + 1
      BY <1>4, <2>3, FS_Subset
  <2>5. Cardinality(Pending(o)) \in Nat /\ Cardinality(Pending(o)') \in Nat
      BY <2>1, <2>4, FS_CardinalityType
  <2> QED
      BY <1>1, <1>5, <2>1, <2>4, <2>5
<1> QED
    BY <1>1, <1>5, <1>6 DEF EventsInv

\* Every callback keeps it.
LEMMA EventsCallback ==
    ASSUME EventsInv, LedgerInv, NEW t \in Everyone, Callback(t)
    PROVE  EventsInv'
<1>0. busy = [u \in Everyone |-> busy[u]]
    BY DEF LedgerInv
<1>1. ASSUME NEW u \in Everyone, t \in Threads, StartThread(t, u)
      PROVE  EventsInv'
    BY <1>1, EventsUntouched DEF StartThread, history
<1>2. ASSUME NEW l \in Lines, RunLine(t, l)
      PROVE  EventsInv'
    BY <1>0, <1>2, EventsUntouched DEF RunLine, Enter, Event, Counting
<1>3. ASSUME NEW l \in Lines, RunUnseen(t, l)
      PROVE  EventsInv'
    BY <1>3, EventsUntouched DEF RunUnseen, Event
<1>4. CASE AddLine(t)
    BY <1>0, <1>4, EventsUntouched DEF AddLine, Enter, In, Counting, history
<1>5. CASE AttributeLine(t)
    BY <1>0, <1>5, EventsUntouched DEF AttributeLine, Attribute, Leave, Counting
<1>6. ASSUME NEW o \in Owners, AuditEffect(t, o)
      PROVE  EventsInv'
    BY <1>6, EventsAudit
<1>7. ASSUME NEW o \in Owners, ObserveReturn(t, o)
      PROVE  EventsInv'
    BY <1>7, EventsUntouched DEF ObserveReturn, Event
<1>8. CASE CountEffect(t)
    BY <1>8, EventsCount DEF CountEffect
<1> QED
    BY <1>1, <1>2, <1>3, <1>4, <1>5, <1>6, <1>7, <1>8 DEF Callback

\* It is inductive.
LEMMA EventsNext == EventsInv /\ LedgerInv /\ [Next]_vars => EventsInv'
<1> SUFFICES ASSUME EventsInv, LedgerInv, [Next]_vars PROVE EventsInv'
    OBVIOUS
<1>1. CASE Hook
    BY <1>1, EventsUntouched
    DEF Hook, Configure, NotConfigured, LogStart, LogFinish, Finish, EndSession, Kill, history
<1>2. CASE Interrupt
    BY <1>2, EventsUntouched DEF Interrupt, EndSession, Counting, LedgerInv
<1>3. CASE Writing
  <2>1. Quiet
      BY <1>3 DEF Writing, RenderEffects, OpenEffects, DumpEffects, OpenCoverage,
                  ListFiles, ListTests, OpenShapes, DumpShapes
  <2> QED
      BY <2>1, EventsUntouched DEF Quiet, history
<1>4. CASE Observe
    BY <1>4, EventsUntouched DEF Observe, history
<1>5. CASE UNCHANGED vars
    BY <1>5, EventsUntouched DEF vars, history
<1>6. ASSUME NEW t \in Threads, RenderBreaks(t)
      PROVE  EventsInv'
    BY <1>6, EventsCount DEF RenderBreaks, Everyone
<1>7. ASSUME NEW t \in Threads, ListBreaks(t)
      PROVE  EventsInv'
    BY <1>7, EventsUntouched DEF ListBreaks, Attribute, Leave, Counting, LedgerInv
<1>8. ASSUME NEW t \in Everyone, Callback(t)
      PROVE  EventsInv'
    BY <1>8, EventsCallback
<1> QED
    BY <1>1, <1>2, <1>3, <1>4, <1>5, <1>6, <1>7, <1>8, NextByKind

-----------------------------------------------------------------------------
(* What the collectors keep *)

\* Where the session is.
SessionTypes ==
    /\ mode \in [all : BOOLEAN, monitoring : BOOLEAN]
    /\ pc \in Steps /\ result \in {"none", "ok", "error"}
    /\ pc = "testing" => running # None

\* At first.
LEMMA SessionFirst == Init => SessionTypes
BY DEF Init, SessionTypes, Steps

\* They are inductive.
LEMMA SessionNext == SessionTypes /\ [Next]_vars => SessionTypes'
<1> SUFFICES ASSUME SessionTypes, [Next]_vars PROVE SessionTypes'
    OBVIOUS
<1> USE DEF SessionTypes, Steps
<1>1. CASE Hook
  <2>1. CASE Configure \/ NotConfigured \/ Kill
      BY <2>1 DEF Configure, NotConfigured, Kill, From, outcome
  <2>2. ASSUME NEW n \in Tests, LogStart(n) PROVE SessionTypes'
      BY <2>2, NamesAreDistinct DEF LogStart, From, outcome
  <2>3. CASE LogFinish
      BY <2>3 DEF LogFinish, From, outcome
  <2>4. CASE Finish
      BY <2>4 DEF Finish, EndSession, outcome
  <2> QED
      BY <1>1, <2>1, <2>2, <2>3, <2>4 DEF Hook
<1>2. CASE Interrupt
    BY <1>2 DEF Interrupt, EndSession, outcome
<1>3. CASE Writing
    BY <1>3 DEF Writing, RenderEffects, OpenEffects, DumpEffects, OpenCoverage,
                ListFiles, ListTests, OpenShapes, DumpShapes, Quiet, From
<1>4. CASE Observe
    BY <1>4 DEF Observe
<1>5. CASE UNCHANGED vars
    BY <1>5 DEF vars, outcome
<1>6. ASSUME NEW t \in Threads, RenderBreaks(t) \/ ListBreaks(t)
      PROVE  SessionTypes'
    BY <1>6 DEF RenderBreaks, ListBreaks, Count, Attribute, From, outcome
<1>7. ASSUME NEW t \in Everyone, Callback(t)
      PROVE  SessionTypes'
    BY <1>7 DEF Callback, StartThread, RunLine, RunUnseen, AddLine, AttributeLine, Attribute,
                AuditEffect, ObserveReturn, CountEffect, Count, outcome
<1> QED
    BY <1>1, <1>2, <1>3, <1>4, <1>5, <1>6, <1>7, NextByKind

\* What was seen, and the callback that each thread is in.
SeenTypes ==
    /\ allLines \subseteq Lines /\ returns \subseteq Owners
    /\ ran \subseteq Everyone \X Origins \X Lines
    /\ upto \in [lines : SUBSET Lines, effects : SUBSET Owners, returns : SUBSET Owners]
    /\ busy \in [Everyone -> Maybe(Callbacks)]

\* At first.
LEMMA SeenFirst == Init => SeenTypes
<1> SUFFICES ASSUME Init PROVE SeenTypes
    OBVIOUS
<1>1. /\ allLines = {} /\ returns = {} /\ ran = {} /\ upto = [lines |-> {}, effects |-> {}, returns |-> {}]
      /\ busy = [t \in Everyone |-> None]
    BY DEF Init
<1> QED
    BY <1>1 DEF SeenTypes, Maybe

\* The three kinds of callback.
LEMMA CallbackKinds ==
    /\ \A l \in Lines, n \in Origins : \A k \in {"enter", "added"} :
          [kind |-> k, line |-> l, for |-> n] \in Callbacks
    /\ \A o \in Owners, r \in Nat : [kind |-> "effect", owner |-> o, read |-> r] \in Callbacks
BY DEF Callbacks

\* A thread is in another callback, or in none.
LEMMA BusyType ==
    ASSUME SeenTypes, NEW t \in Everyone, NEW c \in Maybe(Callbacks), busy' = [busy EXCEPT ![t] = c]
    PROVE  busy' \in [Everyone -> Maybe(Callbacks)]
<1> DEFINE M == Maybe(Callbacks)
<1>1. busy \in [Everyone -> M] /\ c \in M
    BY DEF SeenTypes
<1> HIDE DEF M
<1> QED
    BY <1>1 DEF M

\* What was seen up to the end of a session.
LEMMA EndType ==
    ASSUME SeenTypes, EndSession
    PROVE  upto' \in [lines : SUBSET Lines, effects : SUBSET Owners, returns : SUBSET Owners]
<1>1. upto' = [lines |-> {x[3] : x \in ran}, effects |-> {o \in Owners : performed[o] > 0}, returns |-> returns]
    BY DEF EndSession
<1>2. \A x \in ran : x[3] \in Lines
    BY DEF SeenTypes
<1>3. {x[3] : x \in ran} \in SUBSET Lines /\ {o \in Owners : performed[o] > 0} \in SUBSET Owners /\ returns \in SUBSET Owners
    BY <1>2 DEF SeenTypes
<1> QED
    BY <1>1, <1>3

\* A line that is attributed.
LEMMA SeenAttribute ==
    ASSUME SeenTypes, IInv, NEW t \in Everyone, Attribute(t)
    PROVE  SeenTypes' /\ busy[t].line \in Lines
<1>0. None \in Maybe(Callbacks)
    BY DEF Maybe
<1>1. OnLine(t) /\ busy[t].line \in Lines /\ busy[t].for \in Origins
    BY DEF Attribute, In, OnLine, MainInv, IInv
<1>2. /\ UNCHANGED <<allLines, returns, upto>> /\ ran' = ran \cup {<<t, busy[t].for, busy[t].line>>}
      /\ busy' = [busy EXCEPT ![t] = None]
    BY DEF Attribute, Leave
<1>3. busy' \in [Everyone -> Maybe(Callbacks)]
    BY <1>0, <1>2, BusyType
<1> QED
    BY <1>1, <1>2, <1>3 DEF SeenTypes

\* An effect that is counted.
LEMMA SeenCount ==
    ASSUME SeenTypes, NEW t \in Everyone, Count(t)
    PROVE  SeenTypes'
<1>0. None \in Maybe(Callbacks)
    BY DEF Maybe
<1>1. UNCHANGED <<allLines, returns, ran, upto>> /\ busy' = [busy EXCEPT ![t] = None]
    BY DEF Count, Leave, tracker
<1>2. busy' \in [Everyone -> Maybe(Callbacks)]
    BY <1>0, <1>1, BusyType
<1> QED
    BY <1>1, <1>2 DEF SeenTypes

\* Every callback keeps them.
LEMMA SeenCallback ==
    ASSUME SeenTypes, IInv, NEW t \in Everyone, Callback(t)
    PROVE  SeenTypes'
<1>0. /\ MainInv /\ LedgerInv /\ LinesInv /\ None \in Maybe(Callbacks)
      /\ \A c \in Callbacks : c \in Maybe(Callbacks)
    BY DEF IInv, Maybe
<1>00. ASSUME Runs(t) PROVE Origin(t) \in Origins
    BY <1>00, <1>0 DEF Runs, Origin, MainInv, Everyone
<1>1. ASSUME NEW u \in Everyone, t \in Threads, StartThread(t, u)
      PROVE  SeenTypes'
    BY <1>1 DEF StartThread, collected, tracker, history, SeenTypes
<1>2. ASSUME NEW l \in Lines, RunLine(t, l)
      PROVE  SeenTypes'
  <2>1. /\ UNCHANGED <<allLines, returns, ran, upto>>
        /\ busy' = [busy EXCEPT ![t] = [kind |-> "enter", line |-> l, for |-> Origin(t)]]
        /\ Origin(t) \in Origins
      BY <1>00, <1>2 DEF RunLine, Enter, collected, tracker
  <2>2. [kind |-> "enter", line |-> l, for |-> Origin(t)] \in Maybe(Callbacks)
      BY <1>0, <2>1, CallbackKinds
  <2>3. busy' \in [Everyone -> Maybe(Callbacks)]
      BY <2>1, <2>2, BusyType
  <2> QED
      BY <2>1, <2>3 DEF SeenTypes
<1>3. ASSUME NEW l \in Lines, RunUnseen(t, l)
      PROVE  SeenTypes'
  <2>1. UNCHANGED <<allLines, returns, busy, upto>> /\ ran' = ran \cup {<<t, Origin(t), l>>} /\ Origin(t) \in Origins
      BY <1>00, <1>3 DEF RunUnseen, collected, tracker
  <2> QED
      BY <2>1 DEF SeenTypes
<1>4. CASE AddLine(t)
  <2>1. OnLine(t) /\ busy[t].line \in Lines /\ busy[t].for \in Origins
      BY <1>0, <1>4 DEF AddLine, In, OnLine, MainInv
  <2>2. /\ UNCHANGED <<returns, ran, upto>> /\ allLines' = allLines \cup {busy[t].line}
        /\ busy' = [busy EXCEPT ![t] = [busy[t] EXCEPT !.kind = "added"]]
      BY <1>4 DEF AddLine, Enter, history
  <2>3. PICK b : b = busy[t]
      OBVIOUS
  <2>4. b = [kind |-> b.kind, line |-> b.line, for |-> b.for]
      BY <1>0, <2>1, <2>3 DEF LinesInv
  <2>5. [b EXCEPT !.kind = "added"] = [kind |-> "added", line |-> b.line, for |-> b.for]
      BY <2>4
  <2>6. [kind |-> "added", line |-> b.line, for |-> b.for] \in Maybe(Callbacks)
      BY <1>0, <2>1, <2>3, CallbackKinds
  <2>7. busy' \in [Everyone -> Maybe(Callbacks)]
      BY <2>2, <2>3, <2>5, <2>6, BusyType
  <2> QED
      BY <2>1, <2>2, <2>7 DEF SeenTypes
<1>5. CASE AttributeLine(t)
    BY <1>5, SeenAttribute DEF AttributeLine
<1>6. ASSUME NEW o \in Owners, AuditEffect(t, o)
      PROVE  SeenTypes'
  <2> DEFINE r == IF o \in DOMAIN hits THEN hits[o] ELSE 0
  <2>1. /\ UNCHANGED <<allLines, returns, ran, upto>>
        /\ busy' = [busy EXCEPT ![t] = [kind |-> "effect", owner |-> o, read |-> r]]
      BY <1>6 DEF AuditEffect, Enter, collected, tracker
  <2>2. r \in Nat
      BY <1>0 DEF LedgerInv
  <2> HIDE DEF r
  <2>3. [kind |-> "effect", owner |-> o, read |-> r] \in Maybe(Callbacks)
      BY <1>0, <2>2, CallbackKinds
  <2>4. busy' \in [Everyone -> Maybe(Callbacks)]
      BY <2>1, <2>3, BusyType
  <2> QED
      BY <2>1, <2>4 DEF SeenTypes
<1>7. ASSUME NEW o \in Owners, ObserveReturn(t, o)
      PROVE  SeenTypes'
    BY <1>7 DEF ObserveReturn, tracker, SeenTypes
<1>8. CASE CountEffect(t)
    BY <1>8, SeenCount DEF CountEffect
<1> QED
    BY <1>1, <1>2, <1>3, <1>4, <1>5, <1>6, <1>7, <1>8 DEF Callback

\* They are inductive.
LEMMA SeenNext == SeenTypes /\ IInv /\ [Next]_vars => SeenTypes'
<1> SUFFICES ASSUME SeenTypes, IInv, [Next]_vars PROVE SeenTypes'
    OBVIOUS
<1>0. Main \in Everyone /\ None \in Maybe(Callbacks)
    BY DEF Everyone, Maybe
<1>1. CASE Hook
  <2>1. CASE Finish
    <3>1. UNCHANGED <<allLines, returns, ran, busy>>
        BY <2>1 DEF Finish, EndSession, collected, tracker
    <3>2. upto' \in [lines : SUBSET Lines, effects : SUBSET Owners, returns : SUBSET Owners]
        BY <2>1, EndType DEF Finish
    <3> QED
        BY <3>1, <3>2 DEF SeenTypes
  <2>2. CASE ~ Finish
    <3>1. UNCHANGED <<allLines, returns, ran, busy, upto>>
        BY <1>1, <2>2 DEF Hook, Configure, NotConfigured, LogStart, LogFinish, Kill, collected, tracker, history
    <3> QED
        BY <3>1 DEF SeenTypes
  <2> QED
      BY <2>1, <2>2
<1>2. CASE Interrupt
  <2>1. UNCHANGED <<allLines, returns, ran>> /\ busy' = [busy EXCEPT ![Main] = None]
      BY <1>2 DEF Interrupt, EndSession, collected, tracker
  <2>2. upto' \in [lines : SUBSET Lines, effects : SUBSET Owners, returns : SUBSET Owners]
      BY <1>2, EndType DEF Interrupt
  <2>3. busy' \in [Everyone -> Maybe(Callbacks)]
      BY <1>0, <2>1, BusyType
  <2> QED
      BY <2>1, <2>2, <2>3 DEF SeenTypes
<1>3. CASE Writing \/ Observe \/ UNCHANGED vars
  <2>1. UNCHANGED <<allLines, returns, ran, busy, upto>>
      BY <1>3 DEF Writing, RenderEffects, OpenEffects, DumpEffects, OpenCoverage, ListFiles, ListTests,
                  OpenShapes, DumpShapes, Quiet, Observe, vars, collected, tracker, history
  <2> QED
      BY <2>1 DEF SeenTypes
<1>4. ASSUME NEW t \in Threads, RenderBreaks(t)
      PROVE  SeenTypes'
    BY <1>4, SeenCount DEF RenderBreaks, Everyone
<1>5. ASSUME NEW t \in Threads, ListBreaks(t)
      PROVE  SeenTypes'
    BY <1>5, SeenAttribute DEF ListBreaks, Everyone
<1>6. ASSUME NEW t \in Everyone, Callback(t)
      PROVE  SeenTypes'
    BY <1>6, SeenCallback
<1> QED
    BY <1>1, <1>2, <1>3, <1>4, <1>5, <1>6, NextByKind

-----------------------------------------------------------------------------
(* per_test *)

\* The lines of some tests.
LEMMA PerTestIs ==
    \A f : f \in PerTest <=> /\ f = [n \in DOMAIN f |-> f[n]] /\ DOMAIN f \subseteq Tests
                             /\ \A n \in DOMAIN f : f[n] \subseteq Lines
<1>1. ASSUME NEW f, f \in PerTest
      PROVE  f = [n \in DOMAIN f |-> f[n]] /\ DOMAIN f \subseteq Tests /\ \A n \in DOMAIN f : f[n] \subseteq Lines
  <2>1. PICK D \in SUBSET Tests : f \in [D -> SUBSET Lines]
      BY <1>1 DEF PerTest
  <2> QED
      BY <2>1
<1>2. ASSUME NEW f, f = [n \in DOMAIN f |-> f[n]], DOMAIN f \subseteq Tests, \A n \in DOMAIN f : f[n] \subseteq Lines
      PROVE  f \in PerTest
  <2> DEFINE D == DOMAIN f
  <2>1. D \in SUBSET Tests /\ f \in [D -> SUBSET Lines]
      BY <1>2
  <2> HIDE DEF D
  <2> QED
      BY <2>1 DEF PerTest
<1> QED
    BY <1>1, <1>2

\* No test has lines at first.
LEMMA TestsFirst == Init => perTest \in PerTest
<1> SUFFICES ASSUME Init PROVE perTest \in PerTest
    OBVIOUS
<1>1. perTest = [x \in {} |-> None]
    BY DEF Init, EmptyMap
<1>2. DOMAIN perTest = {} /\ perTest = [n \in DOMAIN perTest |-> perTest[n]]
    BY <1>1
<1> QED
    BY <1>2, PerTestIs

\* A test that was running gets a line.
LEMMA TestsAttribute ==
    ASSUME perTest \in PerTest, SeenTypes, IInv, NEW t \in Everyone, Attribute(t)
    PROVE  perTest' \in PerTest
<1>1. busy[t].line \in Lines
    BY SeenAttribute
<1>2. perTest' = IF current = None THEN perTest ELSE [perTest EXCEPT ![current] = @ \cup {busy[t].line}]
    BY DEF Attribute
<1>3. CASE current = None
    BY <1>2, <1>3
<1>4. CASE current # None
  <2>1. perTest' = [perTest EXCEPT ![current] = @ \cup {busy[t].line}]
      BY <1>2, <1>4
  <2>2. /\ perTest = [n \in DOMAIN perTest |-> perTest[n]] /\ DOMAIN perTest \subseteq Tests
        /\ \A n \in DOMAIN perTest : perTest[n] \subseteq Lines
      BY PerTestIs
  <2>3. DOMAIN perTest' = DOMAIN perTest /\ perTest' = [n \in DOMAIN perTest' |-> perTest'[n]]
      BY <2>1, <2>2
  <2>4. \A n \in DOMAIN perTest : perTest'[n] \subseteq perTest[n] \cup {busy[t].line}
      BY <2>1, <2>2
  <2> QED
      BY <1>1, <2>2, <2>3, <2>4, PerTestIs
<1> QED
    BY <1>3, <1>4

\* It is inductive.
LEMMA TestsNext == perTest \in PerTest /\ SeenTypes /\ IInv /\ [Next]_vars => perTest' \in PerTest
<1> SUFFICES ASSUME perTest \in PerTest, SeenTypes, IInv, [Next]_vars PROVE perTest' \in PerTest
    OBVIOUS
<1>1. CASE Hook
  <2>1. ASSUME NEW n \in Tests, LogStart(n) PROVE perTest' \in PerTest
    <3>1. CASE StartTest(n)
      <4>1. perTest' = [m \in DOMAIN perTest \cup {n} |-> IF m \in DOMAIN perTest THEN perTest[m] ELSE {}]
          BY <3>1 DEF StartTest
      <4>2. DOMAIN perTest \subseteq Tests /\ \A m \in DOMAIN perTest : perTest[m] \subseteq Lines
          BY PerTestIs
      <4>3. DOMAIN perTest' \subseteq Tests /\ perTest' = [m \in DOMAIN perTest' |-> perTest'[m]]
          BY <4>1, <4>2
      <4>4. \A m \in DOMAIN perTest' : perTest'[m] \subseteq Lines
          BY <4>1, <4>2
      <4> QED
          BY <4>3, <4>4, PerTestIs
    <3>2. CASE ~ StartTest(n)
        BY <2>1, <3>2 DEF LogStart
    <3> QED
        BY <3>1, <3>2
  <2>2. CASE \A n \in Tests : ~ LogStart(n)
      BY <1>1, <2>2 DEF Hook, Configure, NotConfigured, LogFinish, Finish, EndSession, Kill, collected, tracker
  <2> QED
      BY <2>1, <2>2
<1>2. CASE Interrupt \/ Writing \/ Observe \/ UNCHANGED vars
    BY <1>2 DEF Interrupt, EndSession, Writing, RenderEffects, OpenEffects, DumpEffects, OpenCoverage,
                ListFiles, ListTests, OpenShapes, DumpShapes, Quiet, Observe, vars, collected, tracker
<1>3. ASSUME NEW t \in Threads, RenderBreaks(t)
      PROVE  perTest' \in PerTest
    BY <1>3 DEF RenderBreaks, Count, tracker
<1>4. ASSUME NEW t \in Threads, ListBreaks(t)
      PROVE  perTest' \in PerTest
    BY <1>4, TestsAttribute DEF ListBreaks, Everyone
<1>5. ASSUME NEW t \in Everyone, Callback(t)
      PROVE  perTest' \in PerTest
  <2>1. CASE AttributeLine(t)
      BY <2>1, TestsAttribute DEF AttributeLine
  <2>2. CASE ~ AttributeLine(t)
      BY <1>5, <2>2 DEF Callback, StartThread, RunLine, RunUnseen, AddLine, AuditEffect, ObserveReturn,
                        CountEffect, Count, collected, tracker
  <2> QED
      BY <2>1, <2>2
<1> QED
    BY <1>1, <1>2, <1>3, <1>4, <1>5, NextByKind

-----------------------------------------------------------------------------
(* The counts, and what is written *)

\* The counts of some callables.
LEMMA HitsAre ==
    \A f : f \in Hits <=> /\ f = [o \in DOMAIN f |-> f[o]] /\ DOMAIN f \subseteq Owners
                          /\ \A o \in DOMAIN f : f[o] \in 1 .. MaxEvents
<1>1. ASSUME NEW f, f \in Hits
      PROVE  f = [o \in DOMAIN f |-> f[o]] /\ DOMAIN f \subseteq Owners /\ \A o \in DOMAIN f : f[o] \in 1 .. MaxEvents
  <2>1. PICK D \in SUBSET Owners : f \in [D -> 1 .. MaxEvents]
      BY <1>1 DEF Hits
  <2> QED
      BY <2>1
<1>2. ASSUME NEW f, f = [o \in DOMAIN f |-> f[o]], DOMAIN f \subseteq Owners, \A o \in DOMAIN f : f[o] \in 1 .. MaxEvents
      PROVE  f \in Hits
  <2> DEFINE D == DOMAIN f
             N == 1 .. MaxEvents
  <2>1. D \in SUBSET Owners
      BY <1>2
  <2>2. f \in [D -> N]
      BY <1>2
  <2> HIDE DEF D, N
  <2> QED
      BY <2>1, <2>2 DEF Hits, N
<1> QED
    BY <1>1, <1>2

\* No callable has more effects than there were events.
LEMMA PerformedBound ==
    ASSUME EventsInv, LedgerInv, NEW o \in Owners
    PROVE  performed[o] \in 0 .. MaxEvents
<1>1. IsFiniteSet(Pending(o)) /\ performed[o] + Cardinality(Pending(o)) <= events /\ events \in 0 .. MaxEvents
    BY DEF EventsInv
<1>2. performed[o] \in Nat /\ Cardinality(Pending(o)) \in Nat
    BY <1>1, FS_CardinalityType DEF LedgerInv
<1> QED
    BY <1>1, <1>2, MaxEventsIsNatural

\* A count is at most one more than what was performed.
LEMMA HitsCount ==
    ASSUME hits \in Hits, EventsInv, LedgerInv, NEW t \in Everyone, Count(t)
    PROVE  hits' \in Hits
<1>1. PICK q : q = busy[t].owner
    OBVIOUS
<1>2. PICK r : r = busy[t].read
    OBVIOUS
<1>3. q \in Owners /\ r \in Nat /\ r <= performed[q] /\ t \in Pending(q)
    BY <1>1, <1>2 DEF Count, In, LedgerInv, Counting, Pending
<1>4. hits' = [p \in DOMAIN hits \cup {q} |-> IF p = q THEN r + 1 ELSE hits[p]]
    BY <1>1, <1>2 DEF Count
<1>5. DOMAIN hits \subseteq Owners /\ \A p \in DOMAIN hits : hits[p] \in 1 .. MaxEvents
    BY HitsAre
<1>6. r + 1 \in 1 .. MaxEvents
  <2>1. /\ IsFiniteSet(Pending(q)) /\ performed[q] + Cardinality(Pending(q)) <= events
        /\ events \in 0 .. MaxEvents /\ performed[q] \in Nat
      BY <1>3 DEF EventsInv, LedgerInv
  <2>2. Cardinality(Pending(q)) \in Nat /\ Cardinality(Pending(q)) # 0
      BY <1>3, <2>1, FS_CardinalityType, FS_EmptySet
  <2> QED
      BY <1>3, <2>1, <2>2, MaxEventsIsNatural
<1>7. DOMAIN hits' \subseteq Owners /\ hits' = [p \in DOMAIN hits' |-> hits'[p]]
    BY <1>3, <1>4, <1>5
<1>8. \A p \in DOMAIN hits' : hits'[p] \in 1 .. MaxEvents
    BY <1>4, <1>5, <1>6
<1> QED
    BY <1>7, <1>8, HitsAre

\* Nothing is counted at first.
LEMMA HitsFirst == Init => hits \in Hits
<1> SUFFICES ASSUME Init PROVE hits \in Hits
    OBVIOUS
<1>1. hits = [x \in {} |-> None]
    BY DEF Init, EmptyMap
<1>2. DOMAIN hits = {} /\ hits = [o \in DOMAIN hits |-> hits[o]]
    BY <1>1
<1> QED
    BY <1>2, HitsAre

\* It is inductive.
LEMMA HitsNext == hits \in Hits /\ EventsInv /\ LedgerInv /\ [Next]_vars => hits' \in Hits
<1> SUFFICES ASSUME hits \in Hits, EventsInv, LedgerInv, [Next]_vars PROVE hits' \in Hits
    OBVIOUS
<1>1. CASE Hook \/ Interrupt \/ Writing \/ Observe \/ UNCHANGED vars
    BY <1>1 DEF Hook, Configure, NotConfigured, LogStart, LogFinish, Finish, Kill, Interrupt, EndSession,
                Writing, RenderEffects, OpenEffects, DumpEffects, OpenCoverage, ListFiles, ListTests,
                OpenShapes, DumpShapes, Quiet, Observe, vars, collected
<1>2. ASSUME NEW t \in Threads, RenderBreaks(t)
      PROVE  hits' \in Hits
    BY <1>2, HitsCount DEF RenderBreaks, Everyone
<1>3. ASSUME NEW t \in Threads, ListBreaks(t)
      PROVE  hits' \in Hits
    BY <1>3 DEF ListBreaks, Attribute
<1>4. ASSUME NEW t \in Everyone, Callback(t)
      PROVE  hits' \in Hits
  <2>1. CASE CountEffect(t)
      BY <2>1, HitsCount DEF CountEffect
  <2>2. CASE ~ CountEffect(t)
      BY <1>4, <2>2 DEF Callback, StartThread, RunLine, RunUnseen, AddLine, AttributeLine, Attribute,
                        AuditEffect, ObserveReturn, collected
  <2> QED
      BY <2>1, <2>2
<1> QED
    BY <1>1, <1>2, <1>3, <1>4, NextByKind

\* A file is missing, torn, or what a collector held.
FileTypes ==
    /\ draft \in [hits : Hits, files : SUBSET Lines]
    /\ out.effects \in Written(Hits)
    /\ out.coverage \in Written(Coverage)
    /\ out.shapes \in Written(SUBSET Owners)

\* A step that leaves the files alone.
LEMMA FilesStay == FileTypes /\ UNCHANGED <<draft, out>> => FileTypes'
BY DEF FileTypes

\* There are no files at first.
LEMMA FileTypesFirst == Init => FileTypes
<1> SUFFICES ASSUME Init PROVE FileTypes
    OBVIOUS
<1>1. draft = [hits |-> hits, files |-> {}] /\ out = NoOutput
    BY DEF Init
<1>2. hits \in Hits /\ {} \in SUBSET Lines
    BY HitsFirst
<1>3. draft \in [hits : Hits, files : SUBSET Lines]
    BY <1>1, <1>2
<1> QED
    BY <1>1, <1>3 DEF FileTypes, NoOutput, Written

\* A step that writes them.
LEMMA FileTypesWriting ==
    ASSUME FileTypes, FilesInv, SeenTypes, hits \in Hits, perTest \in PerTest, Writing
    PROVE  FileTypes'
<1>1. /\ draft.hits \in Hits /\ draft.files \in SUBSET Lines /\ allLines \in SUBSET Lines /\ returns \in SUBSET Owners
      /\ out.effects \in Written(Hits) /\ out.coverage \in Written(Coverage) /\ out.shapes \in Written(SUBSET Owners)
      /\ draft \in [hits : Hits, files : SUBSET Lines]
      /\ out = [effects |-> out.effects, coverage |-> out.coverage, shapes |-> out.shapes]
    BY DEF FileTypes, SeenTypes, FilesInv
<1>2. \A S : Torn \in Written(S) /\ \A x \in S : x \in Written(S)
    BY DEF Written
<1>3. CASE RenderEffects
  <2>1. draft' = [draft EXCEPT !.hits = hits] /\ out' = out
      BY <1>3 DEF RenderEffects
  <2>2. draft' \in [hits : Hits, files : SUBSET Lines]
      BY <1>1, <2>1
  <2> QED
      BY <1>1, <2>1, <2>2 DEF FileTypes
<1>4. CASE ListFiles
  <2>1. draft' = [draft EXCEPT !.files = allLines] /\ out' = out
      BY <1>4 DEF ListFiles
  <2>2. draft' \in [hits : Hits, files : SUBSET Lines]
      BY <1>1, <2>1
  <2> QED
      BY <1>1, <2>1, <2>2 DEF FileTypes
<1>5. CASE OpenEffects
  <2>1. out' = [out EXCEPT !.effects = Torn] /\ draft' = draft
      BY <1>5 DEF OpenEffects
  <2>2. out'.effects = Torn /\ out'.coverage = out.coverage /\ out'.shapes = out.shapes
      BY <1>1, <2>1
  <2> QED
      BY <1>1, <1>2, <2>1, <2>2 DEF FileTypes
<1>6. CASE DumpEffects
  <2>1. out' = [out EXCEPT !.effects = draft.hits] /\ draft' = draft
      BY <1>6 DEF DumpEffects
  <2>2. out'.effects = draft.hits /\ out'.coverage = out.coverage /\ out'.shapes = out.shapes
      BY <1>1, <2>1
  <2> QED
      BY <1>1, <1>2, <2>1, <2>2 DEF FileTypes
<1>7. CASE OpenCoverage
  <2>1. out' = [out EXCEPT !.coverage = Torn] /\ draft' = draft
      BY <1>7 DEF OpenCoverage
  <2>2. out'.coverage = Torn /\ out'.effects = out.effects /\ out'.shapes = out.shapes
      BY <1>1, <2>1
  <2> QED
      BY <1>1, <1>2, <2>1, <2>2 DEF FileTypes
<1>8. CASE ListTests
  <2> DEFINE c == [files |-> draft.files, tests |-> perTest]
  <2>1. out' = [out EXCEPT !.coverage = c] /\ draft' = draft
      BY <1>8 DEF ListTests
  <2>2. c \in Coverage
      BY <1>1 DEF Coverage
  <2> HIDE DEF c
  <2>3. out'.coverage = c /\ out'.effects = out.effects /\ out'.shapes = out.shapes
      BY <1>1, <2>1
  <2> QED
      BY <1>1, <1>2, <2>1, <2>2, <2>3 DEF FileTypes
<1>9. CASE OpenShapes
  <2>1. out' = [out EXCEPT !.shapes = Torn] /\ draft' = draft
      BY <1>9 DEF OpenShapes
  <2>2. out'.shapes = Torn /\ out'.effects = out.effects /\ out'.coverage = out.coverage
      BY <1>1, <2>1
  <2> QED
      BY <1>1, <1>2, <2>1, <2>2 DEF FileTypes
<1>10. CASE DumpShapes
  <2>1. out' = [out EXCEPT !.shapes = returns] /\ draft' = draft
      BY <1>10 DEF DumpShapes
  <2>2. out'.shapes = returns /\ out'.effects = out.effects /\ out'.coverage = out.coverage
      BY <1>1, <2>1
  <2> QED
      BY <1>1, <1>2, <2>1, <2>2 DEF FileTypes
<1> QED
    BY <1>3, <1>4, <1>5, <1>6, <1>7, <1>8, <1>9, <1>10 DEF Writing

\* They are inductive.
LEMMA FileTypesNext ==
    FileTypes /\ FilesInv /\ SeenTypes /\ hits \in Hits /\ perTest \in PerTest /\ [Next]_vars => FileTypes'
<1> SUFFICES ASSUME FileTypes, FilesInv, SeenTypes, hits \in Hits, perTest \in PerTest, [Next]_vars
             PROVE  FileTypes'
    OBVIOUS
<1>1. CASE Hook \/ Interrupt \/ Observe \/ UNCHANGED vars
    BY <1>1, FilesStay
    DEF Hook, Configure, NotConfigured, LogStart, LogFinish, Finish, Kill, Interrupt, EndSession, Observe,
        vars, outcome
<1>2. CASE Writing
    BY <1>2, FileTypesWriting
<1>3. ASSUME NEW t \in Threads, RenderBreaks(t) \/ ListBreaks(t)
      PROVE  FileTypes'
    BY <1>3, FilesStay DEF RenderBreaks, ListBreaks, outcome
<1>4. ASSUME NEW t \in Everyone, Callback(t)
      PROVE  FileTypes'
    BY <1>4, FilesStay DEF Callback, StartThread, RunLine, RunUnseen, AddLine, AttributeLine,
                           AuditEffect, ObserveReturn, CountEffect, outcome
<1> QED
    BY <1>1, <1>2, <1>3, <1>4, NextByKind

-----------------------------------------------------------------------------
(* Types *)

\* All the types.
TypesInv ==
    /\ EventsInv /\ SessionTypes /\ SeenTypes /\ FileTypes
    /\ perTest \in PerTest /\ hits \in Hits

\* All of it, at every moment.
LEMMA TypesInvariant == Spec => [](IInv /\ TypesInv)
<1>1. Init => TypesInv
    BY EventsFirst, SessionFirst, SeenFirst, FileTypesFirst, TestsFirst, HitsFirst DEF TypesInv
<1>2. IInv /\ TypesInv /\ [Next]_vars => TypesInv'
    BY EventsNext, SessionNext, SeenNext, FileTypesNext, TestsNext, HitsNext DEF TypesInv, IInv
<1> QED
    BY <1>1, <1>2, RunInvariant, PTL DEF Spec

\* At any moment of a run, also when a thread is in the middle of a callback or the session was
\* cut short: what the collectors hold and what the files hold is of this run's tests, lines
\* and callables, a thread is in no callback but of a line or an effect of them, and no effect
\* is counted, or about to be, more often than there were events.
THEOREM RunTypeCorrect == Spec => []TypeOK
<1>1. IInv /\ TypesInv => TypeOK
  <2> SUFFICES ASSUME IInv, TypesInv PROVE TypeOK
      OBVIOUS
  <2>1. /\ EventsInv /\ SessionTypes /\ SeenTypes /\ FileTypes /\ perTest \in PerTest /\ hits \in Hits
        /\ LedgerInv /\ MainInv
      BY DEF IInv, TypesInv
  <2>2. performed \in [Owners -> 0 .. MaxEvents]
    <3>1. performed \in [Owners -> Nat] /\ \A o \in Owners : performed[o] \in 0 .. MaxEvents
        BY <2>1, PerformedBound DEF LedgerInv
    <3> QED
        BY <3>1
  <2>3. running \in Origins /\ current \in Maybe(DOMAIN perTest) /\ startedBy \in [Threads -> Origins \cup {"nobody"}]
      BY <2>1 DEF MainInv
  <2>4. events \in 0 .. MaxEvents
      BY <2>1 DEF EventsInv
  <2> QED
      BY <2>1, <2>2, <2>3, <2>4 DEF TypeOK, SessionTypes, SeenTypes, FileTypes
<1> QED
    BY <1>1, TypesInvariant, PTL

=============================================================================
