-------------------------- MODULE ParseCacheProofs --------------------------
(***************************************************************************)
(* Proofs about ParseCache, for every set of files, contents, processes    *)
(* and releases.                                                           *)
(***************************************************************************)
EXTENDS ParseCache, FiniteSetTheorems, TLAPS

-----------------------------------------------------------------------------
(* Typing *)

\* The entry made for a file that was read is a well-typed entry.
LEMMA ReindexedType ==
    ASSUME TypeOK, NEW p \in Procs, NEW f \in Files, NEW c \in Contents
    PROVE  Reindexed(p, f, c) \in CachedFile
<1>1. Parse(p, c) \in FileIndex
    BY DEF Parse, FileIndex, Schemas
<1>2. prev[p][f] # None => prev[p][f].index \in FileIndex
    BY DEF TypeOK, Entries, CachedFile
<1>3. curStat[p] \in Stat
    BY DEF TypeOK
<1>. QED
    BY <1>1, <1>2, <1>3 DEF Reindexed, CachedFile

\* A stat is a stat.
LEMMA StatOfType ==
    ASSUME TypeOK, NEW f \in Files
    PROVE  StatOf(f) \in Stat
BY SizesAreNaturals DEF StatOf, TypeOK, Stat, FileState, NoStat

\* Steps of the environment keep the types.
LEMMA EnvironmentType ==
    ASSUME TypeOK, Edit \/ Clean
    PROVE  TypeOK'
<1>1. ASSUME NEW f \in Files, NEW c \in Contents, WriteFile(f, c)
      PROVE  TypeOK'
    BY <1>1 DEF WriteFile, Witness, TypeOK, procVars, FileState
<1>2. ASSUME NEW f \in Files, DeleteFile(f)
      PROVE  TypeOK'
    BY <1>2 DEF DeleteFile, Witness, TypeOK, procVars
<1>3. CASE Clean
    BY <1>3 DEF Clean, TypeOK, procVars
<1>. QED
    BY <1>1, <1>2, <1>3 DEF Edit

\* Steps of a run keep the types.
LEMMA RunType ==
    ASSUME TypeOK, NEW p \in Procs,
           Index(p) \/ Return(p) \/ StoreFails(p) \/ Crash(p)
    PROVE  TypeOK'
<1>0. NoEntries \in Entries /\ NoStat \in Stat
    BY DEF NoEntries, Entries, NoStat, Stat
<1>1. CASE Open(p)
    BY <1>1, <1>0 DEF Open, TypeOK, Goto, Blobs
<1>2. CASE Walk(p)
    BY <1>2 DEF Walk, TypeOK, Goto, FileState, Now
<1>3. ASSUME NEW f \in Files, TrustStat(p, f)
      PROVE  TypeOK'
    BY <1>3 DEF TrustStat, TypeOK, Entries
<1>4. ASSUME NEW f \in Files, StatMoved(p, f)
      PROVE  TypeOK'
    BY <1>4, StatOfType, NoneIsNothingElse DEF StatMoved, TypeOK, Goto
<1>5. CASE SkipFile(p)
    BY <1>5, <1>0 DEF SkipFile, TypeOK, Goto
<1>6. CASE ReadFile(p)
    <2>1. cur[p] \in Files /\ disk[cur[p]].content \in Contents
        BY <1>6 DEF ReadFile, TypeOK, FileState
    <2>. DEFINE e == Reindexed(p, cur[p], disk[cur[p]].content)
    <2>2. e \in CachedFile
        BY <2>1, ReindexedType
    <2>. HIDE DEF e
    <2>3. next' = [next EXCEPT ![p][cur[p]] = e]
        BY <1>6 DEF ReadFile, e
    <2>4. next' \in [Procs -> Entries]
        BY <2>1, <2>2, <2>3 DEF TypeOK, Entries
    <2>. QED
        BY <1>6, <1>0, <2>4 DEF ReadFile, TypeOK, Goto
<1>7. CASE Finish(p)
    BY <1>7 DEF Finish, Moved, TypeOK, Goto
<1>8. CASE Store(p)
    BY <1>8 DEF Store, TypeOK, Goto, Blobs, Schemas
<1>9. CASE StoreFails(p)
    BY <1>9 DEF StoreFails, TypeOK, Goto
<1>10. CASE Return(p) \/ Crash(p)
    <2>1. Gone(p)
        BY <1>10 DEF Return, Crash
    <2>2. [f \in Files |-> {}] \in [Files -> SUBSET (Contents \cup {None})]
        OBVIOUS
    <2>. QED
        BY <2>1, <2>2, <1>0 DEF Gone, TypeOK, Goto
<1>. QED
    BY <1>1, <1>2, <1>3, <1>4, <1>5, <1>6, <1>7, <1>8, <1>9, <1>10 DEF Index

\* The initial state is well typed.
LEMMA InitType == Init => TypeOK
BY DEF Init, TypeOK, NoEntries, Entries, NoStat, Stat

\* Every step keeps the types.
LEMMA NextType == TypeOK /\ [Next]_vars => TypeOK'
<1>. SUFFICES ASSUME TypeOK, [Next]_vars
              PROVE  TypeOK'
    OBVIOUS
<1>1. CASE Edit \/ Clean
    BY <1>1, EnvironmentType
<1>2. ASSUME NEW p \in Procs,
             Index(p) \/ Return(p) \/ StoreFails(p) \/ Crash(p)
      PROVE  TypeOK'
    BY <1>2, RunType
<1>3. CASE UNCHANGED vars
    BY <1>3 DEF vars, TypeOK
<1>. QED
    BY <1>1, <1>2, <1>3 DEF Next

\* Every reachable state of the parse layer is well typed.
THEOREM TypeCorrect == Spec => []TypeOK
BY InitType, NextType, PTL DEF Spec

-----------------------------------------------------------------------------
(* What holds whatever the clock does *)

\* A file that was read gets a sound entry: the old parse is kept only under
\* an equal hash, and then it is the parse of that very content.
LEMMA ReindexedSound ==
    ASSUME TypeOK, NEW p \in Procs, NEW f \in Files, NEW c \in Readable,
           Sound(prev[p], Schema[p])
    PROVE  /\ Reindexed(p, f, c) # None
           /\ Reindexed(p, f, c).stat = curStat[p]
           /\ Reindexed(p, f, c).hash = c
           /\ Reindexed(p, f, c).index = [of |-> c, by |-> Schema[p]]
<1>1. Reindexed(p, f, c) \in CachedFile
    BY ReindexedType, ReadableAreContents
<1>2. Reindexed(p, f, c) # None
    BY <1>1, NoneIsNothingElse
<1>. QED
    BY <1>2 DEF Reindexed, Sound, Parse

\* ReadFile, restated: one new entry, of the file's content.
LEMMA ReadFileEntry ==
    ASSUME TypeOK, NEW p \in Procs, ReadFile(p), Sound(prev[p], Schema[p])
    PROVE  \E e \in CachedFile :
             /\ cur[p] \in Files /\ disk[cur[p]] \in FileState
             /\ e # None
             /\ e.stat = curStat[p]
             /\ e.hash = disk[cur[p]].content
             /\ e.hash \in Readable
             /\ e.index = [of |-> e.hash, by |-> Schema[p]]
             /\ next' = [next EXCEPT ![p][cur[p]] = e]
<1>. DEFINE f == cur[p]
            c == disk[f].content
            e == Reindexed(p, f, c)
<1>1. f \in Files /\ disk[f] \in FileState
    BY DEF ReadFile, TypeOK
<1>2. c \in Readable
    BY DEF ReadFile
<1>3. next' = [next EXCEPT ![p][f] = e]
    BY DEF ReadFile
<1>. HIDE DEF f, c
<1>4. e \in CachedFile
    BY <1>1, <1>2, ReindexedType, ReadableAreContents
<1>5. /\ e # None
      /\ e.stat = curStat[p]
      /\ e.hash = c
      /\ e.index = [of |-> c, by |-> Schema[p]]
    BY <1>1, <1>2, ReindexedSound
<1>. HIDE DEF e
<1>. QED
    BY <1>1, <1>2, <1>3, <1>4, <1>5 DEF f, c

\* A process that ends or dies leaves parse.bin and the other processes alone
\* and holds no entry.
LEMMA GoneClears ==
    ASSUME TypeOK, NEW p \in Procs, Return(p) \/ Crash(p)
    PROVE  /\ UNCHANGED <<disk, clock, blob>>
           /\ \A q \in Procs \ {p} :
                /\ pc'[q] = pc[q] /\ prev'[q] = prev[q] /\ todo'[q] = todo[q]
                /\ cur'[q] = cur[q] /\ curStat'[q] = curStat[q]
                /\ next'[q] = next[q] /\ dirty'[q] = dirty[q]
                /\ seen'[q] = seen[q]
           /\ pc'[p] = "idle" /\ todo'[p] = {} /\ ~dirty'[p]
           /\ prev'[p] = NoEntries /\ next'[p] = NoEntries
           /\ curStat'[p] = NoStat
           /\ \A f \in Files : prev'[p][f] = None /\ next'[p][f] = None
<1>1. Gone(p)
    BY DEF Return, Crash
<1>. QED
    BY <1>1 DEF Gone, Goto, TypeOK, NoEntries

\* Steps keep every entry sound.
LEMMA SoundStep ==
    ASSUME TypeOK, AllSound, Next
    PROVE  AllSound'
<1>. USE DEF AllSound, Sound
<1>1. CASE Edit
    BY <1>1 DEF Edit, WriteFile, DeleteFile, procVars
<1>2. CASE Clean
    BY <1>2 DEF Clean, procVars
<1>3. ASSUME NEW p \in Procs, Index(p)
      PROVE  AllSound'
    <2>1. CASE Open(p)
        BY <2>1 DEF Open, TypeOK, Entries, NoEntries
    <2>2. CASE Walk(p) \/ SkipFile(p) \/ Finish(p)
        BY <2>2 DEF Walk, SkipFile, Finish
    <2>3. ASSUME NEW f \in Files, TrustStat(p, f)
          PROVE  AllSound'
        BY <2>3 DEF TrustStat, TypeOK, Entries
    <2>4. ASSUME NEW f \in Files, StatMoved(p, f)
          PROVE  AllSound'
        BY <2>4 DEF StatMoved
    <2>5. CASE ReadFile(p)
        <3>1. PICK e \in CachedFile :
                 /\ cur[p] \in Files /\ e.hash \in Readable
                 /\ e.index = [of |-> e.hash, by |-> Schema[p]]
                 /\ next' = [next EXCEPT ![p][cur[p]] = e]
            BY <2>5, ReadFileEntry
        <3>2. blob' = blob /\ prev' = prev
            BY <2>5 DEF ReadFile
        <3>3. \A q \in Procs, f \in Files :
                 next'[q][f] = IF q = p /\ f = cur[p] THEN e ELSE next[q][f]
            BY <3>1 DEF TypeOK, Entries
        <3>. QED
            BY <3>1, <3>2, <3>3
    <2>6. CASE Store(p)
        BY <2>6 DEF Store
    <2>. QED
        BY <1>3, <2>1, <2>2, <2>3, <2>4, <2>5, <2>6 DEF Index
<1>4. ASSUME NEW p \in Procs, Return(p) \/ StoreFails(p) \/ Crash(p)
      PROVE  AllSound'
    <2>1. CASE Return(p) \/ Crash(p)
        BY <2>1, GoneClears
    <2>2. CASE StoreFails(p)
        BY <2>2 DEF StoreFails
    <2>. QED
        BY <1>4, <2>1, <2>2
<1>. QED
    BY <1>1, <1>2, <1>3, <1>4 DEF Next

\* Steps of the environment do not touch a process.
LEMMA EnvironmentLeavesRuns ==
    ASSUME Edit \/ Clean
    PROVE  UNCHANGED procVars
BY DEF Edit, WriteFile, DeleteFile, Clean

\* Steps keep each process where its variables say.
LEMMA ControlStep ==
    ASSUME TypeOK, \A p \in Procs : Control(p), Next
    PROVE  \A p \in Procs : Control(p)'
<1>. USE DEF Control, Walked
<1>1. CASE Edit \/ Clean
    BY <1>1, EnvironmentLeavesRuns DEF procVars
<1>2. ASSUME NEW p \in Procs, Index(p)
      PROVE  \A q \in Procs : Control(q)'
    <2>1. CASE Open(p)
        BY <2>1 DEF Open, Goto, TypeOK
    <2>2. CASE Walk(p)
        BY <2>2 DEF Walk, Goto, TypeOK, NoEntries
    <2>3. ASSUME NEW f \in Files, TrustStat(p, f)
          PROVE  \A q \in Procs : Control(q)'
        <3>1. /\ todo'[p] = todo[p] \ {f}
              /\ \A q \in Procs \ {p} : todo'[q] = todo[q]
              /\ pc[p] = "file" /\ UNCHANGED <<pc, prev, cur, dirty>>
            BY <2>3 DEF TrustStat, TypeOK
        <3>2. \A q \in Procs, g \in Files :
                 q # p \/ g # f => next'[q][g] = next[q][g]
            BY <2>3 DEF TrustStat, TypeOK, Entries
        <3>3. \A q \in Procs \ {p} : next'[q] = next[q]
            BY <2>3 DEF TrustStat, TypeOK
        <3>4. Control(p)'
            BY <3>1, <3>2 DEF TypeOK
        <3>5. ASSUME NEW q \in Procs \ {p}
              PROVE  Control(q)'
            BY <3>1, <3>3
        <3>. QED
            BY <3>4, <3>5
    <2>4. ASSUME NEW f \in Files, StatMoved(p, f)
          PROVE  \A q \in Procs : Control(q)'
        BY <2>4 DEF StatMoved, Goto, TypeOK
    <2>5. CASE SkipFile(p)
        BY <2>5 DEF SkipFile, Goto, TypeOK
    <2>6. CASE ReadFile(p)
        <3>1. /\ todo'[p] = todo[p] \ {cur[p]}
              /\ pc[p] = "read" /\ pc'[p] = "file"
              /\ \A q \in Procs \ {p} :
                   /\ todo'[q] = todo[q] /\ pc'[q] = pc[q]
                   /\ dirty'[q] = dirty[q] /\ cur'[q] = cur[q]
              /\ prev' = prev
            BY <2>6 DEF ReadFile, Goto, TypeOK
        <3>2. \A q \in Procs, f \in Files :
                 q # p \/ f # cur[p] => next'[q][f] = next[q][f]
            BY <2>6 DEF ReadFile, TypeOK, Entries
        <3>3. \A q \in Procs \ {p} : next'[q] = next[q]
            BY <2>6 DEF ReadFile, TypeOK
        <3>4. Control(p)'
            BY <3>1, <3>2 DEF TypeOK
        <3>5. ASSUME NEW q \in Procs \ {p}
              PROVE  Control(q)'
            BY <3>1, <3>3
        <3>. QED
            BY <3>4, <3>5
    <2>7. CASE Finish(p)
        BY <2>7 DEF Finish, Goto, TypeOK
    <2>8. CASE Store(p)
        BY <2>8 DEF Store, Goto, TypeOK
    <2>. QED
        BY <1>2, <2>1, <2>2, <2>3, <2>4, <2>5, <2>6, <2>7, <2>8 DEF Index
<1>3. ASSUME NEW p \in Procs, StoreFails(p)
      PROVE  \A q \in Procs : Control(q)'
    BY <1>3 DEF StoreFails, Goto, TypeOK
<1>4. ASSUME NEW p \in Procs, Return(p) \/ Crash(p)
      PROVE  \A q \in Procs : Control(q)'
    BY <1>4, GoneClears
<1>. QED
    BY <1>1, <1>2, <1>3, <1>4 DEF Next

\* Until something moved, a step only copies entries.
LEMMA CopiesStep ==
    ASSUME TypeOK, NEW p \in Procs, Control(p), CopiesUntilDirty(p), Next
    PROVE  CopiesUntilDirty(p)'
<1>. USE DEF CopiesUntilDirty
<1>1. CASE Edit \/ Clean
    BY <1>1, EnvironmentLeavesRuns DEF procVars
<1>2. ASSUME NEW q \in Procs, Index(q)
      PROVE  CopiesUntilDirty(p)'
    <2>1. CASE Open(q)
        BY <2>1 DEF Open, TypeOK, Control, Walked, NoEntries
    <2>2. ASSUME NEW f \in Files, TrustStat(q, f)
          PROVE  CopiesUntilDirty(p)'
        BY <2>2 DEF TrustStat, TypeOK, Entries
    <2>3. CASE \/ Walk(q) \/ SkipFile(q) \/ Store(q)
              \/ \E f \in Files : StatMoved(q, f)
        BY <2>3 DEF Walk, SkipFile, Store, StatMoved
    <2>4. CASE ReadFile(q)
        BY <2>4 DEF ReadFile, TypeOK
    <2>5. CASE Finish(q)
        BY <2>5 DEF Finish, Moved, TypeOK
    <2>. QED
        BY <1>2, <2>1, <2>2, <2>3, <2>4, <2>5 DEF Index
<1>3. ASSUME NEW q \in Procs, StoreFails(q)
      PROVE  CopiesUntilDirty(p)'
    BY <1>3 DEF StoreFails
<1>4. ASSUME NEW q \in Procs, Return(q) \/ Crash(q)
      PROVE  CopiesUntilDirty(p)'
    BY <1>4, GoneClears
<1>. QED
    BY <1>1, <1>2, <1>3, <1>4 DEF Next

\* A run that has only copied entries, and as many as there were, has copied
\* all of them: comparing the two COUNTS is enough to notice a deletion.
LEMMA SameCountMeansSame ==
    ASSUME TypeOK, NEW p \in Procs, CopiesUntilDirty(p), ~Moved(p)
    PROVE  next[p] = prev[p]
<1>1. \A f \in Files : next[p][f] # None => next[p][f] = prev[p][f]
    BY DEF CopiesUntilDirty, Moved
<1>2. Present(next[p]) \subseteq Present(prev[p])
    BY <1>1 DEF Present
<1>3. IsFiniteSet(Present(prev[p]))
    BY FilesFinite, FS_Subset DEF Present
<1>4. Cardinality(Present(next[p])) = Cardinality(Present(prev[p]))
    BY DEF Moved
<1>5. Present(next[p]) = Present(prev[p])
    BY <1>2, <1>3, <1>4, FS_Subset
<1>6. \A f \in Files : next[p][f] = prev[p][f]
    BY <1>1, <1>5 DEF Present
<1>. QED
    BY <1>6 DEF TypeOK, Entries

\* Steps keep the claim about runs that write nothing.
LEMMA CleanRunStep ==
    ASSUME TypeOK, \A p \in Procs : Control(p) /\ CopiesUntilDirty(p),
           CleanRunKeptEverything, Next
    PROVE  CleanRunKeptEverything'
<1>. USE DEF CleanRunKeptEverything
<1>1. CASE Edit \/ Clean
    BY <1>1, EnvironmentLeavesRuns DEF procVars
<1>2. ASSUME NEW p \in Procs, Index(p)
      PROVE  CleanRunKeptEverything'
    <2>1. CASE Finish(p)
        <3>1. Moved(p) \/ next[p] = prev[p]
            BY SameCountMeansSame
        <3>. QED
            BY <2>1, <3>1 DEF Finish, Goto, TypeOK
    <2>2. CASE Store(p)
        BY <2>2 DEF Store, Goto, TypeOK, Control
    <2>3. CASE Open(p) \/ Walk(p) \/ SkipFile(p) \/ ReadFile(p)
        BY <2>3 DEF Open, Walk, SkipFile, ReadFile, Goto, TypeOK
    <2>4. ASSUME NEW f \in Files, TrustStat(p, f) \/ StatMoved(p, f)
          PROVE  CleanRunKeptEverything'
        BY <2>4 DEF TrustStat, StatMoved, Goto, TypeOK
    <2>. QED
        BY <1>2, <2>1, <2>2, <2>3, <2>4 DEF Index
<1>3. ASSUME NEW p \in Procs, StoreFails(p)
      PROVE  CleanRunKeptEverything'
    BY <1>3 DEF StoreFails, Goto, TypeOK, Control
<1>4. ASSUME NEW p \in Procs, Return(p) \/ Crash(p)
      PROVE  CleanRunKeptEverything'
    BY <1>4, GoneClears
<1>. QED
    BY <1>1, <1>2, <1>3, <1>4 DEF Next

\* Inv holds initially.
LEMMA InvInit == Init => Inv
<1>. SUFFICES ASSUME Init
              PROVE  Inv
    OBVIOUS
<1>1. TypeOK
    BY InitType
<1>2. AllSound
    BY DEF Init, AllSound, Sound, NoEntries
<1>3. \A p \in Procs : Control(p) /\ CopiesUntilDirty(p)
    BY DEF Init, Control, Walked, CopiesUntilDirty, NoEntries
<1>4. CleanRunKeptEverything
    BY DEF Init, CleanRunKeptEverything
<1>. QED
    BY <1>1, <1>2, <1>3, <1>4 DEF Inv

\* Every step keeps Inv.
LEMMA InvStep == Inv /\ [Next]_vars => Inv'
<1>. SUFFICES ASSUME Inv, [Next]_vars
              PROVE  Inv'
    OBVIOUS
<1>1. CASE Next
    <2>1. TypeOK'
        BY NextType DEF Inv
    <2>2. AllSound'
        BY <1>1, SoundStep DEF Inv
    <2>3. \A p \in Procs : Control(p)' /\ CopiesUntilDirty(p)'
        BY <1>1, ControlStep, CopiesStep DEF Inv
    <2>4. CleanRunKeptEverything'
        BY <1>1, CleanRunStep DEF Inv
    <2>. QED
        BY <2>1, <2>2, <2>3, <2>4 DEF Inv
<1>2. CASE UNCHANGED vars
    BY <1>2 DEF vars, Inv, TypeOK, AllSound, Sound, Control, Walked,
                CopiesUntilDirty, CleanRunKeptEverything
<1>. QED
    BY <1>1, <1>2

\* Inv is an invariant of the parse layer, whatever the clock does.
THEOREM Invariance == Spec => []Inv
BY InvInit, InvStep, PTL DEF Spec

\* A run that does not write parse.bin has found it exact.
THEOREM CleanRuns == Spec => []CleanRunKeptEverything
<1>1. Inv => CleanRunKeptEverything
    BY DEF Inv
<1>. QED
    BY <1>1, Invariance, PTL

\* Runs with one fingerprint have one result, even on a coarse clock and with
\* several releases sharing the cache directory.
THEOREM FingerprintKeysParse == Spec => []FingerprintDeterminesParse
<1>1. Inv => FingerprintDeterminesParse
    <2>. SUFFICES ASSUME Inv, NEW p \in Procs, NEW q \in Procs,
                         Fingerprint(p) = Fingerprint(q)
                  PROVE  Result(p) = Result(q)
        BY DEF FingerprintDeterminesParse
    <2>1. Schema[p] = Schema[q]
        BY DEF Fingerprint
    <2>2. ASSUME NEW f \in Files
          PROVE  Result(p)[f] = Result(q)[f]
        <3>1. (IF next[p][f] = None THEN None ELSE next[p][f].hash)
                = (IF next[q][f] = None THEN None ELSE next[q][f].hash)
            BY DEF Fingerprint
        <3>2. /\ next[p][f] # None => next[p][f].hash # None
              /\ next[q][f] # None => next[q][f].hash # None
            BY ReadableAreContents, NoneIsNothingElse
               DEF Inv, AllSound, Sound
        <3>. QED
            BY ZenonT(40), <2>1, <3>1, <3>2 DEF Inv, AllSound, Sound, Result
    <2>. QED
        BY <2>2 DEF Result
<1>. QED
    BY <1>1, Invariance, PTL

-----------------------------------------------------------------------------
(* What holds when every write has a timestamp of its own *)

\* The stat of a file is not in the future.
LEMMA StatOfPast ==
    ASSUME TypeOK, StampsPast, NEW f \in Files
    PROVE  /\ StatOf(f).mtime <= clock
           /\ StatOf(f).mtime # 0 <=> disk[f] # None
BY DEF StatOf, NoStat, StampsPast, TypeOK, FileState

\* TrustStat, restated: p copies its entry for f, everything else is unchanged.
LEMMA TrustStatCopies ==
    ASSUME TypeOK, NEW p \in Procs, NEW f \in Files, TrustStat(p, f)
    PROVE  /\ prev[p][f] # None /\ prev[p][f].stat = StatOf(f)
           /\ next'[p][f] = prev[p][f]
           /\ f \in todo[p] /\ todo'[p] = todo[p] \ {f}
           /\ \A q \in Procs, g \in Files :
                q # p \/ g # f => next'[q][g] = next[q][g]
           /\ \A q \in Procs \ {p} : todo'[q] = todo[q]
           /\ UNCHANGED <<disk, clock, blob, pc, prev, cur, curStat, dirty, seen>>
BY DEF TrustStat, StatHit, TypeOK, Entries

\* ReadFile, restated: p gets one new entry, of the content of the file it reads.
LEMMA ReadFileAdds ==
    ASSUME TypeOK, NEW p \in Procs, ReadFile(p), Sound(prev[p], Schema[p])
    PROVE  \E e \in CachedFile :
             /\ cur[p] \in Files /\ disk[cur[p]] \in FileState
             /\ e # None /\ e.stat = curStat[p]
             /\ e.hash = disk[cur[p]].content /\ e.hash \in Readable
             /\ next'[p][cur[p]] = e
             /\ pc[p] = "read" /\ pc'[p] = "file"
             /\ todo'[p] = todo[p] \ {cur[p]}
             /\ curStat'[p] = NoStat
             /\ \A q \in Procs, g \in Files :
                  q # p \/ g # cur[p] => next'[q][g] = next[q][g]
             /\ \A q \in Procs \ {p} :
                  /\ todo'[q] = todo[q] /\ pc'[q] = pc[q]
                  /\ curStat'[q] = curStat[q]
             /\ UNCHANGED <<disk, clock, blob, prev, seen>>
<1>1. PICK e \in CachedFile :
         /\ cur[p] \in Files /\ disk[cur[p]] \in FileState
         /\ e # None /\ e.stat = curStat[p]
         /\ e.hash = disk[cur[p]].content /\ e.hash \in Readable
         /\ next' = [next EXCEPT ![p][cur[p]] = e]
    BY ReadFileEntry
<1>2. /\ next'[p][cur[p]] = e
      /\ \A q \in Procs, g \in Files :
           q # p \/ g # cur[p] => next'[q][g] = next[q][g]
    BY <1>1 DEF TypeOK, Entries
<1>3. /\ pc[p] = "read" /\ pc'[p] = "file"
      /\ todo'[p] = todo[p] \ {cur[p]}
      /\ curStat'[p] = NoStat
      /\ \A q \in Procs \ {p} :
           /\ todo'[q] = todo[q] /\ pc'[q] = pc[q]
           /\ curStat'[q] = curStat[q]
      /\ UNCHANGED <<disk, clock, blob, prev, seen>>
    BY DEF ReadFile, Goto, TypeOK
<1>. QED
    BY <1>1, <1>2, <1>3

\* Steps keep every timestamp in the past.
LEMMA StampsStep ==
    ASSUME TypeOK, AllSound, StampsPast, Next
    PROVE  StampsPast'
<1>. USE DEF StampsPast, Stamped
<1>1. ASSUME NEW f \in Files, NEW c \in Contents, WriteFile(f, c)
      PROVE  StampsPast'
    <2>1. PICK m \in {clock, clock + 1} :
             /\ m \in 1 .. MaxTime
             /\ clock' = m
             /\ disk' = [disk EXCEPT ![f] = [content |-> c, mtime |-> m]]
        BY <1>1 DEF WriteFile
    <2>2. clock \in Nat /\ clock' \in Nat /\ clock <= clock' /\ clock' >= 1
        BY <2>1, MaxTimeIsNatural DEF TypeOK
    <2>3. \A g \in Files : disk'[g] # None => disk'[g].mtime \in 1 .. clock'
        BY <2>1, <2>2 DEF TypeOK, FileState
    <2>4. UNCHANGED <<blob, prev, next, curStat>>
        BY <1>1 DEF WriteFile, procVars
    <2>5. blob # None => \A g \in Files : blob.entries[g] # None
                            => blob.entries[g].stat.mtime <= clock'
        BY <2>2 DEF TypeOK, Blobs, Entries, CachedFile, Stat
    <2>6. \A p \in Procs :
             /\ \A g \in Files : prev[p][g] # None => prev[p][g].stat.mtime <= clock'
             /\ \A g \in Files : next[p][g] # None => next[p][g].stat.mtime <= clock'
             /\ curStat[p].mtime <= clock'
        BY <2>2 DEF TypeOK, Entries, CachedFile, Stat
    <2>. QED
        BY <2>3, <2>4, <2>5, <2>6
<1>2. ASSUME NEW f \in Files, DeleteFile(f)
      PROVE  StampsPast'
    BY <1>2 DEF DeleteFile, procVars, TypeOK
<1>3. CASE Clean
    BY <1>3 DEF Clean, procVars
<1>4. ASSUME NEW p \in Procs, Index(p)
      PROVE  StampsPast'
    <2>1. CASE Open(p)
        BY <2>1 DEF Open, TypeOK, NoEntries
    <2>2. CASE Walk(p) \/ Finish(p)
        BY <2>2 DEF Walk, Finish
    <2>3. ASSUME NEW f \in Files, TrustStat(p, f)
          PROVE  StampsPast'
        BY <2>3, TrustStatCopies
    <2>4. ASSUME NEW f \in Files, StatMoved(p, f)
          PROVE  StampsPast'
        BY <2>4, StatOfPast DEF StatMoved, TypeOK
    <2>5. CASE SkipFile(p)
        BY <2>5 DEF SkipFile, TypeOK, NoStat
    <2>6. CASE ReadFile(p)
        <3>1. NoStat.mtime <= clock
            BY DEF NoStat, TypeOK
        <3>. QED
            BY <2>6, <3>1, ReadFileAdds DEF AllSound
    <2>7. CASE Store(p)
        BY <2>7 DEF Store
    <2>. QED
        BY <1>4, <2>1, <2>2, <2>3, <2>4, <2>5, <2>6, <2>7 DEF Index
<1>5. ASSUME NEW p \in Procs, StoreFails(p)
      PROVE  StampsPast'
    BY <1>5 DEF StoreFails
<1>6. ASSUME NEW p \in Procs, Return(p) \/ Crash(p)
      PROVE  StampsPast'
    <2>1. NoStat.mtime <= clock
        BY DEF NoStat, TypeOK
    <2>. QED
        BY <1>6, <2>1, GoneClears
<1>. QED
    BY <1>1, <1>2, <1>3, <1>4, <1>5, <1>6 DEF Next, Edit

\* Steps keep every entry current: a write takes the file to a timestamp no
\* entry has, and an entry made from a stat that is out of date by the time
\* the file is read cannot match it.
LEMMA CurrentStep ==
    ASSUME TypeOK, AllSound, StampsPast, AllCurrent, EveryWriteTicks, Next
    PROVE  AllCurrent'
<1>. USE DEF AllCurrent, Current
<1>1. ASSUME NEW f \in Files, NEW c \in Contents, WriteFile(f, c)
      PROVE  AllCurrent'
    <2>1. /\ disk' = [disk EXCEPT ![f] = [content |-> c, mtime |-> clock + 1]]
          /\ UNCHANGED <<blob, prev, next>>
        BY <1>1 DEF WriteFile, procVars
    <2>2. \A g \in Files \ {f} : disk'[g] = disk[g] /\ StatOf(g)' = StatOf(g)
        BY <2>1 DEF StatOf, TypeOK
    <2>3. StatOf(f)'.mtime = clock + 1
        <3>1. disk'[f] = [content |-> c, mtime |-> clock + 1]
            BY <2>1 DEF TypeOK
        <3>2. disk'[f] \in FileState
            BY <3>1 DEF FileState, TypeOK
        <3>3. disk'[f] # None
            BY <3>2, NoneIsNothingElse
        <3>. QED
            BY <3>1, <3>3 DEF StatOf
    <2>4. blob # None /\ blob.entries[f] # None
            => blob.entries[f].stat # StatOf(f)'
        <3>. HAVE blob # None /\ blob.entries[f] # None
        <3>1. blob.entries[f].stat.mtime \in Nat
            BY DEF TypeOK, Blobs, Entries, CachedFile, Stat
        <3>. QED
            BY <3>1, <2>3 DEF StampsPast, Stamped, TypeOK
    <2>5. \A p \in Procs :
             /\ prev[p][f] # None => prev[p][f].stat # StatOf(f)'
             /\ next[p][f] # None => next[p][f].stat # StatOf(f)'
        BY <2>3 DEF TypeOK, Entries, CachedFile, Stat, StampsPast, Stamped
    <2>. QED
        BY <2>1, <2>2, <2>4, <2>5
<1>2. ASSUME NEW f \in Files, DeleteFile(f)
      PROVE  AllCurrent'
    <2>1. UNCHANGED <<blob, prev, next>>
        BY <1>2 DEF DeleteFile, procVars
    <2>2. disk'[f] = None
        BY <1>2 DEF DeleteFile, TypeOK
    <2>3. \A g \in Files \ {f} : disk'[g] = disk[g] /\ StatOf(g)' = StatOf(g)
        BY <1>2 DEF DeleteFile, StatOf, TypeOK
    <2>. QED
        BY <2>1, <2>2, <2>3
<1>3. CASE Clean
    BY <1>3 DEF Clean, procVars, StatOf
<1>4. ASSUME NEW p \in Procs, Index(p)
      PROVE  AllCurrent'
    <2>1. CASE Open(p)
        BY <2>1 DEF Open, TypeOK, NoEntries, StatOf
    <2>2. CASE Walk(p) \/ Finish(p) \/ SkipFile(p)
        BY <2>2 DEF Walk, Finish, SkipFile, StatOf
    <2>3. ASSUME NEW f \in Files, TrustStat(p, f)
          PROVE  AllCurrent'
        <3>1. /\ next'[p][f] = prev[p][f]
              /\ \A q \in Procs, g \in Files :
                   q # p \/ g # f => next'[q][g] = next[q][g]
              /\ UNCHANGED <<disk, blob, prev>>
            BY <2>3, TrustStatCopies
        <3>2. \A g \in Files : StatOf(g)' = StatOf(g)
            BY <3>1 DEF StatOf
        <3>. QED
            BY <3>1, <3>2
    <2>4. ASSUME NEW f \in Files, StatMoved(p, f)
          PROVE  AllCurrent'
        BY <2>4 DEF StatMoved, StatOf
    <2>5. CASE ReadFile(p)
        <3>1. PICK e \in CachedFile :
                 /\ cur[p] \in Files
                 /\ e.hash = disk[cur[p]].content
                 /\ next'[p][cur[p]] = e
                 /\ \A q \in Procs, g \in Files :
                      q # p \/ g # cur[p] => next'[q][g] = next[q][g]
                 /\ UNCHANGED <<disk, clock, blob, prev, seen>>
            BY <2>5, ReadFileAdds DEF AllSound
        <3>2. \A g \in Files : StatOf(g)' = StatOf(g)
            BY <3>1 DEF StatOf
        <3>. QED
            BY <3>1, <3>2
    <2>6. CASE Store(p)
        BY <2>6 DEF Store, StatOf
    <2>. QED
        BY <1>4, <2>1, <2>2, <2>3, <2>4, <2>5, <2>6 DEF Index
<1>5. ASSUME NEW p \in Procs, StoreFails(p)
      PROVE  AllCurrent'
    BY <1>5 DEF StoreFails, StatOf
<1>6. ASSUME NEW p \in Procs, Return(p) \/ Crash(p)
      PROVE  AllCurrent'
    BY <1>6, GoneClears DEF StatOf
<1>. QED
    BY <1>1, <1>2, <1>3, <1>4, <1>5, <1>6 DEF Next, Edit

\* What a walked run has seen only grows, and what a file becomes is added.
LEMMA EditIsWitnessed ==
    ASSUME TypeOK, Edit, NEW p \in Procs, NEW f \in Files
    PROVE  /\ seen[p][f] \subseteq seen'[p][f]
           /\ Walked(p) /\ Now(f)' # Now(f) => Now(f)' \in seen'[p][f]
<1>1. ASSUME NEW g \in Files, NEW x, Witness(g, x),
             \A h \in Files \ {g} : Now(h)' = Now(h), Now(g)' = x
      PROVE  /\ seen[p][f] \subseteq seen'[p][f]
             /\ Walked(p) /\ Now(f)' # Now(f) => Now(f)' \in seen'[p][f]
    BY <1>1 DEF Witness, Walked, TypeOK
<1>2. ASSUME NEW g \in Files, NEW c \in Contents, WriteFile(g, c)
      PROVE  /\ \A h \in Files \ {g} : Now(h)' = Now(h)
             /\ Now(g)' = c
    <2>1. PICK m : /\ m \in {clock, clock + 1}
                   /\ disk' = [disk EXCEPT ![g] = [content |-> c, mtime |-> m]]
        BY <1>2 DEF WriteFile
    <2>2. [content |-> c, mtime |-> m] \in FileState
        BY <2>1 DEF FileState, TypeOK
    <2>. QED
        BY <2>1, <2>2, NoneIsNothingElse DEF Now, TypeOK
<1>3. ASSUME NEW g \in Files, DeleteFile(g)
      PROVE  /\ \A h \in Files \ {g} : Now(h)' = Now(h)
             /\ Now(g)' = None
    BY <1>3 DEF DeleteFile, Now, TypeOK
<1>. QED
    BY <1>1, <1>2, <1>3 DEF Edit, WriteFile, DeleteFile

\* Steps keep what a run has seen in step with the tree.
LEMMA WitnessedStep ==
    ASSUME TypeOK, NEW p \in Procs, Witnessed(p), Control(p), Next
    PROVE  Witnessed(p)'
<1>. USE DEF Witnessed, Walked
<1>1. CASE Edit
    <2>1. UNCHANGED <<pc, todo>>
        BY <1>1, EnvironmentLeavesRuns DEF procVars
    <2>. QED
        BY <1>1, <2>1, EditIsWitnessed
<1>2. CASE Clean
    BY <1>2 DEF Clean, procVars, Now
<1>3. ASSUME NEW q \in Procs, Index(q)
      PROVE  Witnessed(p)'
    <2>1. CASE Open(q)
        BY <2>1 DEF Open, Goto, TypeOK, Now
    <2>2. CASE Walk(q)
        <3>1. \A f \in Files : Now(f)' = Now(f)
            BY <2>2 DEF Walk, Now
        <3>2. CASE p = q
            <4>1. /\ \A f \in Files : seen'[p][f] = {Now(f)}
                  /\ todo'[p] = {f \in Files : disk[f] # None}
                BY <2>2, <3>2 DEF Walk, TypeOK
            <4>2. \A f \in Files : disk[f] # None => Now(f) \in Contents
                BY DEF Now, TypeOK, FileState
            <4>. QED
                BY <3>1, <4>1, <4>2
        <3>3. CASE p # q
            BY <2>2, <3>1, <3>3 DEF Walk, Goto, TypeOK
        <3>. QED
            BY <3>2, <3>3
    <2>3. ASSUME NEW f \in Files, TrustStat(q, f)
          PROVE  Witnessed(p)'
        BY <2>3 DEF TrustStat, TypeOK, Now
    <2>4. ASSUME NEW f \in Files, StatMoved(q, f)
          PROVE  Witnessed(p)'
        BY <2>4 DEF StatMoved, Goto, TypeOK, Now
    <2>5. CASE SkipFile(q)
        BY <2>5 DEF SkipFile, Goto, TypeOK, Now
    <2>6. CASE ReadFile(q)
        BY <2>6 DEF ReadFile, Goto, TypeOK, Now
    <2>7. CASE Finish(q)
        BY <2>7 DEF Finish, Goto, TypeOK, Now
    <2>8. CASE Store(q)
        BY <2>8 DEF Store, Goto, TypeOK, Now
    <2>. QED
        BY <1>3, <2>1, <2>2, <2>3, <2>4, <2>5, <2>6, <2>7, <2>8 DEF Index
<1>4. ASSUME NEW q \in Procs, StoreFails(q)
      PROVE  Witnessed(p)'
    BY <1>4 DEF StoreFails, Goto, TypeOK, Now
<1>5. ASSUME NEW q \in Procs, Return(q) \/ Crash(q)
      PROVE  Witnessed(p)'
    BY <1>5, GoneClears DEF Now
<1>. QED
    BY <1>1, <1>2, <1>3, <1>4, <1>5 DEF Next

\* Steps keep: what a run has indexed it has seen.
LEMMA SeenStep ==
    ASSUME TypeOK, AllSound, StampsPast, AllCurrent, NEW p \in Procs,
           Control(p), Witnessed(p), SeenSoFar(p), Next
    PROVE  SeenSoFar(p)'
<1>. USE DEF SeenSoFar
<1>1. CASE Edit
    <2>1. next' = next
        BY <1>1, EnvironmentLeavesRuns DEF procVars
    <2>. QED
        BY <1>1, <2>1, EditIsWitnessed
<1>2. CASE Clean
    BY <1>2 DEF Clean, procVars
<1>3. ASSUME NEW q \in Procs, Index(q)
      PROVE  SeenSoFar(p)'
    <2>1. CASE Walk(q)
        BY <2>1 DEF Walk, TypeOK, Control, Walked, NoEntries
    <2>2. ASSUME NEW f \in Files, TrustStat(q, f)
          PROVE  SeenSoFar(p)'
        <3>1. CASE p = q
            <4>1. next'[p][f].stat.mtime # 0 => Now(f) = next'[p][f].hash
                BY <2>2, <3>1, TrustStatCopies, StatOfPast
                   DEF AllCurrent, Current, Now
            <4>2. Now(f) \in seen[p][f]
                BY <2>2, <3>1 DEF Witnessed, Walked, TrustStat
            <4>. QED
                BY <2>2, <3>1, <4>1, <4>2, TrustStatCopies
        <3>2. CASE p # q
            BY <2>2, <3>2, TrustStatCopies
        <3>. QED
            BY <3>1, <3>2
    <2>3. CASE ReadFile(q)
        <3>1. PICK e \in CachedFile :
                 /\ cur[q] \in Files /\ disk[cur[q]] \in FileState
                 /\ e.hash = disk[cur[q]].content
                 /\ next'[q][cur[q]] = e
                 /\ \A r \in Procs, g \in Files :
                      r # q \/ g # cur[q] => next'[r][g] = next[r][g]
                 /\ UNCHANGED seen
            BY <2>3, ReadFileAdds DEF AllSound
        <3>2. p = q => Now(cur[q]) \in seen[p][cur[q]]
            BY <2>3, <3>1 DEF Witnessed, Walked, ReadFile
        <3>3. Now(cur[q]) = e.hash
            BY <3>1, NoneIsNothingElse DEF Now
        <3>. QED
            BY <3>1, <3>2, <3>3
    <2>4. ASSUME NEW f \in Files, StatMoved(q, f)
          PROVE  SeenSoFar(p)'
        BY <2>4 DEF StatMoved
    <2>5. CASE Open(q) \/ SkipFile(q) \/ Finish(q) \/ Store(q)
        BY <2>5 DEF Open, SkipFile, Finish, Store
    <2>. QED
        BY <1>3, <2>1, <2>2, <2>3, <2>4, <2>5 DEF Index
<1>4. ASSUME NEW q \in Procs, StoreFails(q)
      PROVE  SeenSoFar(p)'
    BY <1>4 DEF StoreFails
<1>5. ASSUME NEW q \in Procs, Return(q) \/ Crash(q)
      PROVE  SeenSoFar(p)'
    BY <1>5, GoneClears
<1>. QED
    BY <1>1, <1>2, <1>3, <1>4, <1>5 DEF Next

\* A file that has been one thing for the whole run, and that the run has just
\* dealt with, is what it is now; if the walk listed it, it is a content.
LEMMA OneContent ==
    ASSUME TypeOK, NEW p \in Procs, Witnessed(p), Walked(p),
           NEW f \in todo[p], NEW x, seen[p][f] = {x}
    PROVE  x = Now(f) /\ x \in Contents
BY DEF Witnessed, TypeOK

\* Steps keep the drop-in claim for every file a run is done with.
LEMMA DropInStep ==
    ASSUME TypeOK, AllSound, StampsPast, AllCurrent, NEW p \in Procs,
           Control(p), Witnessed(p), DropInSoFar(p), Next
    PROVE  DropInSoFar(p)'
<1>. USE DEF DropInSoFar
<1>1. CASE Edit
    <2>1. UNCHANGED <<pc, todo, next>>
        BY <1>1, EnvironmentLeavesRuns DEF procVars
    <2>2. Walked(p) => \A f \in Files, x \in Contents \cup {None} :
             seen'[p][f] = {x} => seen[p][f] = {x}
        <3>1. Walked(p) => \A f \in Files : seen[p][f] # {}
            BY DEF Witnessed
        <3>. QED
            BY <1>1, <3>1, EditIsWitnessed
    <2>. QED
        BY <2>1, <2>2 DEF Walked
<1>2. CASE Clean
    BY <1>2 DEF Clean, procVars, Walked
<1>3. ASSUME NEW q \in Procs, Index(q)
      PROVE  DropInSoFar(p)'
    <2>1. CASE Open(q)
        BY <2>1 DEF Open, Goto, TypeOK, Walked
    <2>2. CASE Walk(q)
        <3>1. CASE p = q
            <4>1. \A f \in Files \ todo'[p] : seen'[p][f] = {None}
                BY <2>2, <3>1 DEF Walk, TypeOK, Now
            <4>2. \A f \in Files : next'[p][f] = None
                BY <2>2, <3>1 DEF Walk, Control, Walked, NoEntries
            <4>3. None \notin Readable
                BY ReadableAreContents, NoneIsNothingElse
            <4>. QED
                BY <4>1, <4>2, <4>3
        <3>2. CASE p # q
            BY <2>2, <3>2 DEF Walk, Goto, TypeOK, Walked
        <3>. QED
            BY <3>1, <3>2
    <2>3. ASSUME NEW f \in Files, TrustStat(q, f)
          PROVE  DropInSoFar(p)'
        <3>1. CASE p = q
            <4>1. Walked(p) /\ UNCHANGED <<pc, seen>>
                BY <2>3, <3>1 DEF TrustStat, Walked
            <4>2. ASSUME NEW x \in Contents \cup {None}, seen[p][f] = {x}
                  PROVE  /\ next'[p][f] # None /\ next'[p][f].hash = x
                         /\ x \in Readable
                <5>1. x = Now(f) /\ x \in Contents
                    BY <2>3, <3>1, <4>1, <4>2, OneContent, TrustStatCopies
                <5>2. disk[f] # None /\ disk[f].content = x
                    BY <5>1, NoneIsNothingElse DEF Now
                <5>3. /\ prev[p][f] # None /\ prev[p][f].stat = StatOf(f)
                      /\ next'[p][f] = prev[p][f]
                    BY <2>3, <3>1, TrustStatCopies
                <5>4. prev[p][f].hash = x
                    BY <5>2, <5>3 DEF AllCurrent, Current
                <5>5. prev[p][f].hash \in Readable
                    BY <5>3 DEF AllSound, Sound
                <5>. QED
                    BY <5>3, <5>4, <5>5
            <4>3. \A g \in Files \ {f} : next'[p][g] = next[p][g]
                BY <2>3, TrustStatCopies
            <4>4. todo'[p] = todo[p] \ {f}
                BY <2>3, <3>1, TrustStatCopies
            <4>. QED
                BY <4>1, <4>2, <4>3, <4>4
        <3>2. CASE p # q
            BY <2>3, <3>2, TrustStatCopies DEF Walked
        <3>. QED
            BY <3>1, <3>2
    <2>4. ASSUME NEW f \in Files, StatMoved(q, f)
          PROVE  DropInSoFar(p)'
        BY <2>4 DEF StatMoved, Goto, TypeOK, Walked
    <2>5. CASE SkipFile(q)
        <3>1. CASE p = q
            <4>. DEFINE f == cur[p]
            <4>1. Walked(p) /\ f \in todo[p] /\ f \in Files
                BY <2>5, <3>1 DEF SkipFile, Walked, Control, TypeOK
            <4>2. /\ UNCHANGED <<next, seen>>
                  /\ todo'[p] = todo[p] \ {f}
                BY <2>5, <3>1 DEF SkipFile, TypeOK
            <4>3. next[p][f] = None
                BY <4>1 DEF Control
            <4>4. ASSUME NEW x \in Contents \cup {None}, seen[p][f] = {x}
                  PROVE  x \notin Readable
                <5>1. x = Now(f) /\ x \in Contents
                    BY <4>1, <4>4, OneContent
                <5>. QED
                    BY <2>5, <3>1, <5>1, NoneIsNothingElse DEF Now, SkipFile
            <4>. QED
                BY <4>1, <4>2, <4>3, <4>4
        <3>2. CASE p # q
            BY <2>5, <3>2 DEF SkipFile, Goto, TypeOK, Walked
        <3>. QED
            BY <3>1, <3>2
    <2>6. CASE ReadFile(q)
        <3>1. PICK e \in CachedFile :
                 /\ cur[q] \in Files /\ disk[cur[q]] \in FileState
                 /\ e # None
                 /\ e.hash = disk[cur[q]].content /\ e.hash \in Readable
                 /\ next'[q][cur[q]] = e
                 /\ pc[q] = "read" /\ pc'[q] = "file"
                 /\ todo'[q] = todo[q] \ {cur[q]}
                 /\ \A r \in Procs, g \in Files :
                      r # q \/ g # cur[q] => next'[r][g] = next[r][g]
                 /\ \A r \in Procs \ {q} : todo'[r] = todo[r] /\ pc'[r] = pc[r]
                 /\ UNCHANGED seen
            BY <2>6, ReadFileAdds DEF AllSound
        <3>2. CASE p = q
            <4>1. Walked(p) /\ cur[p] \in todo[p]
                BY <3>1, <3>2 DEF Walked, Control
            <4>2. Now(cur[p]) = e.hash
                BY <3>1, <3>2, NoneIsNothingElse DEF Now
            <4>3. \A x \in Contents \cup {None} :
                     seen[p][cur[p]] = {x} => x = e.hash
                BY <4>1, <4>2, OneContent
            <4>. QED
                BY <3>1, <3>2, <4>1, <4>3
        <3>3. CASE p # q
            BY <3>1, <3>3 DEF Walked
        <3>. QED
            BY <3>2, <3>3
    <2>7. CASE Finish(q)
        BY <2>7 DEF Finish, Goto, TypeOK, Walked
    <2>8. CASE Store(q)
        BY <2>8 DEF Store, Goto, TypeOK, Walked
    <2>. QED
        BY <1>3, <2>1, <2>2, <2>3, <2>4, <2>5, <2>6, <2>7, <2>8 DEF Index
<1>4. ASSUME NEW q \in Procs, StoreFails(q)
      PROVE  DropInSoFar(p)'
    BY <1>4 DEF StoreFails, Goto, TypeOK, Walked
<1>5. ASSUME NEW q \in Procs, Return(q) \/ Crash(q)
      PROVE  DropInSoFar(p)'
    BY <1>5, GoneClears DEF Walked
<1>. QED
    BY <1>1, <1>2, <1>3, <1>4, <1>5 DEF Next

\* IInv holds initially.
LEMMA IInvInit == Init => IInv
<1>. SUFFICES ASSUME Init
              PROVE  IInv
    OBVIOUS
<1>1. Inv
    BY InvInit
<1>2. StampsPast
    BY DEF Init, StampsPast, Stamped, NoEntries, NoStat
<1>3. AllCurrent
    BY DEF Init, AllCurrent, Current, NoEntries
<1>4. \A p \in Procs : Witnessed(p) /\ SeenSoFar(p) /\ DropInSoFar(p)
    BY DEF Init, Witnessed, SeenSoFar, DropInSoFar, Walked, NoEntries
<1>. QED
    BY <1>1, <1>2, <1>3, <1>4 DEF IInv

\* Every step keeps IInv if every write has a timestamp of its own.
LEMMA IInvStep ==
    ASSUME EveryWriteTicks
    PROVE  IInv /\ [Next]_vars => IInv'
<1>. SUFFICES ASSUME IInv, [Next]_vars
              PROVE  IInv'
    OBVIOUS
<1>1. CASE Next
    <2>1. Inv'
        BY InvStep DEF IInv
    <2>2. StampsPast' /\ AllCurrent'
        BY <1>1, StampsStep, CurrentStep DEF IInv, Inv
    <2>3. \A p \in Procs : Witnessed(p)'
        BY <1>1, WitnessedStep DEF IInv, Inv
    <2>4. \A p \in Procs : SeenSoFar(p)'
        BY <1>1, SeenStep DEF IInv, Inv
    <2>5. \A p \in Procs : DropInSoFar(p)'
        BY <1>1, DropInStep DEF IInv, Inv
    <2>. QED
        BY <2>1, <2>2, <2>3, <2>4, <2>5 DEF IInv
<1>2. CASE UNCHANGED vars
    <2>1. Inv'
        BY <1>2, InvStep DEF IInv
    <2>. QED
        BY <1>2, <2>1 DEF vars, IInv, StampsPast, Stamped, AllCurrent, Current,
              StatOf, Witnessed, Walked, Now, SeenSoFar, DropInSoFar
<1>. QED
    BY <1>1, <1>2

\* IInv is an invariant if every write has a timestamp of its own.
THEOREM HonestInvariance ==
    ASSUME EveryWriteTicks
    PROVE  Spec => []IInv
BY IInvInit, IInvStep, PTL DEF Spec

\* A stat hit is never stale, whatever is edited while runs are under way.
THEOREM StatHits ==
    ASSUME EveryWriteTicks
    PROVE  Spec => []StatHitIsCurrent
<1>1. IInv => StatHitIsCurrent
    BY DEF IInv, AllCurrent, Current, StatHitIsCurrent, Trusted
<1>. QED
    BY <1>1, HonestInvariance, PTL

\* The cached index is a drop-in for the uncached one.
THEOREM DropInForIndexTree ==
    ASSUME EveryWriteTicks
    PROVE  Spec => []DropIn
<1>1. IInv => DropIn
    <2>. SUFFICES ASSUME IInv, NEW p \in Procs, pc[p] = "done",
                         NEW f \in Files, NEW x \in Contents \cup {None},
                         seen[p][f] = {x}
                  PROVE  Result(p)[f] = IF x \in Readable THEN Parse(p, x)
                                                          ELSE None
        BY DEF DropIn
    <2>1. f \notin todo[p] /\ Walked(p)
        BY DEF IInv, Inv, Control, Walked
    <2>2. Result(p)[f] = IF next[p][f] = None THEN None ELSE next[p][f].index
        BY DEF Result
    <2>3. CASE x \in Readable
        <3>1. next[p][f] # None /\ next[p][f].hash = x
            BY <2>1, <2>3 DEF IInv, DropInSoFar
        <3>. QED
            BY <2>2, <2>3, <3>1 DEF IInv, Inv, AllSound, Sound, Parse
    <2>4. CASE x \notin Readable
        BY <2>1, <2>2, <2>4 DEF IInv, DropInSoFar
    <2>. QED
        BY <2>3, <2>4
<1>. QED
    BY <1>1, HonestInvariance, PTL

\* A file edited under a run is indexed as something it was during the run.
THEOREM NeverOlder ==
    ASSUME EveryWriteTicks
    PROVE  Spec => []NeverOlderThanRun
<1>1. IInv => NeverOlderThanRun
    <2>. SUFFICES ASSUME IInv, NEW p \in Procs, NEW f \in Files,
                         next[p][f] # None, next[p][f].stat.mtime # 0
                  PROVE  /\ Result(p)[f].of \in seen[p][f]
                         /\ Result(p)[f].by = Schema[p]
        BY DEF NeverOlderThanRun
    <2>1. Result(p)[f] = [of |-> next[p][f].hash, by |-> Schema[p]]
        BY DEF IInv, Inv, AllSound, Sound, Result
    <2>2. next[p][f].hash \in seen[p][f]
        BY DEF IInv, SeenSoFar
    <2>. QED
        BY <2>1, <2>2
<1>. QED
    BY <1>1, HonestInvariance, PTL

=============================================================================
