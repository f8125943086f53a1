----------------------------- MODULE ParseCache -----------------------------
(***************************************************************************)
(* The parse layer of the analysis cache: cached_index of                  *)
(* pyq-cli/src/cache.rs, run by pyq processes of possibly different        *)
(* releases, over a tree that an editor changes while they run.            *)
(*                                                                         *)
(* A run reads parse.bin, walks the tree, and for each file takes the      *)
(* stat: an entry with the same (size, mtime) is trusted, anything else is *)
(* read and hashed, and parsed unless the hash is the entry's.  The run    *)
(* then fingerprints what it has and, if anything moved, writes parse.bin. *)
(* Other processes and the editor take steps between any two of these.     *)
(*                                                                         *)
(* parse.bin is the register that BlobStore is shown to implement.  A      *)
(* content stands for its own hash, and a parse is the pair of the content *)
(* parsed and the release (schema) that parsed it.                         *)
(***************************************************************************)
EXTENDS Naturals, FiniteSets

CONSTANTS
    Files,        \* root-relative paths
    Contents,     \* file contents
    Readable,     \* the contents read_to_string accepts (the others are not UTF-8)
    SizeOf,       \* SizeOf[c]: length of content c
    Procs,        \* pyq processes
    Schema,       \* Schema[p]: SCHEMA_VERSION of the release p runs
    MaxTime,      \* bound on the file system's clock
    EveryWriteTicks, \* TRUE: every write gets an mtime of its own; FALSE: the
                  \* clock is coarse, two writes may share a timestamp
    None          \* no file, no entry, no blob

ASSUME FilesFinite == IsFiniteSet(Files)
ASSUME ReadableAreContents == Readable \subseteq Contents
ASSUME SizesAreNaturals == SizeOf \in [Contents -> Nat]
ASSUME MaxTimeIsNatural == MaxTime \in Nat
ASSUME EveryWriteTicksIsBoolean == EveryWriteTicks \in BOOLEAN

VARIABLES
    disk,     \* disk[f]: content and mtime of f, or None
    clock,    \* the latest mtime given out
    blob,     \* parse.bin: a ParseCache, or None
    pc,       \* pc[p]: where p is in cached_index
    prev,     \* prev[p]: the entries p found in parse.bin
    todo,     \* todo[p]: walked files p has not dealt with
    cur,      \* cur[p]: the file p is about to read, or None
    curStat,  \* curStat[p]: the stat p took of it
    next,     \* next[p]: the entries of this run; its indexes are p's result
    dirty,    \* dirty[p]: did any file move
    seen      \* (history) seen[p][f]: what f has been since p walked the tree

vars == <<disk, clock, blob, pc, prev, todo, cur, curStat, next, dirty, seen>>
procVars == <<pc, prev, todo, cur, curStat, next, dirty>>

-----------------------------------------------------------------------------
(* Data *)

FileState == [content : Contents, mtime : Nat]
Stat == [size : Nat, mtime : Nat]
Schemas == {Schema[p] : p \in Procs}
FileIndex == [of : Contents, by : Schemas]
CachedFile == [stat : Stat, hash : Contents, index : FileIndex]
Entries == [Files -> CachedFile \cup {None}]
NoEntries == [f \in Files |-> None]
Blobs == [schema : Schemas, entries : Entries]

ASSUME NoneIsNothingElse ==
    None \notin Files \cup Contents \cup FileState \cup CachedFile \cup Blobs

\* A file that cannot be stat'ed counts as size 0, modified at time 0.
NoStat == [size |-> 0, mtime |-> 0]

\* Mutant: a stat that leaves out the mtime.
SizeOnly(f) ==
    [size |-> IF disk[f] = None THEN 0 ELSE SizeOf[disk[f].content], mtime |-> 0]

StatOf(f) ==
    IF disk[f] = None THEN NoStat
    ELSE [size |-> SizeOf[disk[f].content], mtime |-> disk[f].mtime]

\* What f is now.
Now(f) == IF disk[f] = None THEN None ELSE disk[f].content

\* extract_file: a pure function of the source, under one release's shape.
Parse(p, c) == [of |-> c, by |-> Schema[p]]

Present(entries) == {f \in Files : entries[f] # None}

\* The whole-tree fingerprint covers the release and every (path, hash).
Fingerprint(p) ==
    [schema |-> Schema[p],
     hashes |-> [f \in Files |-> IF next[p][f] = None THEN None
                                 ELSE next[p][f].hash]]

Result(p) ==
    [f \in Files |-> IF next[p][f] = None THEN None ELSE next[p][f].index]

TypeOK ==
    /\ disk \in [Files -> FileState \cup {None}]
    /\ clock \in Nat
    /\ blob \in Blobs \cup {None}
    /\ pc \in [Procs -> {"idle", "walk", "file", "read", "store", "done"}]
    /\ prev \in [Procs -> Entries]
    /\ todo \in [Procs -> SUBSET Files]
    /\ cur \in [Procs -> Files \cup {None}]
    /\ curStat \in [Procs -> Stat]
    /\ next \in [Procs -> Entries]
    /\ dirty \in [Procs -> BOOLEAN]
    /\ seen \in [Procs -> [Files -> SUBSET (Contents \cup {None})]]
    /\ \A p \in Procs : pc[p] = "read" => cur[p] # None

Init ==
    /\ disk = [f \in Files |-> None]
    /\ clock = 0
    /\ blob = None
    /\ pc = [p \in Procs |-> "idle"]
    /\ prev = [p \in Procs |-> NoEntries]
    /\ todo = [p \in Procs |-> {}]
    /\ cur = [p \in Procs |-> None]
    /\ curStat = [p \in Procs |-> NoStat]
    /\ next = [p \in Procs |-> NoEntries]
    /\ dirty = [p \in Procs |-> FALSE]
    /\ seen = [p \in Procs |-> [f \in Files |-> {}]]

Goto(p, label) == pc' = [pc EXCEPT ![p] = label]

-----------------------------------------------------------------------------
(* The environment: an editor, version control, index clean *)

\* (history) f becomes x under the eyes of every run that has walked the tree.
Witness(f, x) ==
    seen' = [p \in Procs |-> IF pc[p] \in {"idle", "walk"} THEN seen[p]
                             ELSE [seen[p] EXCEPT ![f] = @ \cup {x}]]

\* A write (or a touch, with the same content) stamps the file.
WriteFile(f, c) ==
    /\ \E m \in {clock, clock + 1} :
         /\ m \in 1 .. MaxTime
         /\ EveryWriteTicks => m = clock + 1
         /\ clock' = m
         /\ disk' = [disk EXCEPT ![f] = [content |-> c, mtime |-> m]]
    /\ Witness(f, c)
    /\ UNCHANGED <<blob, procVars>>

DeleteFile(f) ==
    /\ disk[f] # None
    /\ disk' = [disk EXCEPT ![f] = None]
    /\ Witness(f, None)
    /\ UNCHANGED <<clock, blob, procVars>>

Clean ==
    /\ blob' = None
    /\ UNCHANGED <<disk, clock, procVars, seen>>

-----------------------------------------------------------------------------
(* cached_index *)

\* Read parse.bin; a blob of another release, or none, is an empty cache.
Open(p) ==
    /\ pc[p] = "idle"
    /\ prev' = [prev EXCEPT ![p] = IF blob # None /\ blob.schema = Schema[p]
                                   THEN blob.entries ELSE NoEntries]
    /\ Goto(p, "walk")
    /\ UNCHANGED <<disk, clock, blob, todo, cur, curStat, next, dirty, seen>>

\* The tree is walked once, before any file is looked at.
Walk(p) ==
    /\ pc[p] = "walk"
    /\ todo' = [todo EXCEPT ![p] = {f \in Files : disk[f] # None}]
    /\ seen' = [seen EXCEPT ![p] = [f \in Files |-> {Now(f)}]]
    /\ Goto(p, "file")
    /\ UNCHANGED <<disk, clock, blob, prev, cur, curStat, next, dirty>>

\* Mutant: the size alone decides.
SizeHit(p, f, st) == prev[p][f] # None /\ prev[p][f].stat.size = st.size

\* Does the entry that parse.bin had for f carry this stat?
StatHit(p, f, st) == prev[p][f] # None /\ prev[p][f].stat = st

\* Same stat: trust the entry, neither read nor hash.
TrustStat(p, f) ==
    /\ pc[p] = "file"
    /\ f \in todo[p]
    /\ StatHit(p, f, StatOf(f))
    /\ next' = [next EXCEPT ![p][f] = prev[p][f]]
    /\ todo' = [todo EXCEPT ![p] = @ \ {f}]
    /\ UNCHANGED <<disk, clock, blob, pc, prev, cur, curStat, dirty, seen>>

\* The stat moved, or the file is new: its bytes must decide.
StatMoved(p, f) ==
    /\ pc[p] = "file"
    /\ f \in todo[p]
    /\ ~StatHit(p, f, StatOf(f))
    /\ cur' = [cur EXCEPT ![p] = f]
    /\ curStat' = [curStat EXCEPT ![p] = StatOf(f)]
    /\ Goto(p, "read")
    /\ UNCHANGED <<disk, clock, blob, prev, todo, next, dirty, seen>>

\* The file has gone since, or is not UTF-8: it is left out of the result.
SkipFile(p) ==
    /\ pc[p] = "read"
    /\ disk[cur[p]] # None => disk[cur[p]].content \notin Readable
    /\ todo' = [todo EXCEPT ![p] = @ \ {cur[p]}]
    /\ cur' = [cur EXCEPT ![p] = None]
    /\ curStat' = [curStat EXCEPT ![p] = NoStat]
    /\ Goto(p, "file")
    /\ UNCHANGED <<disk, clock, blob, prev, next, dirty, seen>>

\* Mutant: the old parse is kept without comparing the hash.
ReusedBlindly(p, f, c) ==
    [stat |-> curStat[p], hash |-> c,
     index |-> IF prev[p][f] # None THEN prev[p][f].index ELSE Parse(p, c)]

\* The entry a file that was read gets: the stat taken BEFORE the read, and
\* the old parse if the hash is still the entry's.
Reindexed(p, f, c) ==
    LET same == prev[p][f] # None /\ prev[p][f].hash = c
    IN  [stat |-> curStat[p], hash |-> c,
         index |-> IF same THEN prev[p][f].index ELSE Parse(p, c)]

ReadFile(p) ==
    LET f == cur[p]
        c == disk[f].content
    IN  /\ pc[p] = "read"
        /\ disk[f] # None
        /\ c \in Readable
        /\ next' = [next EXCEPT ![p][f] = Reindexed(p, f, c)]
        /\ dirty' = [dirty EXCEPT ![p] = TRUE]
        /\ todo' = [todo EXCEPT ![p] = @ \ {f}]
        /\ cur' = [cur EXCEPT ![p] = None]
        /\ curStat' = [curStat EXCEPT ![p] = NoStat]
        /\ Goto(p, "file")
        /\ UNCHANGED <<disk, clock, blob, prev, seen>>

\* Mutant: no check of the number of entries.
MovedByReads(p) == dirty[p]

\* A deletion shows only in the number of entries.
Moved(p) ==
    \/ dirty[p]
    \/ Cardinality(Present(next[p])) # Cardinality(Present(prev[p]))

Finish(p) ==
    /\ pc[p] = "file"
    /\ todo[p] = {}
    /\ dirty' = [dirty EXCEPT ![p] = Moved(p)]
    /\ Goto(p, IF Moved(p) THEN "store" ELSE "done")
    /\ UNCHANGED <<disk, clock, blob, prev, todo, cur, curStat, next, seen>>

Store(p) ==
    /\ pc[p] = "store"
    /\ blob' = [schema |-> Schema[p], entries |-> next[p]]
    /\ Goto(p, "done")
    /\ UNCHANGED <<disk, clock, prev, todo, cur, curStat, next, dirty, seen>>

\* An error of write_bin is ignored (no $HOME, read-only or full disk).
StoreFails(p) ==
    /\ pc[p] = "store"
    /\ Goto(p, "done")
    /\ UNCHANGED <<disk, clock, blob, prev, todo, cur, curStat, next, dirty, seen>>

Gone(p) ==
    /\ Goto(p, "idle")
    /\ prev' = [prev EXCEPT ![p] = NoEntries]
    /\ todo' = [todo EXCEPT ![p] = {}]
    /\ cur' = [cur EXCEPT ![p] = None]
    /\ curStat' = [curStat EXCEPT ![p] = NoStat]
    /\ next' = [next EXCEPT ![p] = NoEntries]
    /\ dirty' = [dirty EXCEPT ![p] = FALSE]
    /\ seen' = [seen EXCEPT ![p] = [f \in Files |-> {}]]
    /\ UNCHANGED <<disk, clock, blob>>

\* The run has answered; the process may run another (or end).
Return(p) == pc[p] = "done" /\ Gone(p)

Crash(p) == pc[p] \notin {"idle", "done"} /\ Gone(p)

-----------------------------------------------------------------------------

Index(p) ==
    \/ Open(p) \/ Walk(p)
    \/ \E f \in Files : TrustStat(p, f) \/ StatMoved(p, f)
    \/ SkipFile(p) \/ ReadFile(p)
    \/ Finish(p) \/ Store(p)

Edit == \E f \in Files : DeleteFile(f) \/ \E c \in Contents : WriteFile(f, c)

Next ==
    \/ Edit
    \/ Clean
    \/ \E p \in Procs : Index(p) \/ Return(p) \/ StoreFails(p) \/ Crash(p)

Spec == Init /\ [][Next]_vars

\* Every process keeps answering queries, and a run that has begun goes on.
FairSpec == Spec /\ \A p \in Procs : WF_vars(Index(p) \/ Return(p))

-----------------------------------------------------------------------------
(* Properties *)

\* The entries anybody could still trust: those of parse.bin and those a
\* running process read from it.
Trusted(f) ==
    (IF blob = None THEN {} ELSE {blob.entries[f]})
    \cup {prev[p][f] : p \in Procs}

\* A stat hit is never stale: an entry that carries the stat a file has now
\* carries the hash of what the file holds now, whoever wrote the entry and
\* whatever was edited between that run's stat and its read.  (The reason the
\* fast path of cached_index may skip the read.)
StatHitIsCurrent ==
    \A f \in Files : \A e \in Trusted(f) :
        disk[f] # None /\ e # None /\ e.stat = StatOf(f)
            => e.hash = disk[f].content

\* "Drop-in for walk::index_tree; identical results": a file that kept one
\* content from the walk to the end of the run is in the result exactly if it
\* exists and is readable, as the parse of that content by p's own release.
DropIn ==
    \A p \in Procs : pc[p] = "done" =>
        \A f \in Files, x \in Contents \cup {None} :
            seen[p][f] = {x} =>
                Result(p)[f] = IF x \in Readable THEN Parse(p, x) ELSE None

\* A file that was edited under a run is indexed as one of the contents it had
\* during that run, never as an older one, unless its stat failed: a failed stat is
\* size 0 at time 0, and an entry with that stat is trusted when a stat fails again.
NeverOlderThanRun ==
    \A p \in Procs, f \in Files :
        pc[p] = "done" /\ next[p][f] # None /\ next[p][f].stat.mtime # 0
            => /\ Result(p)[f].of \in seen[p][f]
               /\ Result(p)[f].by = Schema[p]

\* The key of the graph and ledger layers determines what they are built from: two
\* runs with one fingerprint have one result, though one may have started cold and the
\* other from entries that other runs left, some still good by their stat, some by
\* their hash, some outdated (cache.rs 108-186).
FingerprintDeterminesParse ==
    \A p, q \in Procs :
        /\ pc[p] \in {"store", "done"}
        /\ pc[q] \in {"store", "done"}
        /\ Fingerprint(p) = Fingerprint(q)
        => Result(p) = Result(q)

\* A run that decides not to write parse.bin has nothing new to write: its
\* entries are those it read, so a deleted, added, edited or touched file is
\* never lost on the next run.
CleanRunKeptEverything ==
    \A p \in Procs : pc[p] = "done" /\ ~dirty[p] => next[p] = prev[p]

\* parse.bin describes the tree as it is: a run would find every file by its
\* stat, read nothing it can index, and write nothing.
Warm ==
    \A f \in Files :
        LET e == IF blob = None THEN None ELSE blob.entries[f]
        IN  IF disk[f] # None /\ disk[f].content \in Readable
            THEN e # None /\ e.stat = StatOf(f)
            ELSE e = None

Disturbance ==
    Edit \/ Clean \/ \E p \in Procs : StoreFails(p) \/ Crash(p)

\* "The first run pays, every run after is dirt cheap": once the tree is left
\* alone, concurrent runs that overwrite each other's parse.bin (the last one to
\* rename wins, however old its walk) still settle on a warm cache.
Settles == <>[][~Disturbance]_vars => <>[]Warm

-----------------------------------------------------------------------------
(* The inductive invariant *)

Walked(p) == pc[p] \in {"file", "read", "store", "done"}

\* Each process is where its variables say it is.
Control(p) ==
    /\ pc[p] = "idle" => prev[p] = NoEntries
    /\ ~Walked(p) => next[p] = NoEntries /\ todo[p] = {} /\ ~dirty[p]
    /\ pc[p] = "read" => cur[p] \in todo[p]
    /\ pc[p] \in {"store", "done"} => todo[p] = {}
    /\ pc[p] = "store" => dirty[p]
    /\ \A f \in todo[p] : next[p][f] = None

\* Every entry was parsed from readable bytes that hash to its hash, by the
\* release of the blob or the process that holds it.
Sound(entries, schema) ==
    \A f \in Files : entries[f] # None =>
        /\ entries[f].hash \in Readable
        /\ entries[f].index = [of |-> entries[f].hash, by |-> schema]

AllSound ==
    /\ blob # None => Sound(blob.entries, blob.schema)
    /\ \A p \in Procs : Sound(prev[p], Schema[p]) /\ Sound(next[p], Schema[p])

\* Until something moved, a run has only copied entries.
CopiesUntilDirty(p) ==
    ~dirty[p] => \A f \in Files : next[p][f] # None => next[p][f] = prev[p][f]

\* What holds whatever the clock does.
Inv ==
    /\ TypeOK
    /\ AllSound
    /\ \A p \in Procs : Control(p) /\ CopiesUntilDirty(p)
    /\ CleanRunKeptEverything

\* No timestamp is in the future, and no file has the one that stands for a
\* failed stat.
Stamped(entries) ==
    \A f \in Files : entries[f] # None => entries[f].stat.mtime <= clock

StampsPast ==
    /\ \A f \in Files : disk[f] # None => disk[f].mtime \in 1 .. clock
    /\ blob # None => Stamped(blob.entries)
    /\ \A p \in Procs : /\ Stamped(prev[p]) /\ Stamped(next[p])
                         /\ curStat[p].mtime <= clock

\* An entry with the stat a file has now has its content.
Current(entries) ==
    \A f \in Files :
        disk[f] # None /\ entries[f] # None /\ entries[f].stat = StatOf(f)
            => entries[f].hash = disk[f].content

AllCurrent ==
    /\ blob # None => Current(blob.entries)
    /\ \A p \in Procs : Current(prev[p]) /\ Current(next[p])

\* What a file is now, and the content it had at the walk, are among what the
\* run has seen it to be.
Witnessed(p) ==
    Walked(p) => \A f \in Files :
        /\ Now(f) \in seen[p][f]
        /\ f \in todo[p] => \E c \in Contents : c \in seen[p][f]

\* The two claims about results, for every file the run is done with.
SeenSoFar(p) ==
    \A f \in Files : next[p][f] # None /\ next[p][f].stat.mtime # 0
        => next[p][f].hash \in seen[p][f]

DropInSoFar(p) ==
    Walked(p) => \A f \in Files \ todo[p], x \in Contents \cup {None} :
        seen[p][f] = {x} =>
            /\ x \in Readable => next[p][f] # None /\ next[p][f].hash = x
            /\ x \notin Readable => next[p][f] = None

\* What holds when every write has a timestamp of its own.
IInv ==
    /\ Inv
    /\ StampsPast
    /\ AllCurrent
    /\ \A p \in Procs : Witnessed(p) /\ SeenSoFar(p) /\ DropInSoFar(p)

=============================================================================
