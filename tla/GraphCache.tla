----------------------------- MODULE GraphCache -----------------------------
(***************************************************************************)
(* The graph layer of the analysis cache: call_graph_with_progress,        *)
(* file_hashes and changed_files of pyq-cli/src/cache.rs, run by several   *)
(* pyq processes over a tree that is edited meanwhile.                     *)
(*                                                                         *)
(* A run holds the index and the fingerprint it got from the parse layer   *)
(* (ParseCache).  If graph.bin has that fingerprint its recording is       *)
(* replayed.  Otherwise ty is constructed, which reads the project's       *)
(* configuration, and the files whose parse differs are recorded anew: ty  *)
(* reads each from the disk as it is THEN.  The result is stored under the *)
(* fingerprint the run began with.                                         *)
(*                                                                         *)
(* What is recorded about a file is reduced to what it was recorded from.  *)
(* How far a change spreads to other files is GraphRecording's question.   *)
(***************************************************************************)
EXTENDS Naturals, FiniteSets

CONSTANTS
    Files,
    MaxVersion,       \* bound: the contents a file may have are 1 .. MaxVersion
    IndexOf,          \* IndexOf[c]: the FileIndex of content c
    Configs,          \* what ty reads besides the walked files: pyproject.toml's
                      \* pythonpath, ty's own settings, installed packages
    Procs,
    Schema,           \* Schema[p]: GRAPH_SCHEMA of the release p runs
    Habits,           \* how the tree may be edited, a subset of
                      \*   "quiet": anyhow, but never during a run
                      \*   "forward": any time, but never back to an earlier content
                      \*   "any": any time, anyhow
    ConfigChanges,    \* may the configuration change
    None

Contents == 1 .. MaxVersion

ASSUME FilesFinite == IsFiniteSet(Files)
ASSUME MaxVersionIsNatural == MaxVersion \in Nat
ASSUME IndexIsAFunction == DOMAIN IndexOf = Contents
ASSUME HabitsType == Habits \subseteq {"quiet", "forward", "any"}
ASSUME ConfigChangesIsBoolean == ConfigChanges \in BOOLEAN

VARIABLES
    habit,    \* how the tree is edited in this behaviour
    disk,     \* disk[F]: content of F, or None
    latest,   \* latest[F]: (history) the newest content F ever had
    config,   \* what is configured now
    blob,     \* graph.bin: a GraphCache, or None
    pc,       \* pc[p]: where p is in call_graph_with_progress
    cached,   \* cached[p]: is p run without PYQ_NO_CACHE
    files,    \* files[p]: the contents p indexed, which its fingerprint hashes
    tyConfig, \* tyConfig[p]: the configuration p's ty was constructed with
    todo,     \* todo[p]: the files p has yet to record
    rec,      \* rec[p]: p's recording
    seen,     \* seen[p][F]: (history) what F has been since p indexed the tree
    seenConfig \* seenConfig[p]: (history) the configurations since then

vars == <<habit, disk, latest, config, blob, pc, cached, files, tyConfig, todo, rec, seen, seenConfig>>
tree == <<habit, disk, latest, config>>

-----------------------------------------------------------------------------
(* Data *)

Maybe(S) == S \cup {None}
Fact == [from : Contents, under : Configs, by : {Schema[p] : p \in Procs}]
Recording == [Files -> Maybe(Fact)]
Snapshot == [Files -> Maybe(Contents)]
Blobs == [schema : {Schema[p] : p \in Procs}, files : Snapshot, rec : Recording]

ASSUME NoneIsNoValue ==
    None \notin Contents /\ None \notin Configs /\ None \notin Fact /\ None \notin Blobs

NoFiles == [F \in Files |-> None]
FilesOf(s) == {F \in Files : s[F] # None}

\* The FileIndex, if any, that the snapshot has for F.
IndexIn(s, F) == IF s[F] = None THEN None ELSE IndexOf[s[F]]

\* Mutant: files that appeared are not in the diff.
ChangedKnown(old, new) ==
    {F \in Files : old[F] # None /\ IndexIn(old, F) # IndexIn(new, F)}

\* Files whose serialized FileIndex differs between two snapshots.
ChangedFiles(old, new) == {F \in Files : IndexIn(old, F) # IndexIn(new, F)}

TypeOK ==
    /\ habit \in Habits
    /\ disk \in Snapshot
    /\ latest \in [Files -> 0 .. MaxVersion]
    /\ config \in Configs
    /\ blob \in Maybe(Blobs)
    /\ pc \in [Procs -> {"idle", "open", "build", "record", "store", "done"}]
    /\ cached \in [Procs -> BOOLEAN]
    /\ files \in [Procs -> Snapshot]
    /\ tyConfig \in [Procs -> Maybe(Configs)]
    /\ todo \in [Procs -> SUBSET Files]
    /\ rec \in [Procs -> Recording]
    /\ seen \in [Procs -> [Files -> SUBSET Maybe(Contents)]]
    /\ seenConfig \in [Procs -> SUBSET Configs]
    /\ \A p \in Procs : pc[p] = "record" => tyConfig[p] # None

Init ==
    /\ habit \in Habits
    /\ disk = NoFiles
    /\ latest = [F \in Files |-> 0]
    /\ config \in Configs
    /\ blob = None
    /\ pc = [p \in Procs |-> "idle"]
    /\ cached = [p \in Procs |-> TRUE]
    /\ files = [p \in Procs |-> NoFiles]
    /\ tyConfig = [p \in Procs |-> None]
    /\ todo = [p \in Procs |-> {}]
    /\ rec = [p \in Procs |-> NoFiles]
    /\ seen = [p \in Procs |-> [F \in Files |-> {}]]
    /\ seenConfig = [p \in Procs |-> {}]

Goto(p, label) == pc' = [pc EXCEPT ![p] = label]

-----------------------------------------------------------------------------
(* The environment *)

\* May the tree change now?
Open == habit = "quiet" => \A p \in Procs : pc[p] \in {"idle", "done"}

\* (history) F becomes x under the eyes of every run that has indexed it.
Witness(F, x) ==
    seen' = [p \in Procs |-> IF pc[p] = "idle" THEN seen[p]
                             ELSE [seen[p] EXCEPT ![F] = @ \cup {x}]]

EditFile(F) ==
    /\ Open
    /\ \E c \in Contents :
         /\ habit = "forward" => c > latest[F]
         /\ disk' = [disk EXCEPT ![F] = c]
         /\ latest' = [latest EXCEPT ![F] = IF c > @ THEN c ELSE @]
         /\ Witness(F, c)
    /\ UNCHANGED <<habit, config, blob, pc, cached, files, tyConfig, todo, rec, seenConfig>>

DeleteFile(F) ==
    /\ Open
    /\ disk[F] # None
    /\ disk' = [disk EXCEPT ![F] = None]
    /\ Witness(F, None)
    /\ UNCHANGED <<habit, latest, config, blob, pc, cached, files, tyConfig, todo, rec, seenConfig>>

Configure ==
    /\ Open
    /\ ConfigChanges
    /\ config' \in Configs
    /\ seenConfig' = [p \in Procs |-> IF pc[p] = "idle" THEN seenConfig[p]
                                      ELSE seenConfig[p] \cup {config'}]
    /\ UNCHANGED <<habit, disk, latest, blob, pc, cached, files, tyConfig, todo, rec, seen>>

Clean ==
    /\ blob' = None
    /\ UNCHANGED <<tree, pc, cached, files, tyConfig, todo, rec, seen, seenConfig>>

-----------------------------------------------------------------------------
(* call_graph_with_progress *)

\* The caller's cache::indexed; without the cache ty is constructed at once.
Index(p) ==
    /\ pc[p] = "idle"
    /\ files' = [files EXCEPT ![p] = disk]
    /\ seen' = [seen EXCEPT ![p] = [F \in Files |-> {disk[F]}]]
    /\ seenConfig' = [seenConfig EXCEPT ![p] = {config}]
    /\ \/ /\ cached' = [cached EXCEPT ![p] = TRUE]
          /\ Goto(p, "open")
          /\ UNCHANGED todo
       \/ /\ cached' = [cached EXCEPT ![p] = FALSE]
          /\ todo' = [todo EXCEPT ![p] = FilesOf(disk)]
          /\ Goto(p, "build")
    /\ UNCHANGED <<tree, blob, tyConfig, rec>>

\* Mutant: a blob of another release is not discarded.
AnyBlob(p) == blob

\* read_bin(graph.bin), filtered by the schema.
Readable(p) == IF blob # None /\ blob.schema = Schema[p] THEN blob ELSE None

\* The fingerprint matches: replay.
Hit(p) ==
    /\ pc[p] = "open"
    /\ Readable(p) # None
    /\ Readable(p).files = files[p]
    /\ rec' = [rec EXCEPT ![p] = Readable(p).rec]
    /\ Goto(p, "done")
    /\ UNCHANGED <<tree, blob, cached, files, tyConfig, todo, seen, seenConfig>>

\* It does not: carry over what did not change, record the rest.
Repair(p) ==
    /\ pc[p] = "open"
    /\ Readable(p) # None
    /\ Readable(p).files # files[p]
    /\ LET changed == ChangedFiles(Readable(p).files, files[p])
       IN  /\ rec' = [rec EXCEPT ![p] = [F \in Files |->
                         IF F \in changed THEN None ELSE Readable(p).rec[F]]]
           /\ todo' = [todo EXCEPT ![p] = changed \cap FilesOf(files[p])]
    /\ Goto(p, "build")
    /\ UNCHANGED <<tree, blob, cached, files, tyConfig, seen, seenConfig>>

Cold(p) ==
    /\ pc[p] = "open"
    /\ Readable(p) = None
    /\ todo' = [todo EXCEPT ![p] = FilesOf(files[p])]
    /\ Goto(p, "build")
    /\ UNCHANGED <<tree, blob, cached, files, tyConfig, rec, seen, seenConfig>>

\* Mutant: ty is not constructed when a recording is repaired.
BuildLazily(p) ==
    /\ pc[p] = "build"
    /\ tyConfig' = [tyConfig EXCEPT ![p] = IF rec[p] = NoFiles THEN config ELSE None]
    /\ Goto(p, "record")
    /\ UNCHANGED <<tree, blob, cached, files, todo, rec, seen, seenConfig>>

\* CallGraph::new
Build(p) ==
    /\ pc[p] = "build"
    /\ tyConfig' = [tyConfig EXCEPT ![p] = config]
    /\ Goto(p, "record")
    /\ UNCHANGED <<tree, blob, cached, files, todo, rec, seen, seenConfig>>

\* ty reads F, whatever it is by now.
RecordFile(p, F) ==
    /\ pc[p] = "record"
    /\ F \in todo[p]
    /\ rec' = [rec EXCEPT ![p][F] =
                  IF disk[F] = None THEN None
                  ELSE [from |-> disk[F], under |-> tyConfig[p], by |-> Schema[p]]]
    /\ todo' = [todo EXCEPT ![p] = @ \ {F}]
    /\ UNCHANGED <<tree, blob, pc, cached, files, tyConfig, seen, seenConfig>>

Recorded(p) ==
    /\ pc[p] = "record"
    /\ todo[p] = {}
    /\ Goto(p, IF cached[p] THEN "store" ELSE "done")
    /\ UNCHANGED <<tree, blob, cached, files, tyConfig, todo, rec, seen, seenConfig>>

\* Mutant: the blob is keyed by the tree as it is when it is written.
StoreUnderNow(p) ==
    /\ pc[p] = "store"
    /\ blob' = [schema |-> Schema[p], files |-> disk, rec |-> rec[p]]
    /\ Goto(p, "done")
    /\ UNCHANGED <<tree, cached, files, tyConfig, todo, rec, seen, seenConfig>>

Store(p) ==
    /\ pc[p] = "store"
    /\ blob' = [schema |-> Schema[p], files |-> files[p], rec |-> rec[p]]
    /\ Goto(p, "done")
    /\ UNCHANGED <<tree, cached, files, tyConfig, todo, rec, seen, seenConfig>>

StoreFails(p) ==
    /\ pc[p] = "store"
    /\ Goto(p, "done")
    /\ UNCHANGED <<tree, blob, cached, files, tyConfig, todo, rec, seen, seenConfig>>

\* The run has answered, or died.
Gone(p) ==
    /\ pc[p] # "idle"
    /\ Goto(p, "idle")
    /\ cached' = [cached EXCEPT ![p] = TRUE]
    /\ files' = [files EXCEPT ![p] = NoFiles]
    /\ tyConfig' = [tyConfig EXCEPT ![p] = None]
    /\ todo' = [todo EXCEPT ![p] = {}]
    /\ rec' = [rec EXCEPT ![p] = NoFiles]
    /\ seen' = [seen EXCEPT ![p] = [F \in Files |-> {}]]
    /\ seenConfig' = [seenConfig EXCEPT ![p] = {}]
    /\ UNCHANGED <<tree, blob>>

-----------------------------------------------------------------------------

Run(p) ==
    \/ Index(p) \/ Hit(p) \/ Repair(p) \/ Cold(p)
    \/ Build(p) \/ \E F \in Files : RecordFile(p, F)
    \/ Recorded(p) \/ Store(p) \/ StoreFails(p) \/ Gone(p)

Next ==
    \/ \E F \in Files : EditFile(F) \/ DeleteFile(F)
    \/ Configure \/ Clean
    \/ \E p \in Procs : Run(p)

Spec == Init /\ [][Next]_vars

-----------------------------------------------------------------------------
(* Properties *)

\* "A PYQ_NO_CACHE run gives the identical answer to a warm one": about a file
\* that was left alone during the run, a run answers what p's own release of ty
\* answers about its content under the present configuration, whether it
\* replayed, repaired, recorded or bypassed the cache.
AnswerIsLive ==
    \A p \in Procs : pc[p] = "done" =>
        \A F \in Files, c \in Maybe(Contents), g \in Configs :
            seen[p][F] = {c} /\ seenConfig[p] = {g} =>
                rec[p][F] = IF c = None THEN None
                            ELSE [from |-> c, under |-> g, by |-> Schema[p]]

\* The same, but for the configuration: it is answered about the present source.
AnswerIsOfTheSource ==
    \A p \in Procs : pc[p] = "done" =>
        \A F \in Files, c \in Contents :
            seen[p][F] = {c} =>
                /\ rec[p][F] # None
                /\ rec[p][F].from = c
                /\ rec[p][F].by = Schema[p]

\* What is stored about a file is never older than the content it is stored
\* under: the error of a run that overlaps an edit is always towards the newer.
NeverOlderThanKey ==
    blob # None => \A F \in Files :
        blob.rec[F] # None /\ IndexIn(blob.files, F) # None =>
            blob.rec[F].from >= blob.files[F]

=============================================================================
