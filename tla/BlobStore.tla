------------------------------ MODULE BlobStore ------------------------------
(***************************************************************************)
(* How pyq-cli/src/cache.rs keeps one cache file on disk: read_bin,        *)
(* write_bin and clean, system call by system call, run by several pyq     *)
(* processes that share ~/.pyq/cache/<root-hash>/ and may die anywhere.    *)
(*                                                                         *)
(* The file system is names that link to inodes.  A writer creates or      *)
(* truncates its own temporary file, fills it, and renames it over the     *)
(* blob; a reader opens the blob and then reads the inode it opened,       *)
(* whatever has happened to the name since; clean unlinks what it finds    *)
(* and removes the directory.  An inode nobody links or holds open is      *)
(* free to be allocated again.                                             *)
(***************************************************************************)
EXTENDS Naturals, FiniteSets

CONSTANTS
    Procs,      \* pyq processes (a pid may be reused after its process died)
    Values,     \* whole values a layer stores
    Inodes,     \* bound: inodes of the file system
    None,       \* no value / no inode
    Torn,       \* bytes that are not a whole value: an unfinished write
    Lost        \* bytes that a loss of power ruined (nothing is ever fsynced)

ASSUME SentinelsAreNoValues ==
    /\ None \notin Values \cup Inodes
    /\ {Torn, Lost} \cap (Values \cup {None}) = {}
    /\ Torn # Lost

VARIABLES
    dirExists,  \* does the cache directory exist
    blob,       \* the inode the blob's name links to, or None
    tmp,        \* tmp[n]: the inode the temporary name n links to, or None
    data,       \* data[i]: the bytes of inode i
    pc,         \* pc[p]: where p is in its current operation
    fd,         \* fd[p]: the inode p has open, or None
    arg,        \* arg[p]: the value p is writing
    got,        \* got[p]: what p's last read_bin returned
    todo        \* todo[p]: names p's remove_dir_all has listed, not yet removed

vars == <<dirExists, blob, tmp, data, pc, fd, arg, got, todo>>

\* Mutant: one temporary name for every writer.
SharedTmp(p) == CHOOSE q \in Procs : TRUE

\* "{name}.{pid}.tmp": a temporary name is its writer's pid.
TmpOf(p) == p

Blob == "blob"
Names == {Blob} \cup Procs
LinkOf(n) == IF n = Blob THEN blob ELSE tmp[n]
Linked == {n \in Names : LinkOf(n) # None}

\* Inodes that a creat may allocate.
Free == {i \in Inodes : /\ blob # i
                        /\ \A n \in Procs : tmp[n] # i
                        /\ \A p \in Procs : fd[p] # i}

TypeOK ==
    /\ dirExists \in BOOLEAN
    /\ blob \in Inodes \cup {None}
    /\ tmp \in [Procs -> Inodes \cup {None}]
    /\ data \in [Inodes -> Values \cup {Torn, Lost}]
    /\ pc \in [Procs -> {"idle", "reading", "mkdir", "create", "writing",
                         "rename", "scan", "unlink"}]
    /\ fd \in [Procs -> Inodes \cup {None}]
    /\ arg \in [Procs -> Values \cup {None}]
    /\ got \in [Procs -> Values \cup {None}]
    /\ todo \in [Procs -> SUBSET Names]
    /\ \A p \in Procs : fd[p] # None <=> pc[p] \in {"reading", "writing"}
    /\ \A p \in Procs :
          pc[p] \in {"mkdir", "create", "writing", "rename"} => arg[p] # None

Init ==
    /\ dirExists = FALSE
    /\ blob = None
    /\ tmp = [p \in Procs |-> None]
    /\ data = [i \in Inodes |-> Torn]
    /\ pc = [p \in Procs |-> "idle"]
    /\ fd = [p \in Procs |-> None]
    /\ arg = [p \in Procs |-> None]
    /\ got = [p \in Procs |-> None]
    /\ todo = [p \in Procs |-> {}]

Goto(p, label) == pc' = [pc EXCEPT ![p] = label]

-----------------------------------------------------------------------------
(* read_bin *)

\* fs::read opens the name; a missing file is None.
OpenBlob(p) ==
    /\ pc[p] = "idle"
    /\ IF blob = None
       THEN /\ got' = [got EXCEPT ![p] = None]
            /\ UNCHANGED <<pc, fd>>
       ELSE /\ fd' = [fd EXCEPT ![p] = blob]
            /\ Goto(p, "reading")
            /\ UNCHANGED got
    /\ UNCHANGED <<dirExists, blob, tmp, data, arg, todo>>

\* Bytes that do not deserialize read as None.
Decode(bytes) == IF bytes \in Values THEN bytes ELSE None

ReadBlob(p) ==
    /\ pc[p] = "reading"
    /\ got' = [got EXCEPT ![p] = Decode(data[fd[p]])]
    /\ fd' = [fd EXCEPT ![p] = None]
    /\ Goto(p, "idle")
    /\ UNCHANGED <<dirExists, blob, tmp, data, arg, todo>>

-----------------------------------------------------------------------------
(* write_bin *)

BeginWrite(p, v) ==
    /\ pc[p] = "idle"
    /\ arg' = [arg EXCEPT ![p] = v]
    /\ Goto(p, "mkdir")
    /\ UNCHANGED <<dirExists, blob, tmp, data, fd, got, todo>>

MakeDir(p) ==
    /\ pc[p] = "mkdir"
    /\ dirExists' = TRUE
    /\ Goto(p, "create")
    /\ UNCHANGED <<blob, tmp, data, fd, arg, got, todo>>

\* Mutant: no temporary file, the blob itself is truncated and filled.
CreateInPlace(p) ==
    /\ pc[p] = "create"
    /\ dirExists
    /\ \E i \in Inodes :
         /\ IF blob # None THEN i = blob ELSE i \in Free
         /\ blob' = i
         /\ data' = [data EXCEPT ![i] = Torn]
         /\ fd' = [fd EXCEPT ![p] = i]
    /\ Goto(p, "writing")
    /\ UNCHANGED <<dirExists, tmp, arg, got, todo>>

\* fs::write, first half: open the temporary name with O_CREAT|O_TRUNC.  A
\* name left by a dead process is truncated, else a free inode is linked.
CreateTmp(p) ==
    /\ pc[p] = "create"
    /\ dirExists
    /\ \E i \in Inodes :
         /\ IF tmp[TmpOf(p)] # None THEN i = tmp[TmpOf(p)] ELSE i \in Free
         /\ tmp' = [tmp EXCEPT ![TmpOf(p)] = i]
         /\ data' = [data EXCEPT ![i] = Torn]
         /\ fd' = [fd EXCEPT ![p] = i]
    /\ Goto(p, "writing")
    /\ UNCHANGED <<dirExists, blob, arg, got, todo>>

\* fs::write, second half: the bytes are all in the inode, then it is closed.
FillTmp(p) ==
    /\ pc[p] = "writing"
    /\ data' = [data EXCEPT ![fd[p]] = arg[p]]
    /\ fd' = [fd EXCEPT ![p] = None]
    /\ Goto(p, "rename")
    /\ UNCHANGED <<dirExists, blob, tmp, arg, got, todo>>

RenameTmp(p) ==
    /\ pc[p] = "rename"
    /\ tmp[TmpOf(p)] # None
    /\ blob' = tmp[TmpOf(p)]
    /\ tmp' = [tmp EXCEPT ![TmpOf(p)] = None]
    /\ arg' = [arg EXCEPT ![p] = None]
    /\ Goto(p, "idle")
    /\ UNCHANGED <<dirExists, data, fd, got, todo>>

\* An error of any call of write_bin, which every caller ignores: the directory
\* cannot be made, the temporary file not created, filled or renamed (it may have
\* been cleaned away, or the disk be full).  What is on the disk by then stays.
WriteFails(p) ==
    /\ pc[p] \in {"mkdir", "create", "writing", "rename"}
    /\ fd' = [fd EXCEPT ![p] = None]
    /\ arg' = [arg EXCEPT ![p] = None]
    /\ Goto(p, "idle")
    /\ UNCHANGED <<dirExists, blob, tmp, data, got, todo>>

-----------------------------------------------------------------------------
(* clean: dir.exists(), then remove_dir_all *)

BeginClean(p) ==
    /\ pc[p] = "idle"
    /\ dirExists
    /\ Goto(p, "scan")
    /\ UNCHANGED <<dirExists, blob, tmp, data, fd, arg, got, todo>>

ScanDir(p) ==
    /\ pc[p] = "scan"
    /\ todo' = [todo EXCEPT ![p] = Linked]
    /\ Goto(p, "unlink")
    /\ UNCHANGED <<dirExists, blob, tmp, data, fd, arg, got>>

\* A listed name, or one created since that the listing still delivers (also
\* in a directory that was removed and made again, where the real call would
\* find nothing: one more loss than can happen, never one fewer).
Unlink(p, n) ==
    /\ pc[p] = "unlink"
    /\ n \in todo[p] \cup Linked
    /\ blob' = IF n = Blob THEN None ELSE blob
    /\ tmp' = IF n = Blob THEN tmp ELSE [tmp EXCEPT ![n] = None]
    /\ todo' = [todo EXCEPT ![p] = @ \ {n}]
    /\ UNCHANGED <<dirExists, data, pc, fd, arg, got>>

\* rmdir succeeds on an empty directory; a file created meanwhile, or a
\* listed name that is gone, ends the clean with an error.
EndClean(p) ==
    /\ pc[p] = "unlink"
    /\ \/ /\ todo[p] = {}
          /\ dirExists' = (Linked # {})
       \/ /\ todo[p] \ Linked # {}
          /\ UNCHANGED dirExists
    /\ todo' = [todo EXCEPT ![p] = {}]
    /\ Goto(p, "idle")
    /\ UNCHANGED <<blob, tmp, data, fd, arg, got>>

-----------------------------------------------------------------------------
(* Failures *)

Crash(p) ==
    /\ pc[p] # "idle"
    /\ Goto(p, "idle")
    /\ fd' = [fd EXCEPT ![p] = None]
    /\ arg' = [arg EXCEPT ![p] = None]
    /\ got' = [got EXCEPT ![p] = None]
    /\ todo' = [todo EXCEPT ![p] = {}]
    /\ UNCHANGED <<dirExists, blob, tmp, data>>

\* Names are journalled, bytes are not: any inode may come back ruined.
LosePower ==
    /\ pc' = [p \in Procs |-> "idle"]
    /\ fd' = [p \in Procs |-> None]
    /\ arg' = [p \in Procs |-> None]
    /\ got' = [p \in Procs |-> None]
    /\ todo' = [p \in Procs |-> {}]
    /\ \E lost \in SUBSET Inodes :
          data' = [i \in Inodes |-> IF i \in lost THEN Lost ELSE data[i]]
    /\ UNCHANGED <<dirExists, blob, tmp>>

-----------------------------------------------------------------------------

Step(p) ==
    \/ OpenBlob(p) \/ ReadBlob(p)
    \/ \E v \in Values : BeginWrite(p, v)
    \/ MakeDir(p) \/ CreateTmp(p) \/ FillTmp(p) \/ RenameTmp(p) \/ WriteFails(p)
    \/ BeginClean(p) \/ ScanDir(p) \/ EndClean(p)
    \/ \E n \in Names : Unlink(p, n)
    \/ Crash(p)

Next == LosePower \/ \E p \in Procs : Step(p)

Spec == Init /\ [][Next]_vars

-----------------------------------------------------------------------------
(* Properties *)

\* The inode a reader has open, or the blob's name links to, is never one that
\* is being written: no reader deserializes a file that somebody is still writing, and a
\* writer that dies half-way leaves the previous blob (comment of write_bin:
\* "a concurrent reader never sees a torn file").
NeverTorn ==
    /\ blob # None => data[blob] # Torn
    /\ \A p \in Procs : pc[p] = "reading" => data[fd[p]] # Torn

\* A rename publishes exactly what its own process serialized: the temporary
\* file it moves holds that process's value, not a concurrent writer's
\* (write_bin's "pid-unique temp").
PublishesOwnValue ==
    \A p \in Procs :
        pc[p] = "rename" /\ tmp[TmpOf(p)] # None => data[tmp[TmpOf(p)]] = arg[p]

\* The register a layer may think of.  A read takes effect when the blob is
\* opened: from then on the reader's value is settled.
Register ==
    INSTANCE AtomicBlob
    WITH reg <- IF blob = None THEN None ELSE Decode(data[blob]),
         seen <- [p \in Procs |-> IF pc[p] = "reading"
                                  THEN Decode(data[fd[p]]) ELSE got[p]]

\* The file implements the register, with concurrent writers, readers and
\* cleans, deaths and losses of power.
RefinesRegister == Register!Spec

-----------------------------------------------------------------------------
(* The inductive invariant *)

\* No two names link to one inode.
OneLink ==
    /\ \A n \in Procs : tmp[n] # None => tmp[n] # blob
    /\ \A n, m \in Procs : n # m /\ tmp[n] # None => tmp[n] # tmp[m]

\* The inode a writer fills is open to nobody else, and no name but the writer's
\* own links to it (not even that one, if it was cleaned away).
OwnInode(p) ==
    pc[p] = "writing" =>
        /\ fd[p] # blob
        /\ tmp[p] \in {fd[p], None}
        /\ \A q \in Procs \ {p} : tmp[q] # fd[p] /\ fd[q] # fd[p]

\* Nobody will write to the inode a reader has open.
NoLongerTemporary(p) == pc[p] = "reading" => \A n \in Procs : tmp[n] # fd[p]

IInv ==
    /\ TypeOK
    /\ OneLink
    /\ \A p \in Procs : OwnInode(p) /\ NoLongerTemporary(p)
    /\ NeverTorn
    /\ PublishesOwnValue

=============================================================================
