--------------------------- MODULE GraphCacheProofs -------------------------
(***************************************************************************)
(* Theorems about GraphCache, for any number of files, contents, processes *)
(* and releases, when the tree is edited as Steady says.                   *)
(***************************************************************************)
EXTENDS GraphCache, TLAPS

\* The tree is edited between runs, or never back to an earlier content; and the
\* index of a file tells its contents apart.
Steady ==
    /\ Habits \subseteq {"quiet", "forward"}
    /\ \A c, d \in Contents : IndexOf[c] = IndexOf[d] => c = d
    /\ \A c \in Contents : IndexOf[c] # None

-----------------------------------------------------------------------------
(* The inductive invariant *)

\* What release s of ty may have said of content c, of which one answer is left when the
\* configuration never changes.
Exact(c, s) ==
    IF c = None THEN {None}
    ELSE {r \in Fact : r.from = c /\ r.by = s /\ (ConfigChanges \/ r.under = config)}

\* F was c, and will never be again.
Past(F, c) == habit = "forward" /\ c # None /\ c <= latest[F] /\ disk[F] # c

\* What is recorded of F, under the key c, by release s: what ty says of c, or a newer
\* content's, or nothing, and then nobody will ask for the key c any more.
Right(F, c, r, s) ==
    \/ r \in Exact(c, s)
    \/ Past(F, c) /\ (r # None => r.from >= c)

\* What the tree is, and what it was.
Tree ==
    \A F \in Files :
        habit = "forward" /\ disk[F] # None => disk[F] = latest[F]

\* Run p knows what the tree was when it began, and saw what it became.
Sees(p) ==
    /\ ~ConfigChanges => seenConfig[p] = {config}
    /\ \A F \in Files :
          /\ disk[F] \in seen[p][F] /\ files[p][F] \in seen[p][F]
          /\ habit = "forward" /\ files[p][F] # None => files[p][F] <= latest[F]
          /\ habit = "quiet" /\ pc[p] # "done" => seen[p][F] = {disk[F]}

\* What run p recorded is right, but for the files that it has yet to record.
Records(p) ==
    /\ pc[p] \in {"idle", "open"} => rec[p] = NoFiles
    /\ pc[p] = "record" => ConfigChanges \/ tyConfig[p] = config
    /\ pc[p] = "store" => todo[p] = {}
    /\ pc[p] \in {"build", "record", "store"} =>
          \A F \in Files : IF F \in todo[p] THEN files[p][F] # None
                           ELSE Right(F, files[p][F], rec[p][F], Schema[p])
    /\ pc[p] = "done" =>
          \A F \in Files, c \in Maybe(Contents) :
              seen[p][F] = {c} => rec[p][F] \in Exact(c, Schema[p])

Stored ==
    blob # None => \A F \in Files : Right(F, blob.files[F], blob.rec[F], blob.schema)

IInv ==
    /\ TypeOK
    /\ Tree
    /\ Stored
    /\ \A p \in Procs : Records(p) /\ (pc[p] # "idle" => Sees(p))

-----------------------------------------------------------------------------

\* The conjuncts of the invariant, for citing them one by one.
LEMMA Parts ==
    IInv => /\ TypeOK /\ Tree /\ Stored
            /\ \A p \in Procs : Records(p) /\ (pc[p] # "idle" => Sees(p))
BY DEF IInv

LEMMA Types ==
    ASSUME TypeOK
    PROVE  /\ disk \in Snapshot /\ config \in Configs
           /\ \A F \in Files : disk[F] \in Maybe(Contents) /\ latest[F] \in Nat
           /\ \A p \in Procs, F \in Files : /\ files[p][F] \in Maybe(Contents)
                                            /\ rec[p][F] \in Maybe(Fact)
           /\ blob # None => /\ blob \in Blobs
                             /\ \A F \in Files : /\ blob.files[F] \in Maybe(Contents)
                                                 /\ blob.rec[F] \in Maybe(Fact)
<1>1. latest \in [Files -> 0 .. MaxVersion] /\ \A n \in 0 .. MaxVersion : n \in Nat
    BY MaxVersionIsNatural DEF TypeOK
<1>2. blob # None => blob \in Blobs
    BY DEF TypeOK, Maybe
<1>3. \A b \in Blobs : b.files \in Snapshot /\ b.rec \in Recording
    BY DEF Blobs
<1> QED
    BY <1>1, <1>2, <1>3 DEF TypeOK, Snapshot, Recording

LEMMA Values ==
    /\ None \notin Contents /\ None \notin Fact /\ None \notin Blobs /\ None \notin Configs
    /\ \A c \in Contents : c \in Nat
    /\ NoFiles \in Snapshot /\ NoFiles \in Recording
    /\ \A F \in Files : NoFiles[F] = None
<1>1. \A c \in Contents : c \in Nat
    BY MaxVersionIsNatural DEF Contents
<1> QED
    BY <1>1, NoneIsNoValue DEF NoFiles, Snapshot, Recording, Maybe

\* What is right depends on the tree and on the configuration.
LEMMA SameTree ==
    ASSUME UNCHANGED tree
    PROVE  /\ \A c, s : Exact(c, s)' = Exact(c, s)
           /\ \A F, c, r, s : Right(F, c, r, s)' = Right(F, c, r, s)
<1>1. \A c, s : Exact(c, s)' = Exact(c, s)
    BY DEF Exact, tree
<1> QED
    BY <1>1 DEF Right, Past, tree

LEMMA InitInv == Init => IInv
<1> SUFFICES ASSUME Init PROVE IInv
    OBVIOUS
<1> USE Values
<1>1. TypeOK
  <2>1. 0 \in 0 .. MaxVersion
      BY MaxVersionIsNatural
  <2> QED
      BY <2>1 DEF Init, TypeOK, Maybe
<1>2. Tree /\ Stored
    BY DEF Init, Tree, Stored
<1>3. ASSUME NEW p \in Procs PROVE Records(p) /\ pc[p] = "idle"
    BY <1>3 DEF Init, Records
<1> QED
    BY <1>1, <1>2, <1>3 DEF IInv

-----------------------------------------------------------------------------
(* What a step of the tree does to what is recorded *)

\* A content that is gone stays gone when the tree goes forward.
LEMMA StaysRight ==
    ASSUME TypeOK, UNCHANGED <<habit, config>>,
           NEW F \in Files, NEW c \in Maybe(Contents), NEW r, NEW s,
           habit = "forward" =>
               \/ disk'[F] = disk[F] /\ latest'[F] = latest[F]
               \/ disk'[F] = None /\ latest'[F] = latest[F]
               \/ disk'[F] = latest'[F] /\ latest'[F] \in Nat /\ latest'[F] > latest[F],
           Right(F, c, r, s)
    PROVE  Right(F, c, r, s)'
<1> USE Values
<1>1. CASE r \in Exact(c, s)
    BY <1>1 DEF Right, Exact
<1>2. CASE Past(F, c) /\ (r # None => r.from >= c)
  <2>1. c \in Contents /\ c \in Nat /\ latest[F] \in Nat
      BY <1>2, Types DEF Past, Maybe
  <2>2. c <= latest'[F] /\ disk'[F] # c
      BY <1>2, <2>1 DEF Past
  <2> QED
      BY <1>2, <2>2 DEF Right, Past
<1> QED
    BY <1>1, <1>2 DEF Right

\* To edit a file: what runs have recorded, and what is stored, stays right.
LEMMA Editing ==
    ASSUME Steady, IInv, Open, NEW F \in Files, NEW x \in Maybe(Contents),
           habit = "forward" /\ x # None => x > latest[F],
           disk' = [disk EXCEPT ![F] = x],
           latest' = [latest EXCEPT ![F] = IF x # None /\ x > @ THEN x ELSE @],
           Witness(F, x),
           UNCHANGED <<habit, config, blob, pc, cached, files, tyConfig, todo, rec, seenConfig>>
    PROVE  IInv'
<1> USE Values
<1>0. TypeOK /\ Tree /\ latest[F] \in Nat
    BY Parts, Types
<1>1. TypeOK'
  <2>1. disk' \in Snapshot
      BY <1>0 DEF TypeOK, Snapshot
  <2>2. latest' \in [Files -> 0 .. MaxVersion]
      BY <1>0, MaxVersionIsNatural DEF TypeOK, Maybe, Contents
  <2>3. seen' \in [Procs -> [Files -> SUBSET Maybe(Contents)]]
      BY <1>0 DEF TypeOK, Witness
  <2> QED
      BY <1>0, <2>1, <2>2, <2>3 DEF TypeOK
<1>2. /\ disk'[F] = x
      /\ \A G \in Files \ {F} : disk'[G] = disk[G] /\ latest'[G] = latest[G]
      /\ latest'[F] = IF x # None /\ x > latest[F] THEN x ELSE latest[F]
    BY <1>0 DEF TypeOK, Snapshot
<1>3. ASSUME NEW G \in Files, habit = "forward"
      PROVE  \/ disk'[G] = disk[G] /\ latest'[G] = latest[G]
             \/ disk'[G] = None /\ latest'[G] = latest[G]
             \/ disk'[G] = latest'[G] /\ latest'[G] \in Nat /\ latest'[G] > latest[G]
    BY <1>2, <1>3 DEF Maybe
<1>4. Tree'
    BY <1>0, <1>3 DEF Tree
<1>5. Stored'
    BY <1>0, <1>3, Parts, Types, StaysRight DEF Stored
<1>6. ASSUME NEW p \in Procs, pc[p] # "idle"
      PROVE  /\ seen'[p] = [seen[p] EXCEPT ![F] = @ \cup {x}]
             /\ \A G \in Files : seen'[p][G] = IF G = F THEN seen[p][G] \cup {x} ELSE seen[p][G]
             /\ Sees(p)
    BY <1>0, <1>6, Parts DEF Witness, TypeOK
<1>7. ASSUME NEW p \in Procs, pc[p] # "idle" PROVE Sees(p)'
  <2>1. habit = "quiet" => pc[p] = "done"
      BY <1>7 DEF Open
  <2>2. ASSUME NEW G \in Files, habit = "forward", files[p][G] # None
        PROVE  files[p][G] <= latest'[G]
    <3>1. files[p][G] \in Nat /\ latest[G] \in Nat /\ files[p][G] <= latest[G]
        BY ZenonT(40), <1>0, <1>6, <1>7, <2>2, Types DEF Sees, Maybe
    <3>2. latest'[G] = latest[G] \/ (latest'[G] \in Nat /\ latest'[G] > latest[G])
        BY <1>3, <2>2
    <3> QED
        BY <3>1, <3>2
  <2>3. ASSUME NEW G \in Files PROVE disk'[G] \in seen'[p][G] /\ files[p][G] \in seen'[p][G]
    <3>1. disk[G] \in seen[p][G] /\ files[p][G] \in seen[p][G]
        BY <1>6, <1>7 DEF Sees
    <3>2. seen'[p][G] = IF G = F THEN seen[p][G] \cup {x} ELSE seen[p][G]
        BY <1>6, <1>7
    <3>3. disk'[G] = IF G = F THEN x ELSE disk[G]
        BY <1>2
    <3> QED
        BY <3>1, <3>2, <3>3
  <2>4. ~ConfigChanges => seenConfig'[p] = {config'}
      BY <1>6, <1>7 DEF Sees
  <2> QED
      BY <2>1, <2>2, <2>3, <2>4 DEF Sees
<1>8. ASSUME NEW p \in Procs PROVE Records(p)'
  <2>1. Records(p)
      BY Parts
  <2>2. pc[p] \in {"idle", "open"} => rec[p] = NoFiles
      BY <2>1 DEF Records
  <2>3. ASSUME pc[p] \in {"build", "record", "store"}, NEW G \in Files
        PROVE  IF G \in todo[p] THEN files[p][G] # None
               ELSE Right(G, files[p][G], rec[p][G], Schema[p])'
    <3>1. CASE G \in todo[p]
        BY <2>1, <2>3, <3>1 DEF Records
    <3>2. CASE G \notin todo[p]
      <4>1. Right(G, files[p][G], rec[p][G], Schema[p]) /\ files[p][G] \in Maybe(Contents)
          BY <1>0, <2>1, <2>3, <3>2, Types DEF Records
      <4> QED
          BY <1>0, <1>3, <3>2, <4>1, StaysRight
    <3> QED
        BY <3>1, <3>2
  <2>4. ASSUME pc[p] = "done", NEW G \in Files, NEW c \in Maybe(Contents), seen'[p][G] = {c}
        PROVE  rec[p][G] \in Exact(c, Schema[p])
    <3>1. disk[G] \in seen[p][G] /\ seen[p][G] \subseteq seen'[p][G]
        BY <1>6, <2>4 DEF Sees
    <3>2. seen[p][G] = {c}
        BY <2>4, <3>1
    <3> QED
        BY <2>1, <2>4, <3>2 DEF Records
  <2>5. \A c, s : Exact(c, s)' = Exact(c, s)
      BY DEF Exact
  <2> QED
      BY <2>1, <2>2, <2>3, <2>4, <2>5 DEF Records
<1> QED
    BY <1>1, <1>4, <1>5, <1>7, <1>8 DEF IInv

LEMMA EnvironmentInv ==
    ASSUME Steady, IInv, Clean \/ Configure \/ \E F \in Files : EditFile(F) \/ DeleteFile(F)
    PROVE  IInv'
<1> USE Values
<1>0. TypeOK
    BY Parts
<1>1. ASSUME NEW F \in Files, EditFile(F) PROVE IInv'
  <2>1. PICK c \in Contents :
            /\ habit = "forward" => c > latest[F]
            /\ disk' = [disk EXCEPT ![F] = c]
            /\ latest' = [latest EXCEPT ![F] = IF c > @ THEN c ELSE @]
            /\ Witness(F, c)
      BY <1>1 DEF EditFile
  <2>2. latest' = [latest EXCEPT ![F] = IF c # None /\ c > @ THEN c ELSE @]
      BY <2>1
  <2> QED
      BY <1>1, <2>1, <2>2, Editing DEF EditFile, Maybe
<1>2. ASSUME NEW F \in Files, DeleteFile(F) PROVE IInv'
  <2>1. latest' = [latest EXCEPT ![F] = IF None # None /\ None > @ THEN None ELSE @]
      BY <1>0, <1>2 DEF DeleteFile, TypeOK
  <2> QED
      BY <1>2, <2>1, Editing DEF DeleteFile, Maybe
<1>3. CASE Clean
  <2>1. /\ blob' = None
        /\ UNCHANGED <<habit, disk, latest, config, pc, cached, files, tyConfig, todo, rec,
                      seen, seenConfig>>
      BY <1>3 DEF Clean, tree
  <2>2. TypeOK'
      BY <1>0, <2>1 DEF TypeOK, Maybe
  <2>3. Tree' /\ Stored'
      BY <2>1, Parts DEF Tree, Stored
  <2>4. ASSUME NEW p \in Procs PROVE Records(p)' /\ (pc'[p] # "idle" => Sees(p)')
      BY <2>1, <2>4, SameTree, Parts DEF Records, Sees, tree
  <2> QED
      BY <2>2, <2>3, <2>4 DEF IInv
<1>4. CASE Configure
  <2>1. /\ ConfigChanges /\ config' \in Configs
        /\ seenConfig' = [p \in Procs |-> IF pc[p] = "idle" THEN seenConfig[p]
                                          ELSE seenConfig[p] \cup {config'}]
        /\ UNCHANGED <<habit, disk, latest, blob, pc, cached, files, tyConfig, todo, rec, seen>>
      BY <1>4 DEF Configure
  <2>2. TypeOK'
      BY <1>0, <2>1 DEF TypeOK
  <2>3. \A c, s : Exact(c, s)' = Exact(c, s)
      BY <2>1 DEF Exact
  <2>4. \A F, c, r, s : Right(F, c, r, s)' = Right(F, c, r, s)
      BY <2>1, <2>3 DEF Right, Past
  <2>5. Tree' /\ Stored'
      BY <2>1, <2>4, Parts DEF Tree, Stored
  <2>6. ASSUME NEW p \in Procs PROVE Records(p)' /\ (pc'[p] # "idle" => Sees(p)')
      BY <2>1, <2>3, <2>4, <2>6, Parts DEF Records, Sees
  <2> QED
      BY <2>2, <2>5, <2>6 DEF IInv
<1> QED
    BY <1>1, <1>2, <1>3, <1>4

-----------------------------------------------------------------------------
(* The runs *)

\* A step of p leaves every other run, and the tree, alone.
LEMMA OneRun ==
    ASSUME IInv, NEW p \in Procs, UNCHANGED tree, TypeOK', Stored',
           \A q \in Procs \ {p} :
               /\ pc'[q] = pc[q] /\ files'[q] = files[q] /\ tyConfig'[q] = tyConfig[q]
               /\ todo'[q] = todo[q] /\ rec'[q] = rec[q]
               /\ seen'[q] = seen[q] /\ seenConfig'[q] = seenConfig[q],
           Records(p)', pc'[p] # "idle" => Sees(p)'
    PROVE  IInv'
<1>1. Tree'
    BY Parts DEF Tree, tree
<1>2. ASSUME NEW q \in Procs, q # p PROVE Records(q)' /\ (pc'[q] # "idle" => Sees(q)')
    BY <1>2, SameTree, Parts DEF Records, Sees, tree
<1> QED
    BY <1>1, <1>2 DEF IInv

\* A run that goes on sees what it saw; and the blob is as right as it was.
LEMMA StillSees ==
    ASSUME IInv, NEW p \in Procs, pc[p] \notin {"idle", "done"},
           UNCHANGED <<tree, files, seen, seenConfig>>
    PROVE  Sees(p)'
BY Parts DEF Sees, tree

LEMMA StillStored ==
    ASSUME IInv, UNCHANGED <<tree, blob>>
    PROVE  Stored'
BY SameTree, Parts DEF Stored, tree

\* What is right under the key of a run is exact for a file left alone during it.
LEMMA RightIsExact ==
    ASSUME IInv, NEW p \in Procs, pc[p] # "idle",
           NEW F \in Files, NEW c, seen[p][F] = {c}, NEW r, NEW s,
           Right(F, files[p][F], r, s)
    PROVE  r \in Exact(c, s)
<1>1. files[p][F] = c /\ disk[F] = c
    BY Parts DEF Sees
<1> QED
    BY <1>1 DEF Right, Past

LEMMA IndexInv == ASSUME IInv, NEW p \in Procs, Index(p) PROVE IInv'
<1> USE Values
<1>1. PICK there \in {"open", "build"}, warm \in BOOLEAN, jobs \in SUBSET Files :
          /\ pc[p] = "idle" /\ pc' = [pc EXCEPT ![p] = there]
          /\ cached' = [cached EXCEPT ![p] = warm]
          /\ todo' = [todo EXCEPT ![p] = jobs]
          /\ there = "build" => jobs = FilesOf(disk)
          /\ files' = [files EXCEPT ![p] = disk]
          /\ seen' = [seen EXCEPT ![p] = [F \in Files |-> {disk[F]}]]
          /\ seenConfig' = [seenConfig EXCEPT ![p] = {config}]
          /\ UNCHANGED <<tree, blob, tyConfig, rec>>
  <2>1. todo = [todo EXCEPT ![p] = todo[p]] /\ todo[p] \in SUBSET Files
      BY Parts DEF TypeOK
  <2>2. FilesOf(disk) \in SUBSET Files
      BY DEF FilesOf
  <2>3. CASE cached' = [cached EXCEPT ![p] = TRUE] /\ Goto(p, "open") /\ UNCHANGED todo
      BY <2>1, <2>3 DEF Index, Goto
  <2>4. CASE /\ cached' = [cached EXCEPT ![p] = FALSE] /\ Goto(p, "build")
             /\ todo' = [todo EXCEPT ![p] = FilesOf(disk)]
      BY <2>2, <2>4 DEF Index, Goto
  <2> QED
      BY <2>3, <2>4 DEF Index
<1>2. \A F \in Files : disk[F] \in Maybe(Contents)
    BY Parts, Types
<1>3. TypeOK'
    BY <1>1, <1>2, Parts DEF TypeOK, Maybe, tree
<1>4. /\ pc'[p] = there /\ todo'[p] = jobs /\ files'[p] = disk /\ rec'[p] = NoFiles
      /\ \A F \in Files : seen'[p][F] = {disk[F]}
      /\ seenConfig'[p] = {config}
      /\ \A q \in Procs \ {p} : /\ pc'[q] = pc[q] /\ files'[q] = files[q]
                                 /\ todo'[q] = todo[q]
                                 /\ seen'[q] = seen[q] /\ seenConfig'[q] = seenConfig[q]
    BY <1>1, Parts DEF TypeOK, Records
<1>5. UNCHANGED <<habit, disk, latest, config>>
    BY <1>1 DEF tree
<1>6. Records(p)'
  <2>1. ASSUME NEW F \in Files, there = "build"
        PROVE  IF F \in jobs THEN disk[F] # None ELSE Right(F, disk[F], NoFiles[F], Schema[p])'
    <3>1. F \in jobs <=> disk[F] # None
        BY <1>1, <2>1 DEF FilesOf
    <3>2. F \notin jobs => NoFiles[F] \in Exact(disk[F], Schema[p])'
        BY <1>5, <3>1 DEF Exact
    <3> QED
        BY <1>5, <3>1, <3>2 DEF Right
  <2> QED
      BY <1>4, <1>5, <2>1 DEF Records
<1>7. Sees(p)'
  <2>1. ASSUME NEW F \in Files, habit = "forward", disk[F] # None PROVE disk[F] <= latest[F]
    <3>1. disk[F] = latest[F] /\ latest[F] \in Nat
        BY <2>1, Parts, Types DEF Tree
    <3> QED
        BY <3>1
  <2> QED
      BY <1>4, <1>5, <2>1 DEF Sees
<1> QED
    BY <1>1, <1>3, <1>4, <1>6, <1>7, OneRun, StillStored

\* What Readable gives is the blob, of p's own release.
LEMMA ReadableIsBlob ==
    ASSUME NEW p \in Procs, Readable(p) # None
    PROVE  Readable(p) = blob /\ blob # None /\ blob.schema = Schema[p]
BY DEF Readable

LEMMA HitInv == ASSUME IInv, NEW p \in Procs, Hit(p) PROVE IInv'
<1> USE Values
<1>1. /\ pc[p] = "open" /\ pc' = [pc EXCEPT ![p] = "done"]
      /\ blob # None /\ blob.files = files[p] /\ blob.schema = Schema[p]
      /\ rec' = [rec EXCEPT ![p] = blob.rec]
      /\ UNCHANGED <<tree, blob, cached, files, tyConfig, todo, seen, seenConfig>>
    BY ReadableIsBlob DEF Hit, Goto
<1>2. blob.rec \in Recording
    BY <1>1, Parts, Types DEF Blobs
<1>3. TypeOK'
    BY <1>1, <1>2, Parts DEF TypeOK, tree
<1>4. /\ pc'[p] = "done" /\ rec'[p] = blob.rec
      /\ \A q \in Procs \ {p} : pc'[q] = pc[q] /\ rec'[q] = rec[q]
    BY <1>1, Parts DEF TypeOK
<1>5. ASSUME NEW F \in Files, NEW c, seen[p][F] = {c}
      PROVE  blob.rec[F] \in Exact(c, Schema[p])
  <2>1. Right(F, files[p][F], blob.rec[F], Schema[p])
      BY <1>1, Parts DEF Stored
  <2> QED
      BY <1>1, <1>5, <2>1, RightIsExact
<1>6. Records(p)'
    BY <1>1, <1>4, <1>5, SameTree DEF Records, tree
<1> QED
    BY <1>1, <1>3, <1>4, <1>6, OneRun, StillSees, StillStored

\* To carry over what did not change, and to begin from nothing.
LEMMA RepairInv == ASSUME Steady, IInv, NEW p \in Procs, Repair(p) PROVE IInv'
<1> USE Values
<1> DEFINE changed == ChangedFiles(blob.files, files[p])
           kept == [F \in Files |-> IF F \in changed THEN None ELSE blob.rec[F]]
           jobs == changed \cap FilesOf(files[p])
<1>1. /\ pc[p] = "open" /\ pc' = [pc EXCEPT ![p] = "build"]
      /\ blob # None /\ blob.schema = Schema[p]
      /\ rec' = [rec EXCEPT ![p] = kept]
      /\ todo' = [todo EXCEPT ![p] = jobs]
      /\ UNCHANGED <<tree, blob, cached, files, tyConfig, seen, seenConfig>>
    BY ReadableIsBlob DEF Repair, Goto
<1>2. /\ blob \in Blobs
      /\ \A F \in Files : /\ blob.files[F] \in Maybe(Contents) /\ blob.rec[F] \in Maybe(Fact)
                           /\ files[p][F] \in Maybe(Contents)
    BY <1>1, Parts, Types
<1>3. kept \in Recording /\ jobs \in SUBSET Files
    BY <1>2 DEF Recording, Maybe, FilesOf
<1>4. ASSUME NEW F \in Files
      PROVE  IF F \in jobs THEN files[p][F] # None ELSE Right(F, files[p][F], kept[F], Schema[p])
  <2>1. CASE F \in jobs
      BY <2>1 DEF FilesOf
  <2>2. CASE F \in changed /\ F \notin jobs
    <3>1. files[p][F] = None /\ kept[F] = None
        BY <2>2 DEF FilesOf
    <3> QED
        BY <2>2, <3>1 DEF Right, Exact
  <2>3. CASE F \notin changed
    <3>1. blob.files[F] = files[p][F]
        BY <1>2, <2>3 DEF ChangedFiles, IndexIn, Steady, Maybe
    <3>2. Right(F, blob.files[F], blob.rec[F], blob.schema) /\ kept[F] = blob.rec[F]
        BY <1>1, <2>3, Parts DEF Stored
    <3> QED
        BY <1>1, <2>3, <3>1, <3>2
  <2> QED
      BY <2>1, <2>2, <2>3
<1> HIDE DEF changed, kept, jobs
<1>5. TypeOK'
    BY <1>1, <1>3, Parts DEF TypeOK, tree
<1>6. /\ pc'[p] = "build" /\ rec'[p] = kept /\ todo'[p] = jobs
      /\ \A q \in Procs \ {p} : pc'[q] = pc[q] /\ rec'[q] = rec[q] /\ todo'[q] = todo[q]
    BY <1>1, Parts DEF TypeOK
<1>7. Records(p)'
    BY <1>1, <1>4, <1>6, SameTree DEF Records, tree
<1> QED
    BY <1>1, <1>5, <1>6, <1>7, OneRun, StillSees, StillStored

LEMMA ColdInv == ASSUME IInv, NEW p \in Procs, Cold(p) PROVE IInv'
<1> USE Values
<1> DEFINE jobs == FilesOf(files[p])
<1>1. /\ pc[p] = "open" /\ pc' = [pc EXCEPT ![p] = "build"]
      /\ todo' = [todo EXCEPT ![p] = jobs]
      /\ UNCHANGED <<tree, blob, cached, files, tyConfig, rec, seen, seenConfig>>
    BY DEF Cold, Goto
<1>2. jobs \in SUBSET Files /\ \A F \in Files : F \in jobs <=> files[p][F] # None
    BY DEF FilesOf
<1> HIDE DEF jobs
<1>3. TypeOK'
    BY <1>1, <1>2, Parts DEF TypeOK, tree
<1>4. /\ pc'[p] = "build" /\ todo'[p] = jobs /\ rec'[p] = NoFiles
      /\ \A q \in Procs \ {p} : pc'[q] = pc[q] /\ todo'[q] = todo[q]
    BY <1>1, Parts DEF TypeOK, Records
<1>5. ASSUME NEW F \in Files, F \notin jobs PROVE Right(F, files[p][F], NoFiles[F], Schema[p])
    BY <1>2, <1>5 DEF Right, Exact
<1>6. Records(p)'
    BY <1>1, <1>2, <1>4, <1>5, SameTree DEF Records, tree
<1> QED
    BY <1>1, <1>3, <1>4, <1>6, OneRun, StillSees, StillStored

LEMMA BuildInv == ASSUME IInv, NEW p \in Procs, Build(p) PROVE IInv'
<1> USE Values
<1>1. /\ pc[p] = "build" /\ pc' = [pc EXCEPT ![p] = "record"]
      /\ tyConfig' = [tyConfig EXCEPT ![p] = config]
      /\ UNCHANGED <<tree, blob, cached, files, todo, rec, seen, seenConfig>>
    BY DEF Build, Goto
<1>2. TypeOK'
    BY <1>1, Parts DEF TypeOK, Maybe, tree
<1>3. /\ pc'[p] = "record" /\ tyConfig'[p] = config
      /\ \A q \in Procs \ {p} : pc'[q] = pc[q] /\ tyConfig'[q] = tyConfig[q]
    BY <1>1, Parts DEF TypeOK
<1>4. Records(p)'
    BY <1>1, <1>3, Parts, SameTree DEF Records, tree
<1> QED
    BY <1>1, <1>2, <1>3, <1>4, OneRun, StillSees, StillStored

\* What ty reads now is right under a key that was taken before.
LEMMA RecordFileInv ==
    ASSUME Steady, IInv, NEW p \in Procs, NEW F \in Files, RecordFile(p, F) PROVE IInv'
<1> USE Values
<1> DEFINE said == IF disk[F] = None THEN None
                   ELSE [from |-> disk[F], under |-> tyConfig[p], by |-> Schema[p]]
<1>0. /\ TypeOK /\ tyConfig[p] \in Configs /\ disk[F] \in Maybe(Contents)
      /\ ConfigChanges \/ tyConfig[p] = config
    BY Parts, Types DEF RecordFile, Records, TypeOK, Maybe
<1>1. /\ pc[p] = "record" /\ F \in todo[p]
      /\ rec' = [rec EXCEPT ![p] = [rec[p] EXCEPT ![F] = said]]
      /\ todo' = [todo EXCEPT ![p] = todo[p] \ {F}]
      /\ UNCHANGED <<tree, blob, pc, cached, files, tyConfig, seen, seenConfig>>
    BY <1>0 DEF RecordFile
<1>2. said \in Maybe(Fact) /\ said \in Exact(disk[F], Schema[p])
    BY <1>0 DEF Exact, Fact, Maybe
<1>3. Right(F, files[p][F], said, Schema[p])
  <2>1. Sees(p) /\ files[p][F] # None /\ files[p][F] \in Maybe(Contents)
      BY <1>0, <1>1, Parts, Types DEF Records
  <2>2. CASE files[p][F] = disk[F]
      BY <1>2, <2>2 DEF Right
  <2>3. CASE files[p][F] # disk[F]
    <3>1. habit # "quiet"
        BY <1>1, <2>1, <2>3 DEF Sees
    <3>2. habit = "forward"
        BY <1>0, <3>1 DEF Steady, TypeOK
    <3>3. files[p][F] <= latest[F] /\ (disk[F] # None => disk[F] = latest[F])
        BY <2>1, <3>2, Parts DEF Sees, Tree
    <3>4. said # None => said.from >= files[p][F]
      <4>1. said # None => said.from = latest[F] /\ latest[F] \in Nat
          BY <1>0, <3>3, Types
      <4>2. files[p][F] \in Nat
          BY <2>1 DEF Maybe
      <4> QED
          BY <3>3, <4>1, <4>2
    <3> QED
        BY <2>1, <2>3, <3>2, <3>3, <3>4 DEF Right, Past
  <2> QED
      BY <2>2, <2>3
<1> HIDE DEF said
<1>4. TypeOK'
  <2>1. [rec[p] EXCEPT ![F] = said] \in Recording
      BY <1>0, <1>2 DEF TypeOK, Recording
  <2> QED
      BY <1>0, <1>1, <2>1 DEF TypeOK, tree
<1>5. /\ todo'[p] = todo[p] \ {F}
      /\ \A G \in Files : rec'[p][G] = IF G = F THEN said ELSE rec[p][G]
      /\ \A q \in Procs \ {p} : rec'[q] = rec[q] /\ todo'[q] = todo[q]
    BY <1>0, <1>1 DEF TypeOK, Recording
<1>6. ASSUME NEW G \in Files
      PROVE  IF G \in todo'[p] THEN files[p][G] # None
             ELSE Right(G, files[p][G], rec'[p][G], Schema[p])
  <2>1. CASE G = F
      BY <1>3, <1>5, <2>1
  <2>2. CASE G # F
      BY <1>1, <1>5, <2>2, Parts DEF Records
  <2> QED
      BY <2>1, <2>2
<1>7. Records(p)'
    BY <1>0, <1>1, <1>6, SameTree DEF Records, tree
<1> QED
    BY <1>1, <1>4, <1>5, <1>7, OneRun, StillSees, StillStored

\* A run whose recording is complete answers from it.
LEMMA DoneInv ==
    ASSUME IInv, NEW p \in Procs, pc[p] \in {"record", "store"}, todo[p] = {},
           pc' = [pc EXCEPT ![p] = "done"],
           UNCHANGED <<tree, cached, files, tyConfig, todo, rec, seen, seenConfig>>,
           blob' \in Maybe(Blobs), Stored'
    PROVE  IInv'
<1>1. TypeOK'
    BY Parts DEF TypeOK, tree
<1>2. pc'[p] = "done" /\ \A q \in Procs \ {p} : pc'[q] = pc[q]
    BY Parts DEF TypeOK
<1>3. ASSUME NEW F \in Files, NEW c, seen[p][F] = {c}
      PROVE  rec[p][F] \in Exact(c, Schema[p])
  <2>1. Right(F, files[p][F], rec[p][F], Schema[p])
      BY Parts DEF Records
  <2> QED
      BY <1>3, <2>1, RightIsExact
<1>4. Records(p)'
    BY <1>2, <1>3, SameTree DEF Records, tree
<1> QED
    BY <1>1, <1>2, <1>4, OneRun, StillSees

LEMMA RecordedInv == ASSUME IInv, NEW p \in Procs, Recorded(p) PROVE IInv'
<1> USE Values
<1>1. PICK there \in {"store", "done"} :
          /\ pc[p] = "record" /\ todo[p] = {} /\ pc' = [pc EXCEPT ![p] = there]
          /\ UNCHANGED <<tree, blob, cached, files, tyConfig, todo, rec, seen, seenConfig>>
    BY DEF Recorded, Goto
<1>2. CASE there = "done"
  <2>1. blob' \in Maybe(Blobs)
      BY <1>1, Parts DEF TypeOK
  <2> QED
      BY <1>1, <1>2, <2>1, DoneInv, StillStored
<1>3. CASE there = "store"
  <2>1. TypeOK'
      BY <1>1, <1>3, Parts DEF TypeOK, tree
  <2>2. pc'[p] = "store" /\ \A q \in Procs \ {p} : pc'[q] = pc[q]
      BY <1>1, <1>3, Parts DEF TypeOK
  <2>3. Records(p)'
      BY <1>1, <2>2, Parts, SameTree DEF Records, tree
  <2> QED
      BY <1>1, <2>1, <2>2, <2>3, OneRun, StillSees, StillStored
<1> QED
    BY <1>2, <1>3

LEMMA StoreInv == ASSUME IInv, NEW p \in Procs, Store(p) \/ StoreFails(p) PROVE IInv'
<1> USE Values
<1>1. /\ pc[p] = "store" /\ todo[p] = {} /\ pc' = [pc EXCEPT ![p] = "done"]
      /\ UNCHANGED <<tree, cached, files, tyConfig, todo, rec, seen, seenConfig>>
    BY Parts DEF Store, StoreFails, Goto, Records
<1>2. CASE StoreFails(p)
  <2>1. blob' \in Maybe(Blobs) /\ UNCHANGED blob
      BY <1>2, Parts DEF StoreFails, TypeOK
  <2> QED
      BY <1>1, <2>1, DoneInv, StillStored
<1>3. CASE Store(p)
  <2>1. blob' = [schema |-> Schema[p], files |-> files[p], rec |-> rec[p]]
      BY <1>3 DEF Store
  <2>2. blob' \in Blobs
      BY <2>1, Parts DEF TypeOK, Blobs
  <2>3. \A F \in Files : Right(F, files[p][F], rec[p][F], Schema[p])
      BY <1>1, Parts DEF Records
  <2>4. Stored'
      BY <1>1, <2>1, <2>3, SameTree DEF Stored, tree
  <2> QED
      BY <1>1, <2>2, <2>4, DoneInv DEF Maybe
<1> QED
    BY <1>2, <1>3

LEMMA GoneInv == ASSUME IInv, NEW p \in Procs, Gone(p) PROVE IInv'
<1> USE Values
<1>1. /\ pc' = [pc EXCEPT ![p] = "idle"] /\ cached' = [cached EXCEPT ![p] = TRUE]
      /\ files' = [files EXCEPT ![p] = NoFiles] /\ tyConfig' = [tyConfig EXCEPT ![p] = None]
      /\ todo' = [todo EXCEPT ![p] = {}] /\ rec' = [rec EXCEPT ![p] = NoFiles]
      /\ seen' = [seen EXCEPT ![p] = [F \in Files |-> {}]]
      /\ seenConfig' = [seenConfig EXCEPT ![p] = {}]
      /\ UNCHANGED <<tree, blob>>
    BY DEF Gone, Goto
<1>2. TypeOK'
    BY <1>1, Parts DEF TypeOK, Maybe, tree
<1>3. /\ pc'[p] = "idle" /\ rec'[p] = NoFiles
      /\ \A q \in Procs \ {p} :
            /\ pc'[q] = pc[q] /\ files'[q] = files[q] /\ tyConfig'[q] = tyConfig[q]
            /\ todo'[q] = todo[q] /\ rec'[q] = rec[q]
            /\ seen'[q] = seen[q] /\ seenConfig'[q] = seenConfig[q]
    BY <1>1, Parts DEF TypeOK
<1>4. Records(p)'
    BY <1>3 DEF Records
<1> QED
    BY <1>1, <1>2, <1>3, <1>4, OneRun, StillStored

-----------------------------------------------------------------------------
(* The theorems *)

LEMMA NextInv == Steady /\ IInv /\ [Next]_vars => IInv'
<1> SUFFICES ASSUME Steady, IInv, [Next]_vars PROVE IInv'
    OBVIOUS
<1>1. CASE Clean \/ Configure \/ \E F \in Files : EditFile(F) \/ DeleteFile(F)
    BY <1>1, EnvironmentInv
<1>2. ASSUME NEW p \in Procs, Run(p) PROVE IInv'
    BY <1>2, IndexInv, HitInv, RepairInv, ColdInv, BuildInv, RecordFileInv, RecordedInv,
       StoreInv, GoneInv DEF Run
<1>3. CASE UNCHANGED vars
  <2>1. TypeOK'
      BY <1>3, Parts DEF TypeOK, vars
  <2>2. Tree' /\ Stored'
      BY <1>3, Parts DEF Tree, Stored, Right, Exact, Past, vars
  <2>3. ASSUME NEW p \in Procs PROVE Records(p)' /\ (pc'[p] # "idle" => Sees(p)')
      BY <1>3, <2>3, SameTree, Parts DEF Records, Sees, vars, tree
  <2> QED
      BY <2>1, <2>2, <2>3 DEF IInv
<1> QED
    BY <1>1, <1>2, <1>3 DEF Next

\* The inductive invariant: what is stored under a key is what ty says of the content that
\* is the key, or nobody will ask for that key any more.
THEOREM GraphInvariance ==
    ASSUME Steady
    PROVE  Spec => []IInv
<1>1. IInv /\ [Next]_vars => IInv'
    BY NextInv
<1> QED
    BY <1>1, InitInv, PTL DEF Spec

\* Every reachable state of the graph cache is well typed.
THEOREM GraphTypeCorrect ==
    ASSUME Steady
    PROVE  Spec => []TypeOK
<1>1. IInv => TypeOK
    BY DEF IInv
<1> QED
    BY <1>1, GraphInvariance, PTL

\* For any number of files, processes and releases, and whatever becomes of the configuration:
\* about a file that was left alone, a run answers what its own release of ty says of
\* the present source, whether it replayed, repaired, recorded or bypassed the cache
\* (cache.rs 233-350).
THEOREM AnswersAreOfTheSource ==
    ASSUME Steady
    PROVE  Spec => []AnswerIsOfTheSource
<1>1. ASSUME IInv PROVE AnswerIsOfTheSource
  <2> SUFFICES ASSUME NEW p \in Procs, pc[p] = "done",
                      NEW F \in Files, NEW c \in Contents, seen[p][F] = {c}
               PROVE  rec[p][F] # None /\ rec[p][F].from = c /\ rec[p][F].by = Schema[p]
      BY DEF AnswerIsOfTheSource
  <2>1. rec[p][F] \in Exact(c, Schema[p])
      BY <1>1, Parts DEF Records, Maybe
  <2> QED
      BY <2>1, Values DEF Exact
<1> QED
    BY <1>1, GraphInvariance, PTL

\* And if the configuration stays, it is all that ty says of it now.
THEOREM AnswersAreLive ==
    ASSUME Steady, ~ConfigChanges
    PROVE  Spec => []AnswerIsLive
<1>1. ASSUME IInv PROVE AnswerIsLive
  <2> SUFFICES ASSUME NEW p \in Procs, pc[p] = "done",
                      NEW F \in Files, NEW c \in Maybe(Contents), NEW g \in Configs,
                      seen[p][F] = {c}, seenConfig[p] = {g}
               PROVE  rec[p][F] = IF c = None THEN None
                                  ELSE [from |-> c, under |-> g, by |-> Schema[p]]
      BY DEF AnswerIsLive
  <2>1. rec[p][F] \in Exact(c, Schema[p])
      BY <1>1, Parts DEF Records
  <2>2. g = config
      BY <1>1, Parts DEF Sees
  <2> QED
      BY <2>1, <2>2 DEF Exact, Fact
<1> QED
    BY <1>1, GraphInvariance, PTL

\* The error of a run that overlaps an edit is always towards the newer: nothing is stored
\* about a file that is older than the content it is stored under (cache.rs 296-345).
THEOREM StoredIsNeverOlder ==
    ASSUME Steady
    PROVE  Spec => []NeverOlderThanKey
<1>1. ASSUME IInv PROVE NeverOlderThanKey
  <2> SUFFICES ASSUME blob # None, NEW F \in Files, blob.rec[F] # None,
                      IndexIn(blob.files, F) # None
               PROVE  blob.rec[F].from >= blob.files[F]
      BY DEF NeverOlderThanKey
  <2>1. blob.files[F] # None /\ blob.files[F] \in Nat
      BY <1>1, Parts, Types, Values DEF IndexIn, Maybe
  <2>2. Right(F, blob.files[F], blob.rec[F], blob.schema)
      BY <1>1, Parts DEF Stored
  <2> QED
      BY <2>1, <2>2 DEF Right, Exact
<1> QED
    BY <1>1, GraphInvariance, PTL

=============================================================================
