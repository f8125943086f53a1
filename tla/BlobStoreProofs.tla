--------------------------- MODULE BlobStoreProofs ---------------------------
(***************************************************************************)
(* Proofs about BlobStore, for every set of processes, values and inodes:  *)
(* nobody reads an unfinished file, and the file is the register of        *)
(* AtomicBlob.                                                             *)
(***************************************************************************)
EXTENDS BlobStore, TLAPS

-----------------------------------------------------------------------------
(* Typing *)

LEMMA InitType == Init => TypeOK
BY DEF Init, TypeOK

\* One step of one process keeps the types.
LEMMA StepType ==
    ASSUME TypeOK, NEW p \in Procs, Step(p)
    PROVE  TypeOK'
<1>1. CASE OpenBlob(p)
    BY <1>1, SentinelsAreNoValues DEF OpenBlob, TypeOK, Goto
<1>2. CASE ReadBlob(p)
    BY <1>2, SentinelsAreNoValues DEF ReadBlob, TypeOK, Goto, Decode
<1>3. ASSUME NEW v \in Values, BeginWrite(p, v)
      PROVE  TypeOK'
    BY <1>3, SentinelsAreNoValues DEF BeginWrite, TypeOK, Goto
<1>4. CASE MakeDir(p)
    BY <1>4 DEF MakeDir, TypeOK, Goto
<1>5. CASE CreateTmp(p)
    <2>1. PICK i \in Inodes :
             /\ tmp' = [tmp EXCEPT ![p] = i]
             /\ data' = [data EXCEPT ![i] = Torn]
             /\ fd' = [fd EXCEPT ![p] = i]
        BY <1>5 DEF CreateTmp, TmpOf
    <2>. QED
        BY <1>5, <2>1, SentinelsAreNoValues DEF CreateTmp, TypeOK, Goto
<1>6. CASE FillTmp(p)
    BY <1>6, SentinelsAreNoValues DEF FillTmp, TypeOK, Goto
<1>7. CASE RenameTmp(p)
    BY <1>7 DEF RenameTmp, TypeOK, Goto, TmpOf
<1>8. CASE WriteFails(p)
    BY <1>8 DEF WriteFails, TypeOK, Goto
<1>9. CASE BeginClean(p)
    BY <1>9 DEF BeginClean, TypeOK, Goto
<1>10. CASE ScanDir(p)
    BY <1>10 DEF ScanDir, TypeOK, Goto, Linked
<1>11. CASE EndClean(p)
    BY <1>11 DEF EndClean, TypeOK, Goto, Linked
<1>12. ASSUME NEW n \in Names, Unlink(p, n)
       PROVE  TypeOK'
    BY <1>12 DEF Unlink, TypeOK, Names
<1>13. CASE Crash(p)
    BY <1>13 DEF Crash, TypeOK, Goto
<1>. QED
    BY <1>1, <1>2, <1>3, <1>4, <1>5, <1>6, <1>7, <1>8, <1>9, <1>10, <1>11,
       <1>12, <1>13 DEF Step

LEMMA NextType == TypeOK /\ [Next]_vars => TypeOK'
<1>. SUFFICES ASSUME TypeOK, [Next]_vars PROVE TypeOK'
    OBVIOUS
<1>1. CASE LosePower
    BY <1>1 DEF LosePower, TypeOK
<1>2. ASSUME NEW p \in Procs, Step(p) PROVE TypeOK'
    BY <1>2, StepType
<1>3. CASE UNCHANGED vars
    BY <1>3 DEF vars, TypeOK
<1>. QED
    BY <1>1, <1>2, <1>3 DEF Next

\* Every reachable state is well typed, and a process has a file open exactly
\* while it reads or fills one (no error path of write_bin leaks it).
THEOREM BlobTypeCorrect == Spec => []TypeOK
BY InitType, NextType, PTL DEF Spec

-----------------------------------------------------------------------------
(* The inductive invariant *)

LEMMA IInvInit == Init => IInv
BY InitType DEF Init, IInv, OneLink, OwnInode, NoLongerTemporary, NeverTorn,
                PublishesOwnValue, TmpOf

\* The steps that only move a process to where it has no file open.
Passive(p) ==
    \/ ReadBlob(p) \/ \E v \in Values : BeginWrite(p, v)
    \/ MakeDir(p) \/ WriteFails(p)
    \/ BeginClean(p) \/ ScanDir(p) \/ EndClean(p)
    \/ Crash(p)

\* They leave the files and the other processes alone.
LEMMA PassiveEffect ==
    ASSUME TypeOK, NEW p \in Procs, Passive(p)
    PROVE  /\ UNCHANGED <<blob, tmp, data>>
           /\ pc'[p] \notin {"reading", "writing", "rename"}
           /\ fd'[p] = None
           /\ \A q \in Procs \ {p} : pc'[q] = pc[q] /\ fd'[q] = fd[q] /\ arg'[q] = arg[q]
<1>1. CASE ReadBlob(p)
    BY <1>1 DEF ReadBlob, TypeOK, Goto
<1>2. ASSUME NEW v \in Values, BeginWrite(p, v)
      PROVE  /\ UNCHANGED <<blob, tmp, data>>
             /\ pc'[p] \notin {"reading", "writing", "rename"}
             /\ fd'[p] = None
             /\ \A q \in Procs \ {p} : pc'[q] = pc[q] /\ fd'[q] = fd[q] /\ arg'[q] = arg[q]
    BY <1>2 DEF BeginWrite, TypeOK, Goto
<1>3. CASE MakeDir(p)
    BY <1>3 DEF MakeDir, TypeOK, Goto
<1>4. CASE WriteFails(p)
    BY <1>4 DEF WriteFails, TypeOK, Goto
<1>5. CASE BeginClean(p)
    BY <1>5 DEF BeginClean, TypeOK, Goto
<1>6. CASE ScanDir(p)
    BY <1>6 DEF ScanDir, TypeOK, Goto
<1>7. CASE EndClean(p)
    BY <1>7 DEF EndClean, TypeOK, Goto
<1>8. CASE Crash(p)
    BY <1>8 DEF Crash, TypeOK, Goto
<1>. QED
    BY <1>1, <1>2, <1>3, <1>4, <1>5, <1>6, <1>7, <1>8 DEF Passive

LEMMA PassiveStep ==
    ASSUME IInv, NEW p \in Procs, Passive(p)
    PROVE  /\ OneLink'
           /\ \A q \in Procs : OwnInode(q)' /\ NoLongerTemporary(q)'
           /\ NeverTorn'
           /\ PublishesOwnValue'
<1>0. TypeOK
    BY DEF IInv
<1>1. /\ UNCHANGED <<blob, tmp, data>>
      /\ pc'[p] \notin {"reading", "writing", "rename"}
      /\ fd'[p] = None
      /\ \A q \in Procs \ {p} : pc'[q] = pc[q] /\ fd'[q] = fd[q] /\ arg'[q] = arg[q]
    BY <1>0, PassiveEffect
<1>2. OneLink'
    BY <1>1 DEF IInv, OneLink
<1>3. ASSUME NEW q \in Procs
      PROVE  OwnInode(q)' /\ NoLongerTemporary(q)'
    <2>1. CASE q = p
        BY <1>1, <2>1 DEF OwnInode, NoLongerTemporary
    <2>2. CASE q # p
        BY <1>0, <1>1, <2>2 DEF IInv, OwnInode, NoLongerTemporary, TypeOK
    <2>. QED
        BY <2>1, <2>2
<1>4. NeverTorn'
    BY <1>1 DEF IInv, NeverTorn
<1>5. PublishesOwnValue'
    BY <1>1 DEF IInv, PublishesOwnValue, TmpOf
<1>. QED
    BY <1>2, <1>3, <1>4, <1>5

\* The steps that open, link or fill, one by one.
LEMMA OpenBlobStep ==
    ASSUME IInv, NEW p \in Procs, OpenBlob(p)
    PROVE  /\ OneLink'
           /\ \A q \in Procs : OwnInode(q)' /\ NoLongerTemporary(q)'
           /\ NeverTorn'
           /\ PublishesOwnValue'
<1>. USE DEF IInv, TypeOK, OpenBlob, Goto
<1>1. OneLink'
    BY DEF OneLink
<1>2. ASSUME NEW q \in Procs
      PROVE  OwnInode(q)'
    BY <1>2 DEF OwnInode
<1>3. ASSUME NEW q \in Procs
      PROVE  NoLongerTemporary(q)'
    BY <1>3 DEF NoLongerTemporary, OneLink
<1>4. NeverTorn'
    BY DEF NeverTorn
<1>5. PublishesOwnValue'
    BY DEF PublishesOwnValue, TmpOf
<1>. QED
    BY <1>1, <1>2, <1>3, <1>4, <1>5

\* The inode a writer opens is its own old temporary file or a free one: nobody
\* else has it open, and no other name links to it.
LEMMA CreateTmpEffect ==
    ASSUME IInv, NEW p \in Procs, CreateTmp(p)
    PROVE  /\ fd'[p] \in Inodes
           /\ fd'[p] # blob
           /\ \A q \in Procs \ {p} : tmp[q] # fd'[p] /\ fd[q] # fd'[p]
           /\ tmp' = [tmp EXCEPT ![p] = fd'[p]]
           /\ data' = [data EXCEPT ![fd'[p]] = Torn]
           /\ fd' = [fd EXCEPT ![p] = fd'[p]]
<1>1. PICK i \in Inodes :
         /\ IF tmp[p] # None THEN i = tmp[p] ELSE i \in Free
         /\ tmp' = [tmp EXCEPT ![p] = i]
         /\ data' = [data EXCEPT ![i] = Torn]
         /\ fd' = [fd EXCEPT ![p] = i]
    BY DEF CreateTmp, TmpOf
<1>2. fd'[p] = i
    BY <1>1 DEF IInv, TypeOK
<1>3. CASE tmp[p] = None
    BY <1>1, <1>2, <1>3 DEF Free
<1>4. CASE tmp[p] # None
    <2>1. i = tmp[p] /\ i # blob /\ \A q \in Procs \ {p} : tmp[q] # i
        BY <1>1, <1>4 DEF IInv, OneLink
    <2>2. ASSUME NEW q \in Procs \ {p}
          PROVE  fd[q] # i
        <3>1. CASE pc[q] = "reading"
            BY <2>1, <3>1 DEF IInv, NoLongerTemporary
        <3>2. CASE pc[q] = "writing"
            BY <2>1, <3>2 DEF IInv, OwnInode
        <3>3. CASE pc[q] \notin {"reading", "writing"}
            BY <3>3, SentinelsAreNoValues DEF IInv, TypeOK
        <3>. QED
            BY <3>1, <3>2, <3>3
    <2>. QED
        BY <1>1, <1>2, <2>1, <2>2
<1>. QED
    BY <1>3, <1>4

LEMMA CreateTmpStep ==
    ASSUME IInv, NEW p \in Procs, CreateTmp(p)
    PROVE  /\ OneLink'
           /\ \A q \in Procs : OwnInode(q)' /\ NoLongerTemporary(q)'
           /\ NeverTorn'
           /\ PublishesOwnValue'
<1>1. /\ fd'[p] \in Inodes
      /\ fd'[p] # blob
      /\ \A q \in Procs \ {p} : tmp[q] # fd'[p] /\ fd[q] # fd'[p]
      /\ tmp' = [tmp EXCEPT ![p] = fd'[p]]
      /\ data' = [data EXCEPT ![fd'[p]] = Torn]
      /\ fd' = [fd EXCEPT ![p] = fd'[p]]
    BY CreateTmpEffect
<1>2. pc[p] = "create" /\ pc' = [pc EXCEPT ![p] = "writing"] /\ UNCHANGED <<blob, arg>>
    BY DEF CreateTmp, Goto
<1>. DEFINE i == fd'[p]
<1>3. /\ \A q \in Procs \ {p} : tmp'[q] = tmp[q] /\ fd'[q] = fd[q] /\ pc'[q] = pc[q]
      /\ tmp'[p] = i
      /\ \A j \in Inodes \ {i} : data'[j] = data[j]
      /\ pc'[p] = "writing"
    BY <1>1, <1>2 DEF IInv, TypeOK
<1>. HIDE DEF i
<1>4. OneLink'
    BY <1>1, <1>2, <1>3 DEF IInv, OneLink, i
<1>5. ASSUME NEW q \in Procs
      PROVE  OwnInode(q)' /\ NoLongerTemporary(q)'
    <2>1. CASE q = p
        BY <1>1, <1>2, <1>3, <2>1 DEF OwnInode, NoLongerTemporary, i
    <2>2. CASE q # p
        BY <1>1, <1>2, <1>3, <2>2 DEF IInv, OwnInode, NoLongerTemporary, i
    <2>. QED
        BY <2>1, <2>2
<1>6. NeverTorn'
    <2>1. blob' # None => data'[blob'] # Torn
        BY <1>1, <1>2, <1>3 DEF IInv, TypeOK, NeverTorn, i
    <2>2. ASSUME NEW q \in Procs, pc'[q] = "reading"
          PROVE  data'[fd'[q]] # Torn
        <3>1. q # p /\ pc[q] = "reading"
            BY <1>3, <2>2
        <3>2. fd[q] \in Inodes \ {i} /\ fd'[q] = fd[q]
            BY <1>1, <1>3, <3>1 DEF IInv, TypeOK, i
        <3>. QED
            BY <1>3, <3>1, <3>2 DEF IInv, NeverTorn
    <2>. QED
        BY <2>1, <2>2 DEF NeverTorn
<1>7. PublishesOwnValue'
    <2>. SUFFICES ASSUME NEW q \in Procs, pc'[q] = "rename", tmp'[q] # None
                  PROVE  data'[tmp'[q]] = arg'[q]
        BY DEF PublishesOwnValue, TmpOf
    <2>1. q # p /\ pc[q] = "rename" /\ tmp'[q] = tmp[q]
        BY <1>3
    <2>2. tmp[q] \in Inodes \ {i}
        BY <1>1, <2>1 DEF IInv, TypeOK, i
    <2>. QED
        BY <1>2, <1>3, <2>1, <2>2 DEF IInv, PublishesOwnValue, TmpOf
<1>. QED
    BY <1>4, <1>5, <1>6, <1>7

\* Filling one's own inode disturbs no reader and no other writer.
LEMMA FillTmpStep ==
    ASSUME IInv, NEW p \in Procs, FillTmp(p)
    PROVE  /\ OneLink'
           /\ \A q \in Procs : OwnInode(q)' /\ NoLongerTemporary(q)'
           /\ NeverTorn'
           /\ PublishesOwnValue'
<1>. DEFINE i == fd[p]
<1>1. /\ i \in Inodes /\ i # blob
      /\ \A q \in Procs \ {p} : tmp[q] # i /\ fd[q] # i
    BY DEF IInv, TypeOK, OwnInode, FillTmp
<1>2. /\ UNCHANGED <<blob, tmp, arg>>
      /\ data'[i] = arg[p]
      /\ \A j \in Inodes \ {i} : data'[j] = data[j]
      /\ pc'[p] = "rename"
      /\ \A q \in Procs \ {p} : pc'[q] = pc[q] /\ fd'[q] = fd[q]
      /\ fd'[p] = None
    BY <1>1 DEF IInv, TypeOK, FillTmp, Goto
<1>. HIDE DEF i
<1>3. OneLink'
    BY <1>2 DEF IInv, OneLink
<1>4. ASSUME NEW q \in Procs
      PROVE  OwnInode(q)' /\ NoLongerTemporary(q)'
    <2>1. CASE q = p
        BY <1>2, <2>1 DEF OwnInode, NoLongerTemporary
    <2>2. CASE q # p
        BY <1>2, <2>2 DEF IInv, TypeOK, OwnInode, NoLongerTemporary
    <2>. QED
        BY <2>1, <2>2
<1>5. NeverTorn'
    <2>1. blob' # None => data'[blob'] # Torn
        BY <1>1, <1>2 DEF IInv, TypeOK, NeverTorn
    <2>2. ASSUME NEW q \in Procs, pc'[q] = "reading"
          PROVE  data'[fd'[q]] # Torn
        <3>1. q # p /\ pc[q] = "reading" /\ fd'[q] = fd[q]
            BY <1>2, <2>2
        <3>2. fd[q] \in Inodes \ {i}
            BY <1>1, <3>1 DEF IInv, TypeOK
        <3>. QED
            BY <1>2, <3>1, <3>2 DEF IInv, NeverTorn
    <2>. QED
        BY <2>1, <2>2 DEF NeverTorn
<1>6. PublishesOwnValue'
    <2>. SUFFICES ASSUME NEW q \in Procs, pc'[q] = "rename", tmp'[q] # None
                  PROVE  data'[tmp'[q]] = arg'[q]
        BY DEF PublishesOwnValue, TmpOf
    <2>1. CASE q = p /\ tmp[p] = i
        BY <1>2, <2>1
    <2>2. CASE q = p /\ tmp[p] # i
        BY <1>2, <2>2 DEF IInv, OwnInode, FillTmp, i
    <2>3. CASE q # p
        <3>1. pc[q] = "rename" /\ tmp[q] \in Inodes \ {i}
            BY <1>1, <1>2, <2>3 DEF IInv, TypeOK
        <3>. QED
            BY <1>2, <3>1 DEF IInv, PublishesOwnValue, TmpOf
    <2>. QED
        BY <2>1, <2>2, <2>3
<1>. QED
    BY <1>3, <1>4, <1>5, <1>6

LEMMA RenameTmpStep ==
    ASSUME IInv, NEW p \in Procs, RenameTmp(p)
    PROVE  /\ OneLink'
           /\ \A q \in Procs : OwnInode(q)' /\ NoLongerTemporary(q)'
           /\ NeverTorn'
           /\ PublishesOwnValue'
<1>1. /\ pc[p] = "rename" /\ pc'[p] = "idle"
      /\ tmp[p] \in Inodes /\ blob' = tmp[p] /\ tmp'[p] = None
      /\ data[tmp[p]] = arg[p] /\ arg[p] \in Values
      /\ UNCHANGED <<data, fd>>
      /\ \A q \in Procs \ {p} : tmp'[q] = tmp[q] /\ pc'[q] = pc[q] /\ arg'[q] = arg[q]
    BY DEF IInv, TypeOK, PublishesOwnValue, RenameTmp, TmpOf, Goto
<1>2. OneLink'
    BY <1>1, SentinelsAreNoValues DEF IInv, TypeOK, OneLink
<1>3. ASSUME NEW q \in Procs
      PROVE  OwnInode(q)' /\ NoLongerTemporary(q)'
    <2>1. CASE q = p
        BY <1>1, <2>1 DEF OwnInode, NoLongerTemporary
    <2>2. CASE q # p
        BY <1>1, <2>2, SentinelsAreNoValues
        DEF IInv, TypeOK, OwnInode, NoLongerTemporary
    <2>. QED
        BY <2>1, <2>2
<1>4. NeverTorn'
    BY <1>1, SentinelsAreNoValues DEF IInv, NeverTorn
<1>5. PublishesOwnValue'
    BY <1>1 DEF IInv, PublishesOwnValue, TmpOf
<1>. QED
    BY <1>2, <1>3, <1>4, <1>5

\* Removing a name only takes links away.
LEMMA UnlinkStep ==
    ASSUME IInv, NEW p \in Procs, NEW n \in Names, Unlink(p, n)
    PROVE  /\ OneLink'
           /\ \A q \in Procs : OwnInode(q)' /\ NoLongerTemporary(q)'
           /\ NeverTorn'
           /\ PublishesOwnValue'
<1>1. /\ UNCHANGED <<data, pc, fd, arg>>
      /\ blob' \in {blob, None}
      /\ \A q \in Procs : tmp'[q] \in {tmp[q], None}
    BY DEF IInv, TypeOK, Unlink, Names
<1>2. OneLink'
    BY <1>1 DEF IInv, OneLink
<1>3. ASSUME NEW q \in Procs
      PROVE  OwnInode(q)' /\ NoLongerTemporary(q)'
    <2>1. pc[q] \in {"reading", "writing"} => fd[q] # None
        BY DEF IInv, TypeOK
    <2>2. OwnInode(q)'
        BY <1>1, <2>1 DEF IInv, OwnInode
    <2>3. NoLongerTemporary(q)'
        BY <1>1, <2>1 DEF IInv, NoLongerTemporary
    <2>. QED
        BY <2>2, <2>3
<1>4. NeverTorn'
    BY <1>1 DEF IInv, NeverTorn
<1>5. PublishesOwnValue'
    BY <1>1 DEF IInv, PublishesOwnValue, TmpOf
<1>. QED
    BY <1>2, <1>3, <1>4, <1>5

\* A loss of power ruins bytes; it does not leave an unfinished file behind a link.
LEMMA LosePowerStep ==
    ASSUME IInv, LosePower
    PROVE  /\ OneLink'
           /\ \A q \in Procs : OwnInode(q)' /\ NoLongerTemporary(q)'
           /\ NeverTorn'
           /\ PublishesOwnValue'
<1>1. /\ UNCHANGED <<blob, tmp>>
      /\ \A q \in Procs : pc'[q] = "idle"
      /\ \A i \in Inodes : data'[i] \in {data[i], Lost}
    BY DEF LosePower
<1>2. OneLink'
    BY <1>1 DEF IInv, OneLink
<1>3. \A q \in Procs : OwnInode(q)' /\ NoLongerTemporary(q)'
    BY <1>1 DEF OwnInode, NoLongerTemporary
<1>4. NeverTorn'
    BY <1>1, SentinelsAreNoValues DEF IInv, TypeOK, NeverTorn
<1>5. PublishesOwnValue'
    BY <1>1 DEF PublishesOwnValue
<1>. QED
    BY <1>2, <1>3, <1>4, <1>5

LEMMA IInvStep == IInv /\ [Next]_vars => IInv'
<1>. SUFFICES ASSUME IInv, [Next]_vars PROVE IInv'
    OBVIOUS
<1>1. TypeOK'
    BY NextType DEF IInv
<1>. SUFFICES /\ OneLink'
              /\ \A q \in Procs : OwnInode(q)' /\ NoLongerTemporary(q)'
              /\ NeverTorn'
              /\ PublishesOwnValue'
    BY <1>1 DEF IInv
<1>2. CASE LosePower
    BY <1>2, LosePowerStep
<1>3. ASSUME NEW p \in Procs, Step(p)
      PROVE  /\ OneLink'
             /\ \A q \in Procs : OwnInode(q)' /\ NoLongerTemporary(q)'
             /\ NeverTorn'
             /\ PublishesOwnValue'
    <2>1. CASE Passive(p)
        BY <2>1, PassiveStep
    <2>2. CASE OpenBlob(p)
        BY <2>2, OpenBlobStep
    <2>3. CASE CreateTmp(p)
        BY <2>3, CreateTmpStep
    <2>4. CASE FillTmp(p)
        BY <2>4, FillTmpStep
    <2>5. CASE RenameTmp(p)
        BY <2>5, RenameTmpStep
    <2>6. CASE \E n \in Names : Unlink(p, n)
        BY <2>6, UnlinkStep
    <2>. QED
        BY <1>3, <2>1, <2>2, <2>3, <2>4, <2>5, <2>6 DEF Step, Passive
<1>4. CASE UNCHANGED vars
    BY <1>4 DEF vars, IInv, OneLink, OwnInode, NoLongerTemporary, NeverTorn,
                PublishesOwnValue, TmpOf
<1>. QED
    BY <1>2, <1>3, <1>4 DEF Next

\* The inductive invariant: an inode is linked once, filled by its owner only, and
\* never filled again once it is published or open to a reader.
THEOREM BlobInvariance == Spec => []IInv
BY IInvInit, IInvStep, PTL DEF Spec

\* No reader of a cache file deserializes what somebody is still writing, whoever
\* writes, cleans or dies when.
THEOREM ReadersSeeWholeFiles == Spec => []NeverTorn
<1>1. IInv => NeverTorn
    BY DEF IInv
<1>. QED
    BY <1>1, BlobInvariance, PTL

\* A rename publishes the value its own process serialized.
THEOREM WritersPublishTheirOwn == Spec => []PublishesOwnValue
<1>1. IInv => PublishesOwnValue
    BY DEF IInv
<1>. QED
    BY <1>1, BlobInvariance, PTL

-----------------------------------------------------------------------------
(* The register *)

\* The value of the register, and what each process has read of it.
Held == IF blob = None THEN None ELSE Decode(data[blob])
SeenBy == [p \in Procs |-> IF pc[p] = "reading" THEN Decode(data[fd[p]]) ELSE got[p]]

LEMMA RegisterVars ==
    /\ Register!vars = <<Held, SeenBy>>
    /\ Register!vars' = <<Held', SeenBy'>>
BY DEF Register!vars, Held, SeenBy

LEMMA RegisterInit == Init => Register!Init
BY DEF Init, Register!Init

\* A step that leaves the register and every reader's value alone is a stutter.
LEMMA PassiveRefines ==
    ASSUME IInv, NEW p \in Procs, Passive(p), ~Crash(p)
    PROVE  UNCHANGED <<Held, SeenBy>>
<1>0. TypeOK
    BY DEF IInv
<1>1. /\ UNCHANGED <<blob, tmp, data>>
      /\ pc'[p] \notin {"reading", "writing", "rename"}
      /\ \A q \in Procs \ {p} : pc'[q] = pc[q] /\ fd'[q] = fd[q]
    BY <1>0, PassiveEffect
<1>2. \A q \in Procs \ {p} : got'[q] = got[q]
    BY <1>0 DEF Passive, ReadBlob, BeginWrite, MakeDir, WriteFails, BeginClean,
                ScanDir, EndClean, Crash, TypeOK
<1>3. got'[p] = IF pc[p] = "reading" THEN Decode(data[fd[p]]) ELSE got[p]
    BY <1>0 DEF Passive, ReadBlob, BeginWrite, MakeDir, WriteFails, BeginClean,
                ScanDir, EndClean, Crash, TypeOK
<1>. QED
    BY <1>1, <1>2, <1>3 DEF Held, SeenBy

\* Opening the blob is the instant of a read.
LEMMA OpenBlobRefines ==
    ASSUME IInv, NEW p \in Procs, OpenBlob(p)
    PROVE  Register!Read(p)
<1>1. Held' = Held
    BY DEF OpenBlob, Held
<1>2. SeenBy' = [SeenBy EXCEPT ![p] = Held]
    <2>1. CASE blob = None
        BY <2>1 DEF OpenBlob, SeenBy, Held, IInv, TypeOK
    <2>2. CASE blob # None
        BY <2>2 DEF OpenBlob, SeenBy, Held, IInv, TypeOK, Goto
    <2>. QED
        BY <2>1, <2>2
<1>. QED
    BY <1>1, <1>2 DEF Register!Read, Held, SeenBy

\* Creating and filling a temporary file is invisible.
LEMMA CreateTmpRefines ==
    ASSUME IInv, NEW p \in Procs, CreateTmp(p)
    PROVE  UNCHANGED <<Held, SeenBy>>
<1>1. /\ fd'[p] \in Inodes
      /\ fd'[p] # blob
      /\ \A q \in Procs \ {p} : fd[q] # fd'[p]
      /\ data' = [data EXCEPT ![fd'[p]] = Torn]
      /\ fd' = [fd EXCEPT ![p] = fd'[p]]
    BY CreateTmpEffect
<1>2. pc[p] = "create" /\ pc' = [pc EXCEPT ![p] = "writing"] /\ UNCHANGED <<blob, got>>
    BY DEF CreateTmp, Goto
<1>3. Held' = Held
    BY <1>1, <1>2 DEF Held, IInv, TypeOK
<1>4. ASSUME NEW q \in Procs
      PROVE  /\ pc'[q] = "reading" <=> pc[q] = "reading"
             /\ pc[q] = "reading" => data'[fd'[q]] = data[fd[q]]
    <2>1. CASE q = p
        BY <1>2, <2>1 DEF IInv, TypeOK
    <2>2. CASE q # p
        <3>1. pc'[q] = pc[q] /\ fd'[q] = fd[q]
            BY <1>1, <1>2, <2>2 DEF IInv, TypeOK
        <3>2. pc[q] = "reading" => fd[q] \in Inodes
            BY DEF IInv, TypeOK
        <3>. QED
            BY <1>1, <2>2, <3>1, <3>2 DEF IInv, TypeOK
    <2>. QED
        BY <2>1, <2>2
<1>5. SeenBy' = SeenBy
    BY <1>2, <1>4 DEF SeenBy
<1>. QED
    BY <1>3, <1>5

LEMMA FillTmpRefines ==
    ASSUME IInv, NEW p \in Procs, FillTmp(p)
    PROVE  UNCHANGED <<Held, SeenBy>>
<1>. DEFINE i == fd[p]
<1>1. /\ i \in Inodes /\ i # blob
      /\ \A q \in Procs \ {p} : fd[q] # i
      /\ UNCHANGED <<blob, got>>
      /\ \A j \in Inodes \ {i} : data'[j] = data[j]
      /\ pc[p] = "writing" /\ pc'[p] = "rename"
      /\ \A q \in Procs \ {p} : pc'[q] = pc[q] /\ fd'[q] = fd[q]
    BY DEF IInv, TypeOK, OwnInode, FillTmp, Goto
<1>. HIDE DEF i
<1>2. Held' = Held
    BY <1>1 DEF Held, IInv, TypeOK
<1>3. ASSUME NEW q \in Procs
      PROVE  /\ pc'[q] = "reading" <=> pc[q] = "reading"
             /\ pc[q] = "reading" => data'[fd'[q]] = data[fd[q]]
    <2>1. CASE q = p
        BY <1>1, <2>1
    <2>2. CASE q # p
        BY <1>1, <2>2 DEF IInv, TypeOK
    <2>. QED
        BY <2>1, <2>2
<1>4. SeenBy' = SeenBy
    BY <1>1, <1>3 DEF SeenBy
<1>. QED
    BY <1>2, <1>4

\* Renaming is the instant of a write.
LEMMA RenameTmpRefines ==
    ASSUME IInv, NEW p \in Procs, RenameTmp(p)
    PROVE  \E v \in Values : Register!Put(v)
<1>1. /\ pc[p] = "rename" /\ blob' = tmp[p] /\ tmp[p] \in Inodes
      /\ data[tmp[p]] = arg[p] /\ arg[p] \in Values
      /\ UNCHANGED <<data, fd, got>>
      /\ pc' = [pc EXCEPT ![p] = "idle"]
    BY DEF IInv, TypeOK, PublishesOwnValue, RenameTmp, TmpOf, Goto
<1>2. Held' = arg[p]
    BY <1>1, SentinelsAreNoValues DEF Held, Decode
<1>3. SeenBy' = SeenBy
    BY <1>1 DEF SeenBy, IInv, TypeOK
<1>. QED
    BY <1>1, <1>2, <1>3 DEF Register!Put, Held, SeenBy

\* A clean takes effect when it removes the blob.
LEMMA UnlinkRefines ==
    ASSUME IInv, NEW p \in Procs, NEW n \in Names, Unlink(p, n)
    PROVE  Register!Clear \/ UNCHANGED <<Held, SeenBy>>
<1>1. /\ UNCHANGED <<data, pc, fd, got>>
      /\ blob' = IF n = Blob THEN None ELSE blob
    BY DEF Unlink
<1>2. SeenBy' = SeenBy
    BY <1>1 DEF SeenBy
<1>3. CASE n = Blob
    BY <1>1, <1>2, <1>3 DEF Register!Clear, Held, SeenBy
<1>4. CASE n # Blob
    BY <1>1, <1>2, <1>4 DEF Held
<1>. QED
    BY <1>3, <1>4

LEMMA CrashRefines ==
    ASSUME IInv, NEW p \in Procs, Crash(p)
    PROVE  Register!Forget(p)
<1>1. Held' = Held
    BY DEF Crash, Held
<1>2. SeenBy' = [SeenBy EXCEPT ![p] = None]
    BY DEF Crash, Goto, SeenBy, IInv, TypeOK
<1>. QED
    BY <1>1, <1>2 DEF Register!Forget, Held, SeenBy

LEMMA LosePowerRefines ==
    ASSUME IInv, LosePower
    PROVE  Register!LosePower
<1>1. SeenBy' = [p \in Procs |-> None]
    BY DEF LosePower, SeenBy
<1>2. Held' \in {Held, None}
    <2>1. CASE blob = None
        BY <2>1 DEF LosePower, Held
    <2>2. CASE blob # None
        <3>1. blob \in Inodes /\ blob' = blob /\ data'[blob] \in {data[blob], Lost}
            BY <2>2 DEF LosePower, IInv, TypeOK
        <3>. QED
            BY <2>2, <3>1, SentinelsAreNoValues DEF Held, Decode
    <2>. QED
        BY <2>1, <2>2
<1>. QED
    BY <1>1, <1>2 DEF Register!LosePower, Held, SeenBy

LEMMA StepRefines ==
    IInv /\ [Next]_vars => [Register!Next]_(Register!vars)
<1>. SUFFICES ASSUME IInv, [Next]_vars
              PROVE  Register!Next \/ UNCHANGED <<Held, SeenBy>>
    BY RegisterVars
<1>1. CASE LosePower
    BY <1>1, LosePowerRefines DEF Register!Next
<1>2. ASSUME NEW p \in Procs, Step(p)
      PROVE  Register!Next \/ UNCHANGED <<Held, SeenBy>>
    <2>1. CASE Passive(p) /\ ~Crash(p)
        BY <2>1, PassiveRefines
    <2>2. CASE Crash(p)
        BY <2>2, CrashRefines DEF Register!Next
    <2>3. CASE OpenBlob(p)
        BY <2>3, OpenBlobRefines DEF Register!Next
    <2>4. CASE CreateTmp(p)
        BY <2>4, CreateTmpRefines
    <2>5. CASE FillTmp(p)
        BY <2>5, FillTmpRefines
    <2>6. CASE RenameTmp(p)
        BY <2>6, RenameTmpRefines DEF Register!Next
    <2>7. ASSUME NEW n \in Names, Unlink(p, n)
          PROVE  Register!Next \/ UNCHANGED <<Held, SeenBy>>
        BY <2>7, UnlinkRefines DEF Register!Next
    <2>. QED
        BY <1>2, <2>1, <2>2, <2>3, <2>4, <2>5, <2>6, <2>7 DEF Step, Passive
<1>3. CASE UNCHANGED vars
    BY <1>3 DEF vars, Held, SeenBy
<1>. QED
    BY <1>1, <1>2, <1>3 DEF Next

\* A cache file is a register with atomic reads, writes and cleans: the three
\* layers may ignore that read_bin, write_bin and clean are many system calls of
\* processes that die.
THEOREM BlobIsARegister == Spec => RefinesRegister
<1>1. Init => Register!Init
    BY RegisterInit
<1>. QED
    BY <1>1, StepRefines, BlobInvariance, PTL DEF Spec, RefinesRegister, Register!Spec

=============================================================================
