-------------------------- MODULE LedgerCacheProofs -------------------------
(***************************************************************************)
(* Theorems about LedgerCache, for any number of versions, processes and   *)
(* interpreters.  They rest on one thing only, how the tree is edited: not *)
(* at all while a query is at work, or never back.                         *)
(***************************************************************************)
EXTENDS LedgerCache, WellFoundedInduction, TLAPS

-----------------------------------------------------------------------------
(* The inductive invariant *)

\* What a query has, and what it saw of the tree.
Holds(p) ==
    /\ pc[p] = "idle" => files[p] = None /\ led[p] = None
    /\ pc[p] # "idle" => disk \in seen[p]
    /\ pc[p] \in {"diff", "index"} => files[p] = None
    /\ pc[p] \in {"graph", "open", "run", "store"} => files[p] \in Versions
    /\ files[p] # None => files[p] \in seen[p]
    /\ pc[p] \in {"diff", "index", "graph", "open", "run"} => led[p] = None
    /\ pc[p] = "store" => led[p] \in Ledgers

\* If p saw one version only, its ledger is of that version.
OfTheTree(p) == led[p] # None => \A v \in Versions : seen[p] = {v} => led[p].of = v

\* A tree that is edited between queries: a query at work sees one version, and
\* what it stores is of the version that it fingerprinted.
Quiet ==
    /\ \A p \in Procs : pc[p] \notin {"idle", "done"} => seen[p] = {disk}
    /\ blob # None => blob.led.of = blob.fingerprint

\* A tree that is never edited back: the suite ran no earlier than the fingerprint was
\* taken, so a ledger of the wrong version is stored under one that is gone for good.
Forward ==
    /\ \A p \in Procs :
          /\ files[p] # None => files[p] <= disk
          /\ pc[p] = "store" => files[p] <= led[p].of /\ led[p].of <= disk
    /\ blob # None => blob.fingerprint <= blob.led.of /\ blob.led.of <= disk

IInv ==
    /\ TypeOK
    /\ \A p \in Procs : Holds(p) /\ OfTheTree(p)
    /\ habit = "quiet" => Quiet
    /\ habit = "forward" => Forward

-----------------------------------------------------------------------------

\* The conjuncts of the invariant, for citing them one by one.
LEMMA Parts ==
    IInv => /\ TypeOK
            /\ \A p \in Procs : Holds(p) /\ OfTheTree(p)
            /\ habit \in {"quiet", "forward"}
            /\ habit = "quiet" => Quiet
            /\ habit = "forward" => Forward
BY HabitsType DEF IInv, TypeOK

LEMMA Values ==
    /\ None \notin Versions /\ None \notin Ledgers /\ None \notin Blobs /\ None \notin Queries
    /\ \A v \in Versions : v \in Nat
<1>1. \A v \in Versions : v \in Nat
    BY MaxVersionIsPositive DEF Versions
<1> QED
    BY <1>1, NoneIsNoValue DEF Ledgers, Blobs, Queries, Verbs, Modes

LEMMA NeverSmaller ==
    ASSUME NEW u \in Versions, NEW v \in Versions, NEW w \in Versions, u <= v, v <= w
    PROVE  u <= w
BY Values

LEMMA InitInv == Init => IInv
<1> SUFFICES ASSUME Init PROVE IInv
    OBVIOUS
<1>1. TypeOK
    BY DEF Init, TypeOK, Maybe
<1>2. ASSUME NEW p \in Procs PROVE Holds(p) /\ OfTheTree(p)
    BY <1>2 DEF Init, Holds, OfTheTree
<1>3. Quiet /\ Forward
    BY DEF Init, Quiet, Forward
<1> QED
    BY <1>1, <1>2, <1>3 DEF IInv

-----------------------------------------------------------------------------
(* The environment *)

LEMMA EditTreeInv == IInv /\ EditTree => IInv'
<1> SUFFICES ASSUME IInv, EditTree PROVE IInv'
    OBVIOUS
<1> USE Values
<1>1. /\ disk \in Versions /\ disk' \in Versions
      /\ seen \in [Procs -> SUBSET Versions]
      /\ UNCHANGED <<habit, blob, pc, asked, view, files, led>>
      /\ \A p \in Procs : seen'[p] = IF pc[p] = "idle" THEN {} ELSE seen[p] \cup {disk'}
    BY Parts DEF EditTree, At, TypeOK
<1>2. TypeOK'
    BY <1>1, Parts DEF EditTree, At, TypeOK
<1>3. ASSUME NEW p \in Procs PROVE Holds(p)' /\ OfTheTree(p)'
  <2>1. Holds(p) /\ OfTheTree(p)
      BY Parts
  <2>2. Holds(p)'
      BY <1>1, <2>1 DEF Holds
  <2>3. led[p] # None => disk \in seen[p] /\ pc[p] # "idle"
      BY <2>1 DEF Holds
  <2>4. ASSUME led'[p] # None, NEW v \in Versions, seen'[p] = {v} PROVE led'[p].of = v
    <3>1. disk \in seen[p] /\ seen'[p] = seen[p] \cup {disk'} /\ led'[p] = led[p]
        BY <1>1, <2>3, <2>4
    <3>2. seen[p] = {v}
        BY <2>4, <3>1
    <3> QED
        BY <2>1, <2>4, <3>1, <3>2 DEF OfTheTree
  <2>5. OfTheTree(p)'
      BY <2>4 DEF OfTheTree
  <2> QED
      BY <2>2, <2>5
<1>4. habit = "quiet" => Quiet'
    BY <1>1, Parts DEF EditTree, At, Quiet
<1>5. habit = "forward" => Forward'
  <2> SUFFICES ASSUME habit = "forward" PROVE Forward'
      OBVIOUS
  <2>1. disk <= disk' /\ Forward
    <3>1. disk \in Nat /\ disk' \in Nat /\ disk' > disk
        BY <1>1 DEF EditTree
    <3> QED
        BY <3>1, Parts
  <2>2. ASSUME NEW p \in Procs, files[p] # None PROVE files[p] <= disk'
    <3>1. files[p] \in Versions /\ files[p] <= disk
        BY <2>1, <2>2, Parts DEF Forward, TypeOK, Maybe
    <3> QED
        BY <1>1, <2>1, <3>1, NeverSmaller
  <2>3. ASSUME NEW p \in Procs, pc[p] = "store" PROVE led[p].of <= disk'
    <3>1. led[p].of \in Versions /\ led[p].of <= disk
        BY <2>1, <2>3, Parts DEF Forward, Holds, Ledgers
    <3> QED
        BY <1>1, <2>1, <3>1, NeverSmaller
  <2>4. ASSUME blob # None PROVE blob.led.of <= disk'
    <3>1. blob.led.of \in Versions /\ blob.led.of <= disk
        BY <2>1, <2>4, Parts DEF Forward, TypeOK, Maybe, Blobs, Ledgers
    <3> QED
        BY <1>1, <2>1, <3>1, NeverSmaller
  <2> QED
      BY <1>1, <2>1, <2>2, <2>3, <2>4 DEF Forward
<1> QED
    BY <1>1, <1>2, <1>3, <1>4, <1>5 DEF IInv

LEMMA CleanInv == IInv /\ Clean => IInv'
<1> SUFFICES ASSUME IInv, Clean PROVE IInv'
    OBVIOUS
<1>1. blob' = None /\ UNCHANGED <<habit, disk, pc, asked, view, files, led, seen>>
    BY DEF Clean
<1>2. TypeOK'
    BY <1>1, Parts DEF TypeOK, Maybe
<1>3. ASSUME NEW p \in Procs PROVE Holds(p)' /\ OfTheTree(p)'
    BY <1>1, <1>3, Parts DEF Holds, OfTheTree
<1>4. (Quiet => Quiet') /\ (Forward => Forward')
    BY <1>1 DEF Quiet, Forward
<1> QED
    BY <1>1, <1>2, <1>3, <1>4, Parts DEF IInv

-----------------------------------------------------------------------------
(* The queries *)

\* A step of p leaves every other query, and what the tree is, alone.
LEMMA OneQuery ==
    ASSUME IInv, NEW p \in Procs, UNCHANGED <<habit, disk>>, TypeOK',
           \A q \in Procs \ {p} :
               /\ pc'[q] = pc[q] /\ files'[q] = files[q]
               /\ led'[q] = led[q] /\ seen'[q] = seen[q],
           Holds(p)', OfTheTree(p)',
           habit = "quiet" =>
               /\ pc'[p] \notin {"idle", "done"} => seen'[p] = {disk}
               /\ blob' # None => blob'.led.of = blob'.fingerprint,
           habit = "forward" =>
               /\ files'[p] # None => files'[p] <= disk
               /\ pc'[p] = "store" => files'[p] <= led'[p].of /\ led'[p].of <= disk
               /\ blob' # None => blob'.fingerprint <= blob'.led.of /\ blob'.led.of <= disk
    PROVE  IInv'
<1>1. ASSUME NEW q \in Procs PROVE Holds(q)' /\ OfTheTree(q)'
  <2>1. CASE q = p
      BY <2>1
  <2>2. CASE q # p
      BY <2>2, Parts DEF Holds, OfTheTree
  <2> QED
      BY <2>1, <2>2
<1>2. habit = "quiet" => Quiet'
    BY Parts DEF Quiet
<1>3. habit = "forward" => Forward'
    BY Parts DEF Forward
<1> QED
    BY <1>1, <1>2, <1>3 DEF IInv

\* A step that leaves p its files, and the blob as it is.
LEMMA Advance ==
    ASSUME IInv, NEW p \in Procs,
           NEW here, NEW there,
           \/ here = "diff" /\ there = "index"
           \/ here = "graph" /\ there = "open"
           \/ here = "open" /\ there \in {"run", "done"}
           \/ here \in {"run", "store"} /\ there = "done",
           pc[p] = here, pc' = [pc EXCEPT ![p] = there],
           view' \in [Procs -> Maybe(Versions)],
           UNCHANGED <<habit, disk, blob, asked, files, led, seen>>
    PROVE  IInv'
<1> USE Values
<1>1. pc'[p] = there /\ \A q \in Procs \ {p} : pc'[q] = pc[q]
    BY Parts DEF TypeOK
<1>2. asked[p] # None
    BY Parts DEF TypeOK
<1>3. TypeOK'
    BY <1>1, <1>2, Parts DEF TypeOK
<1>4. Holds(p)' /\ OfTheTree(p)'
    BY <1>1, Parts DEF Holds, OfTheTree
<1>5. habit = "quiet" => seen[p] = {disk} /\ (blob # None => blob.led.of = blob.fingerprint)
    BY Parts DEF Quiet
<1>6. habit = "forward" =>
          /\ files[p] # None => files[p] <= disk
          /\ blob # None => blob.fingerprint <= blob.led.of /\ blob.led.of <= disk
    BY Parts DEF Forward
<1> QED
    BY <1>1, <1>3, <1>4, <1>5, <1>6, OneQuery

LEMMA AdvanceInv ==
    ASSUME IInv, NEW p \in Procs,
           TakeDiff(p) \/ Closure(p) \/ Skip(p) \/ Miss(p) \/ RunFails(p) \/ StoreFails(p)
    PROVE  IInv'
<1> USE DEF At, Goto
<1>0. view \in [Procs -> Maybe(Versions)] /\ disk \in Versions
    BY Parts DEF TypeOK
<1>1. view' \in [Procs -> Maybe(Versions)]
    BY <1>0 DEF TakeDiff, Closure, Skip, Miss, RunFails, StoreFails, Maybe
<1>2. CASE TakeDiff(p)
    BY <1>1, <1>2, Advance DEF TakeDiff
<1>3. CASE Closure(p)
    BY <1>1, <1>3, Advance DEF Closure
<1>4. CASE Skip(p)
    BY <1>1, <1>4, Advance DEF Skip
<1>5. CASE Miss(p)
    BY <1>1, <1>5, Advance DEF Miss
<1>6. CASE RunFails(p)
    BY <1>1, <1>6, Advance DEF RunFails
<1>7. CASE StoreFails(p)
    BY <1>1, <1>7, Advance DEF StoreFails
<1> QED
    BY <1>2, <1>3, <1>4, <1>5, <1>6, <1>7

\* A query begins, and is over.
LEMMA StartInv == ASSUME IInv, NEW p \in Procs, Start(p) PROVE IInv'
<1> USE Values
<1>1. PICK there \in {"diff", "index"}, q \in Queries :
          /\ pc[p] = "idle" /\ pc' = [pc EXCEPT ![p] = there]
          /\ asked' = [asked EXCEPT ![p] = q]
          /\ seen' = [seen EXCEPT ![p] = {disk}]
          /\ UNCHANGED <<habit, disk, blob, view, files, led>>
    BY DEF Start, At, Goto
<1>2. TypeOK'
    BY <1>1, Parts DEF TypeOK, Maybe
<1>3. /\ pc'[p] = there /\ seen'[p] = {disk} /\ files'[p] = None /\ led'[p] = None
      /\ \A r \in Procs \ {p} : pc'[r] = pc[r] /\ seen'[r] = seen[r]
    BY <1>1, Parts DEF TypeOK, Holds
<1>4. Holds(p)' /\ OfTheTree(p)'
    BY <1>1, <1>3 DEF Holds, OfTheTree
<1>5. /\ habit = "quiet" /\ blob # None => blob.led.of = blob.fingerprint
      /\ habit = "forward" /\ blob # None =>
            blob.fingerprint <= blob.led.of /\ blob.led.of <= disk
    BY Parts DEF Quiet, Forward
<1> QED
    BY <1>1, <1>2, <1>3, <1>4, <1>5, OneQuery

LEMMA GoneInv == ASSUME IInv, NEW p \in Procs, Gone(p) PROVE IInv'
<1> USE Values
<1>1. /\ pc' = [pc EXCEPT ![p] = "idle"] /\ asked' = [asked EXCEPT ![p] = None]
      /\ view' = [view EXCEPT ![p] = None] /\ files' = [files EXCEPT ![p] = None]
      /\ led' = [led EXCEPT ![p] = None] /\ seen' = [seen EXCEPT ![p] = {}]
      /\ UNCHANGED <<habit, disk, blob>>
    BY DEF Gone, Goto
<1>2. TypeOK'
    BY <1>1, Parts DEF TypeOK, Maybe
<1>3. /\ pc'[p] = "idle" /\ files'[p] = None /\ led'[p] = None
      /\ \A r \in Procs \ {p} :
            pc'[r] = pc[r] /\ files'[r] = files[r] /\ led'[r] = led[r] /\ seen'[r] = seen[r]
    BY <1>1, Parts DEF TypeOK
<1>4. Holds(p)' /\ OfTheTree(p)'
    BY <1>3 DEF Holds, OfTheTree
<1>5. /\ habit = "quiet" /\ blob # None => blob.led.of = blob.fingerprint
      /\ habit = "forward" /\ blob # None =>
            blob.fingerprint <= blob.led.of /\ blob.led.of <= disk
    BY Parts DEF Quiet, Forward
<1> QED
    BY <1>1, <1>2, <1>3, <1>4, <1>5, OneQuery

LEMMA IndexInv == ASSUME IInv, NEW p \in Procs, Index(p) PROVE IInv'
<1> USE Values
<1>1. PICK there \in {"graph", "open"} :
          /\ pc[p] = "index" /\ pc' = [pc EXCEPT ![p] = there]
          /\ files' = [files EXCEPT ![p] = disk]
          /\ UNCHANGED <<habit, disk, blob, asked, view, led, seen>>
    BY DEF Index, At, Goto
<1>2. disk \in Versions /\ disk <= disk
    BY Parts DEF TypeOK
<1>3. TypeOK'
    BY <1>1, <1>2, Parts DEF TypeOK, Maybe
<1>4. /\ pc'[p] = there /\ files'[p] = disk /\ led'[p] = None /\ disk \in seen[p]
      /\ \A r \in Procs \ {p} : pc'[r] = pc[r] /\ files'[r] = files[r]
    BY <1>1, Parts DEF TypeOK, Holds
<1>5. Holds(p)' /\ OfTheTree(p)'
    BY <1>1, <1>2, <1>4 DEF Holds, OfTheTree
<1>6. /\ habit = "quiet" =>
            seen[p] = {disk} /\ (blob # None => blob.led.of = blob.fingerprint)
      /\ habit = "forward" /\ blob # None =>
            blob.fingerprint <= blob.led.of /\ blob.led.of <= disk
    BY <1>1, Parts DEF Quiet, Forward
<1> QED
    BY <1>1, <1>2, <1>3, <1>4, <1>5, <1>6, OneQuery

\* What is served under the fingerprint of a tree that stood still is of that tree.
LEMMA HitInv == ASSUME IInv, NEW p \in Procs, Hit(p) PROVE IInv'
<1> USE Values
<1>1. /\ pc[p] = "open" /\ pc' = [pc EXCEPT ![p] = "done"]
      /\ blob # None /\ blob.fingerprint = files[p]
      /\ led' = [led EXCEPT ![p] = blob.led]
      /\ UNCHANGED <<habit, disk, blob, asked, view, files, seen>>
    BY DEF Hit, Serves, At, Goto
<1>2. /\ blob \in Blobs /\ blob.led \in Ledgers /\ disk \in Versions
      /\ blob.fingerprint \in Versions /\ blob.led.of \in Versions
    BY <1>1, Parts DEF TypeOK, Maybe, Blobs, Ledgers
<1>3. TypeOK'
    BY <1>1, <1>2, Parts DEF TypeOK, Maybe
<1>4. /\ pc'[p] = "done" /\ led'[p] = blob.led /\ files[p] \in seen[p] /\ disk \in seen[p]
      /\ \A r \in Procs \ {p} : pc'[r] = pc[r] /\ led'[r] = led[r]
    BY <1>1, <1>2, Parts DEF TypeOK, Holds
<1>5. Holds(p)'
    BY <1>1, <1>4 DEF Holds
<1>6. /\ habit = "quiet" => blob.led.of = blob.fingerprint
      /\ habit = "forward" => /\ files[p] <= disk
                              /\ blob.fingerprint <= blob.led.of /\ blob.led.of <= disk
    BY <1>1, <1>2, Parts DEF Quiet, Forward
<1>7. ASSUME NEW v \in Versions, seen[p] = {v} PROVE blob.led.of = v
  <2>1. blob.fingerprint = v /\ disk = v
      BY <1>1, <1>4, <1>7
  <2>2. CASE habit = "quiet"
      BY <1>6, <2>1, <2>2
  <2>3. CASE habit = "forward"
      BY <1>2, <1>6, <2>1, <2>3
  <2> QED
      BY <2>2, <2>3, Parts
<1>8. OfTheTree(p)'
    BY <1>1, <1>4, <1>7 DEF OfTheTree
<1> QED
    BY <1>1, <1>3, <1>4, <1>5, <1>6, <1>8, OneQuery

LEMMA RunSuiteInv == ASSUME IInv, NEW p \in Procs, RunSuite(p) PROVE IInv'
<1> USE Values
<1>1. PICK there \in {"store", "done"} :
          /\ pc[p] = "run" /\ pc' = [pc EXCEPT ![p] = there]
          /\ led' = [led EXCEPT ![p] = [of |-> disk, by |-> asked[p].python]]
          /\ UNCHANGED <<habit, disk, blob, asked, view, files, seen>>
    BY DEF RunSuite, At, Goto
<1> DEFINE observed == [of |-> disk, by |-> asked[p].python]
<1>2. disk \in Versions /\ disk <= disk /\ observed \in Ledgers /\ observed.of = disk
  <2>1. asked[p] \in Queries /\ disk \in Versions
      BY <1>1, Parts DEF TypeOK, Maybe
  <2> QED
      BY <2>1 DEF Queries, Ledgers
<1>3. led' = [led EXCEPT ![p] = observed]
    BY <1>1
<1> HIDE DEF observed
<1>4. TypeOK'
    BY <1>1, <1>2, <1>3, Parts DEF TypeOK, Maybe
<1>5. /\ pc'[p] = there /\ led'[p] = observed
      /\ files[p] \in Versions /\ files[p] \in seen[p] /\ disk \in seen[p]
      /\ \A r \in Procs \ {p} : pc'[r] = pc[r] /\ led'[r] = led[r]
    BY <1>1, <1>3, Parts DEF TypeOK, Holds
<1>6. Holds(p)' /\ OfTheTree(p)'
    BY <1>1, <1>2, <1>5 DEF Holds, OfTheTree
<1>7. /\ habit = "quiet" =>
            seen[p] = {disk} /\ (blob # None => blob.led.of = blob.fingerprint)
      /\ habit = "forward" =>
            /\ files[p] <= disk
            /\ blob # None => blob.fingerprint <= blob.led.of /\ blob.led.of <= disk
    BY <1>1, <1>5, Parts DEF Quiet, Forward
<1> QED
    BY <1>1, <1>2, <1>4, <1>5, <1>6, <1>7, OneQuery

LEMMA StoreInv == ASSUME IInv, NEW p \in Procs, Store(p) PROVE IInv'
<1> USE Values
<1>1. /\ pc[p] = "store" /\ pc' = [pc EXCEPT ![p] = "done"]
      /\ blob' = [fingerprint |-> files[p], led |-> led[p]]
      /\ UNCHANGED <<habit, disk, asked, view, files, led, seen>>
    BY DEF Store, At, Goto
<1>2. /\ files[p] \in Versions /\ led[p] \in Ledgers /\ led[p].of \in Versions
      /\ files[p] \in seen[p] /\ disk \in seen[p] /\ disk \in Versions
    BY <1>1, Parts DEF Holds, Ledgers, TypeOK
<1>3. blob' \in Blobs /\ blob'.fingerprint = files[p] /\ blob'.led = led[p]
    BY <1>1, <1>2 DEF Blobs
<1>4. TypeOK'
    BY <1>1, <1>3, Parts DEF TypeOK, Maybe
<1>5. pc'[p] = "done" /\ \A r \in Procs \ {p} : pc'[r] = pc[r]
    BY <1>1, Parts DEF TypeOK
<1>6. Holds(p)' /\ OfTheTree(p)'
    BY <1>1, <1>5, Parts DEF Holds, OfTheTree
<1>7. habit = "quiet" => files[p] = led[p].of
  <2> SUFFICES ASSUME habit = "quiet" PROVE files[p] = led[p].of
      OBVIOUS
  <2>1. seen[p] = {disk}
      BY <1>1, Parts DEF Quiet
  <2> QED
      BY <1>2, <2>1, Parts DEF OfTheTree
<1>8. habit = "forward" => files[p] <= led[p].of /\ led[p].of <= disk /\ files[p] <= disk
    BY <1>1, <1>2, Parts DEF Forward
<1> QED
    BY <1>1, <1>3, <1>4, <1>5, <1>6, <1>7, <1>8, OneQuery

-----------------------------------------------------------------------------
(* The theorems *)

LEMMA NextInv == IInv /\ [Next]_vars => IInv'
<1> SUFFICES ASSUME IInv, [Next]_vars PROVE IInv'
    OBVIOUS
<1>1. CASE EditTree \/ Clean
    BY <1>1, EditTreeInv, CleanInv
<1>2. ASSUME NEW p \in Procs, Start(p) \/ Query(p) \/ Gone(p) PROVE IInv'
    BY <1>2, StartInv, GoneInv, AdvanceInv, IndexInv, HitInv, RunSuiteInv, StoreInv DEF Query
<1>3. CASE UNCHANGED vars
  <2>1. TypeOK'
      BY <1>3, Parts DEF TypeOK, vars
  <2>2. ASSUME NEW p \in Procs PROVE Holds(p)' /\ OfTheTree(p)'
      BY <1>3, <2>2, Parts DEF Holds, OfTheTree, vars
  <2>3. (Quiet => Quiet') /\ (Forward => Forward')
      BY <1>3 DEF Quiet, Forward, vars
  <2> QED
      BY <1>3, <2>1, <2>2, <2>3, Parts DEF IInv, vars
<1> QED
    BY <1>1, <1>2, <1>3 DEF Next

\* The inductive invariant: between queries at work a stored ledger is of the tree it is
\* keyed by, or the tree can no longer become what it is keyed by.
THEOREM LedgerInvariance == Spec => []IInv
<1> QED
    BY InitInv, NextInv, PTL DEF Spec

\* Every reachable state is well typed.
THEOREM LedgerTypeCorrect == Spec => []TypeOK
<1>1. IInv => TypeOK
    BY DEF IInv
<1> QED
    BY <1>1, LedgerInvariance, PTL

\* For any number of versions and of processes: a query that saw one version of the tree
\* answers from a ledger of that version, its own or another's (cache.rs 435-490).
THEOREM LedgersAreOfTheTree == Spec => []LedgerIsOfTheTree
<1>1. IInv => LedgerIsOfTheTree
    BY DEF IInv, OfTheTree, LedgerIsOfTheTree, Undisturbed
<1> QED
    BY <1>1, LedgerInvariance, PTL


-----------------------------------------------------------------------------
(* The answers *)

\* What a query that has answered read of the tree, beside the ledger.
HasRead(p) ==
    /\ pc[p] = "idle" => view[p] = None
    /\ view[p] # None => view[p] \in seen[p]
    /\ pc[p] = "diff" => asked[p].verb = "coverage"
    /\ pc[p] = "done" => files[p] # None
    /\ pc[p] \notin {"idle", "diff"} /\ asked[p].verb = "coverage" => view[p] # None
    /\ pc[p] \notin {"idle", "index", "graph"} /\ asked[p].verb = "effects of symbol" => view[p] # None

LEMMA InitRead == Init => \A p \in Procs : HasRead(p)
BY DEF Init, HasRead

LEMMA NextRead ==
    ASSUME IInv, \A p \in Procs : HasRead(p), [Next]_vars
    PROVE  \A p \in Procs : HasRead(p)'
<1> USE DEF At, Goto
<1>0. TypeOK /\ \A p \in Procs : Holds(p)
    BY Parts
<1>1. CASE EditTree \/ Clean
  <2> SUFFICES ASSUME NEW p \in Procs PROVE HasRead(p)'
      OBVIOUS
  <2>1. UNCHANGED <<pc, asked, view, files>> /\ (pc[p] # "idle" => seen[p] \subseteq seen'[p])
      BY <1>0, <1>1 DEF EditTree, Clean, TypeOK
  <2> QED
      BY <2>1 DEF HasRead
<1>2. ASSUME NEW p \in Procs, Start(p) \/ Query(p) \/ Gone(p),
             NEW q \in Procs, q # p
      PROVE  HasRead(q)'
    BY <1>0, <1>2 DEF Start, Query, Gone, TakeDiff, Index, Closure, Skip, Hit, Miss, RunSuite,
       RunFails, Store, StoreFails, HasRead, TypeOK
<1>3. ASSUME NEW p \in Procs, Start(p) \/ Gone(p) PROVE HasRead(p)'
    BY <1>0, <1>3, Values DEF Start, Gone, HasRead, TypeOK, Queries, Verbs
<1>4. ASSUME NEW p \in Procs, Query(p) PROVE HasRead(p)'
  <2>1. disk \in seen[p] /\ disk # None
      BY <1>0, <1>4, Values DEF Holds, TypeOK, Query, TakeDiff, Index, Closure, Skip, Hit, Miss, RunSuite,
         RunFails, Store, StoreFails
  <2>2. CASE TakeDiff(p)
      BY <1>0, <2>1, <2>2 DEF TakeDiff, HasRead, TypeOK
  <2>4. CASE Index(p)
      BY <1>0, <2>1, <2>4 DEF Index, HasRead, TypeOK
  <2>5. CASE Closure(p)
      BY <1>0, <2>1, <2>5 DEF Closure, HasRead, Holds, TypeOK
  <2>3. CASE Skip(p) \/ Hit(p) \/ Miss(p) \/ RunSuite(p) \/ RunFails(p) \/ Store(p) \/ StoreFails(p)
    <3>1. PICK there \in {"run", "store", "done"} :
              /\ pc[p] \in {"open", "run", "store"} /\ pc' = [pc EXCEPT ![p] = there]
              /\ UNCHANGED <<asked, view, files, seen>>
        BY <2>3 DEF Skip, Hit, Miss, RunSuite, RunFails, Store, StoreFails
    <3>2. pc'[p] = there /\ files[p] # None
        BY <1>0, <3>1, Values DEF TypeOK, Holds
    <3> QED
        BY <1>0, <3>1, <3>2 DEF HasRead
  <2> QED
      BY <1>4, <2>2, <2>3, <2>4, <2>5 DEF Query
<1>5. CASE UNCHANGED vars
    BY <1>5 DEF vars, HasRead
<1> QED
    BY <1>1, <1>2, <1>3, <1>4, <1>5 DEF Next

\* What an undisturbed query answers from.
LEMMA AnswersFrom ==
    ASSUME IInv, NEW p \in Procs, HasRead(p), NEW v \in Versions, Undisturbed(p, v)
    PROVE  /\ asked[p] \in Queries
           /\ files[p] = v
           /\ asked[p].verb # "effects of all" => view[p] = v
           /\ led[p] # None => led[p].of = v
<1>1. pc[p] = "done" /\ seen[p] = {v}
    BY DEF Undisturbed, At
<1>2. TypeOK /\ Holds(p) /\ OfTheTree(p)
    BY Parts
<1>3. asked[p] \in Queries
    BY <1>1, <1>2 DEF TypeOK, Maybe
<1>4. asked[p].verb \in {"coverage", "effects of all", "effects of symbol"}
    BY <1>3 DEF Queries, Verbs
<1> QED
    BY <1>1, <1>2, <1>3, <1>4 DEF HasRead, Holds, OfTheTree

\* The join of the static and the observed effects.
LEMMA Fused ==
    ASSUME NEW sites, NEW observed, NEW scope, NEW r \in Fuse(sites, observed, scope)
    PROVE  \/ /\ r.site \in Kept(sites, scope) /\ r.key = Key(r.site)
              /\ r.confidence = Confidence(r.site, observed)
           \/ r.key \in observed /\ r.confidence = "observed"
BY DEF Fuse, DynamicOnly

LEMMA FusesAll ==
    ASSUME NEW sites, NEW observed, NEW scope
    PROVE  /\ \A s \in Kept(sites, scope) :
                 \E r \in Fuse(sites, observed, scope) :
                     r.site = s /\ r.key = Key(s) /\ r.confidence = Confidence(s, observed)
           /\ \A k \in observed : scope = None \/ k[1] \in scope.reachable =>
                 \E r \in Fuse(sites, observed, scope) :
                     r.key = k /\ r.confidence \in {"confirmed", "observed"}
<1> DEFINE kept == Kept(sites, scope)
           Row(s) == [key |-> Key(s), site |-> s, confidence |-> Confidence(s, observed)]
           Extra(k) == [key |-> k, site |-> None, confidence |-> "observed"]
<1>1. Fuse(sites, observed, scope) =
          {Row(s) : s \in kept} \cup {Extra(k) : k \in DynamicOnly(kept, observed, scope)}
    BY DEF Fuse
<1>2. ASSUME NEW s \in kept
      PROVE  \E r \in Fuse(sites, observed, scope) :
                 r.site = s /\ r.key = Key(s) /\ r.confidence = Confidence(s, observed)
  <2>1. Row(s) \in Fuse(sites, observed, scope)
      BY <1>1
  <2> QED
      BY <2>1
<1>3. ASSUME NEW k \in observed, scope = None \/ k[1] \in scope.reachable
      PROVE  \E r \in Fuse(sites, observed, scope) :
                 r.key = k /\ r.confidence \in {"confirmed", "observed"}
  <2>1. CASE \E s \in kept : Key(s) = k
    <3>1. PICK s \in kept : Key(s) = k
        BY <2>1
    <3>2. Confidence(s, observed) = "confirmed"
        BY <1>3, <3>1 DEF Confidence
    <3> QED
        BY <1>2, <3>1, <3>2
  <2>2. CASE ~ \E s \in kept : Key(s) = k
    <3>1. k \in DynamicOnly(kept, observed, scope)
        BY <1>3, <2>2 DEF DynamicOnly
    <3>2. Extra(k) \in Fuse(sites, observed, scope)
        BY <1>1, <3>1
    <3> QED
        BY <3>2
  <2> QED
      BY <2>1, <2>2
<1> QED
    BY <1>2, <1>3

\* The labels of effects are true.
LEMMA EffectsTrue ==
    ASSUME IInv, \A p \in Procs : HasRead(p)
    PROVE  EffectsAreTrue
<1> SUFFICES ASSUME NEW p \in Procs, NEW v \in Versions, Undisturbed(p, v),
                    asked[p].verb # "coverage"
             PROVE
                LET all == asked[p].verb = "effects of all"
                    performed == IF Observes(led[p]) THEN Performed[v] ELSE {}
                    About(o) == all \/ o \in Scope[v].reachable
                    Rows(c) == {r \in Answer(p) : r.confidence = c}
                IN  /\ \A s \in Sites[v] :
                          (IF s.import_time THEN all \/ s.file \in Scope[v].in_play
                                            ELSE About(s.owner)) =>
                             \E r \in Answer(p) : r.site = s
                    /\ \A k \in performed : About(k[1]) =>
                          \E r \in Rows("confirmed") \cup Rows("observed") : r.key = k
                    /\ \A r \in Rows("confirmed") \cup Rows("observed") : r.key \in performed
                    /\ \A r \in Rows("predicted") \cup Rows("unverifiable") :
                          /\ r.key \notin performed
                          /\ r.site.cat \in {"fs", "network", "subprocess", "db"}
                                <=> r.confidence = "predicted"
    BY DEF EffectsAreTrue
<1> DEFINE all == asked[p].verb = "effects of all"
           scope == IF all THEN None ELSE Scope[v]
           performed == IF Observes(led[p]) THEN Performed[v] ELSE {}
<1>1. /\ asked[p].verb \in {"effects of all", "effects of symbol"}
      /\ files[p] = v /\ (~all => view[p] = v) /\ (led[p] # None => led[p].of = v)
    BY AnswersFrom DEF Queries, Verbs
<1>2. EffectsOf(led[p]) = performed
    BY <1>1 DEF EffectsOf, Observes
<1>3. Answer(p) = Fuse(Sites[v], performed, scope)
    BY <1>1, <1>2 DEF Answer
<1>4. \A s \in Sites[v] :
          (IF s.import_time THEN all \/ s.file \in Scope[v].in_play
                            ELSE all \/ s.owner \in Scope[v].reachable) => s \in Kept(Sites[v], scope)
    BY DEF Kept
<1>5. \A o : all \/ o \in Scope[v].reachable => scope = None \/ o \in scope.reachable
    OBVIOUS
<1> HIDE DEF scope, performed
<1>6. \A s : /\ Confidence(s, performed) = "confirmed" <=> Key(s) \in performed
             /\ Confidence(s, performed) = "predicted" <=> Key(s) \notin performed /\ s.cat \in AUDITABLE
             /\ Confidence(s, performed) # "observed"
    BY DEF Confidence
<1>7. \A s \in Sites[v] :
          (IF s.import_time THEN all \/ s.file \in Scope[v].in_play
                            ELSE all \/ s.owner \in Scope[v].reachable) =>
             \E r \in Answer(p) : r.site = s
  <2>1. \A s \in Kept(Sites[v], scope) : \E r \in Fuse(Sites[v], performed, scope) : r.site = s
      BY FusesAll
  <2> QED
      BY <1>3, <1>4, <2>1
<1>8. \A k \in performed : all \/ k[1] \in Scope[v].reachable =>
          \E r \in Answer(p) : r.key = k /\ r.confidence \in {"confirmed", "observed"}
  <2>1. \A k \in performed : scope = None \/ k[1] \in scope.reachable =>
            \E r \in Fuse(Sites[v], performed, scope) :
                r.key = k /\ r.confidence \in {"confirmed", "observed"}
      BY FusesAll
  <2> QED
      BY <1>3, <1>5, <2>1
<1>9. \A r \in Answer(p) :
          /\ r.confidence \in {"confirmed", "observed"} => r.key \in performed
          /\ r.confidence \in {"predicted", "unverifiable"} =>
                /\ r.key \notin performed
                /\ r.site.cat \in AUDITABLE <=> r.confidence = "predicted"
  <2> SUFFICES ASSUME NEW r \in Answer(p)
               PROVE  /\ r.confidence \in {"confirmed", "observed"} => r.key \in performed
                      /\ r.confidence \in {"predicted", "unverifiable"} =>
                            /\ r.key \notin performed
                            /\ r.site.cat \in AUDITABLE <=> r.confidence = "predicted"
      OBVIOUS
  <2>1. CASE r.key = Key(r.site) /\ r.confidence = Confidence(r.site, performed)
      BY <1>6, <2>1
  <2>2. CASE r.key \in performed /\ r.confidence = "observed"
      BY <2>2
  <2> QED
      BY <1>3, <2>1, <2>2, Fused
<1> QED
    BY <1>7, <1>8, <1>9 DEF AUDITABLE, performed

-----------------------------------------------------------------------------
(* The diff, line by line *)

LEMMA Least ==
    ASSUME NEW S \in SUBSET Nat, S # {}
    PROVE  \E n \in S : \A m \in S : n <= m
<1> DEFINE R == OpToRel(<, Nat)
<1>1. \A m, n \in Nat : <<m, n>> \in R <=> m < n
    BY DEF OpToRel
<1>2. IsWellFoundedOn(R, Nat)
    BY NatLessThanWellFounded
<1> HIDE DEF R
<1>3. PICK n \in S : \A m \in S : ~ (<<m, n>> \in R)
    BY <1>2, WFMin
<1>4. ASSUME NEW m \in S PROVE n <= m
  <2>1. m \in Nat /\ n \in Nat /\ ~ (m < n)
      BY <1>1, <1>3
  <2> QED
      BY <2>1
<1> QED
    BY <1>4

\* Induction, over a set of numbers.
LEMMA Induction ==
    ASSUME NEW S, 0 \in S, \A n \in Nat : n \in S => n + 1 \in S
    PROVE  Nat \subseteq S
<1> SUFFICES ASSUME NEW k \in Nat, k \notin S PROVE FALSE
    OBVIOUS
<1>1. PICK n \in Nat \ S : \A m \in Nat \ S : n <= m
    BY Least
<1>2. n - 1 \in Nat /\ n - 1 \in S
    BY <1>1
<1> QED
    BY <1>1, <1>2

\* The recursion of Parsed has a solution.
LEMMA ParsedIsDefined ==
    ASSUME NEW diff, Len(diff) \in Nat
    PROVE  /\ Parsed(diff)[0] = [current |-> None, changed |-> {}]
           /\ \A n \in 1 .. Len(diff) : Parsed(diff)[n] = ParseLine(Parsed(diff)[n - 1], diff[n])
<1> DEFINE D(g, n) == IF n = 0 THEN [current |-> None, changed |-> {}]
                      ELSE ParseLine(g[n - 1], diff[n])
           Ok == {m \in Nat : \E g : g = [n \in 0 .. m |-> D(g, n)]}
<1>1. 0 \in Ok
  <2> DEFINE g == [n \in 0 .. 0 |-> [current |-> None, changed |-> {}]]
  <2>1. g = [n \in 0 .. 0 |-> D(g, n)]
      OBVIOUS
  <2> HIDE DEF g
  <2> QED
      BY <2>1
<1>2. ASSUME NEW m \in Nat, m \in Ok PROVE m + 1 \in Ok
  <2>1. PICK g : g = [n \in 0 .. m |-> D(g, n)]
      BY <1>2
  <2> DEFINE h == [n \in 0 .. m + 1 |-> IF n = m + 1 THEN D(g, n) ELSE g[n]]
  <2>2. ASSUME NEW n \in 0 .. m + 1 PROVE h[n] = D(h, n)
    <3>1. n # 0 => n - 1 \in 0 .. m /\ h[n - 1] = g[n - 1]
        OBVIOUS
    <3>2. D(g, n) = D(h, n)
        BY <3>1
    <3>3. n # m + 1 => g[n] = D(g, n)
      <4> HIDE DEF D
      <4> QED
        BY <2>1
    <3> QED
        BY <3>2, <3>3
  <2>3. h = [n \in 0 .. m + 1 |-> D(h, n)]
    <3> HIDE DEF D
    <3> QED
      BY <2>2
  <2> HIDE DEF h, D
  <2> QED
      BY <2>3
<1> HIDE DEF Ok
<1>3. Len(diff) \in Ok
    BY <1>1, <1>2, Induction
<1>4. \E g : g = [n \in 0 .. Len(diff) |-> D(g, n)]
    BY <1>3 DEF Ok
<1>5. Parsed(diff) = CHOOSE g : g = [n \in 0 .. Len(diff) |-> D(g, n)]
    BY DEF Parsed
<1>6. \A n \in 0 .. Len(diff) : Parsed(diff)[n] = D(Parsed(diff), n)
  <2> HIDE DEF D
  <2>1. Parsed(diff) = [n \in 0 .. Len(diff) |-> D(Parsed(diff), n)]
      BY <1>4, <1>5
  <2> QED
      BY <2>1
<1>7. /\ D(Parsed(diff), 0) = [current |-> None, changed |-> {}]
      /\ \A n \in 1 .. Len(diff) : D(Parsed(diff), n) = ParseLine(Parsed(diff)[n - 1], diff[n])
    OBVIOUS
<1> HIDE DEF D
<1>8. 0 \in 0 .. Len(diff) /\ \A n \in 1 .. Len(diff) : n \in 0 .. Len(diff)
    OBVIOUS
<1> QED
    BY <1>6, <1>7, <1>8

\* Line i of a diff names the file that line j is about.
Names(diff, i, j) ==
    /\ i <= j /\ diff[i].is = "file"
    /\ \A k \in i + 1 .. j : diff[k].is = "hunk"

IsDiff(diff) ==
    /\ DOMAIN diff = 1 .. Len(diff) /\ Len(diff) \in Nat
    /\ \A i \in 1 .. Len(diff) :
          \/ diff[i].is = "file"
          \/ diff[i].is = "hunk" /\ diff[i].start \in Nat /\ diff[i].count \in Nat

\* What the parser holds after n lines.
ParsedTo(diff, n) ==
    \E c, s :
        /\ Parsed(diff)[n] = [current |-> c, changed |-> s]
        /\ c # None => \E i \in 1 .. n : Names(diff, i, n)
        /\ \A i \in 1 .. n : Names(diff, i, n) => diff[i].path = c
        /\ \A x : x \in s <=>
              \E j \in 1 .. n : \E i \in 1 .. j - 1 :
                 /\ Names(diff, i, j) /\ diff[i].path # None
                 /\ \E l \in NewLines(diff[j]) : x = <<diff[i].path, l>>

LEMMA NamesNext ==
    ASSUME NEW diff, IsDiff(diff), NEW n \in Nat, n + 1 \in 1 .. Len(diff), NEW i \in 1 .. n + 1
    PROVE  Names(diff, i, n + 1) <=>
              \/ i = n + 1 /\ diff[i].is = "file"
              \/ i \in 1 .. n /\ Names(diff, i, n) /\ diff[n + 1].is = "hunk"
<1>1. i <= n => i + 1 .. n + 1 = (i + 1 .. n) \cup {n + 1}
    OBVIOUS
<1>2. i = n + 1 => i + 1 .. n + 1 = {}
    OBVIOUS
<1> QED
    BY <1>1, <1>2 DEF Names

LEMMA ParsedSoFar ==
    ASSUME NEW diff, IsDiff(diff)
    PROVE  ParsedTo(diff, Len(diff))
<1> DEFINE Ok == {n \in Nat : n <= Len(diff) => ParsedTo(diff, n)}
<1>0. Len(diff) \in Nat
    BY DEF IsDiff
<1>1. 0 \in Ok
  <2>1. Parsed(diff)[0] = [current |-> None, changed |-> {}]
      BY <1>0, ParsedIsDefined
  <2>2. ParsedTo(diff, 0)
    <3>1. 1 .. 0 = {}
        OBVIOUS
    <3> QED
      BY <2>1, <3>1 DEF ParsedTo
  <2> QED
      BY <2>2
<1>2. ASSUME NEW n \in Nat, n \in Ok PROVE n + 1 \in Ok
  <2> SUFFICES ASSUME n + 1 <= Len(diff) PROVE ParsedTo(diff, n + 1)
      OBVIOUS
  <2>1. n + 1 \in 1 .. Len(diff) /\ n <= Len(diff)
      BY <1>0
  <2> DEFINE line == diff[n + 1]
  <2>2. Parsed(diff)[n + 1] = ParseLine(Parsed(diff)[n], line)
      BY <1>0, <2>1, ParsedIsDefined
  <2>3. PICK c, s :
        /\ Parsed(diff)[n] = [current |-> c, changed |-> s]
        /\ c # None => \E i \in 1 .. n : Names(diff, i, n)
        /\ \A i \in 1 .. n : Names(diff, i, n) => diff[i].path = c
        /\ \A x : x \in s <=>
              \E j \in 1 .. n : \E i \in 1 .. j - 1 :
                 /\ Names(diff, i, j) /\ diff[i].path # None
                 /\ \E l \in NewLines(diff[j]) : x = <<diff[i].path, l>>
      BY <1>2, <2>1 DEF ParsedTo
  <2>4. \A i \in 1 .. n + 1 : Names(diff, i, n + 1) <=>
              \/ i = n + 1 /\ line.is = "file"
              \/ i \in 1 .. n /\ Names(diff, i, n) /\ line.is = "hunk"
      BY <2>1, NamesNext
  <2>5. line.is = "file" \/ line.is = "hunk"
      BY <2>1 DEF IsDiff
  <2> DEFINE In(x, j) == \E i \in 1 .. j - 1 :
                 /\ Names(diff, i, j) /\ diff[i].path # None
                 /\ \E l \in NewLines(diff[j]) : x = <<diff[i].path, l>>
  <2>6. 1 .. n + 1 = (1 .. n) \cup {n + 1}
      OBVIOUS
  <2>7. \A x : (\E j \in 1 .. n + 1 : In(x, j)) <=> x \in s \/ In(x, n + 1)
    <3>1. \A x : x \in s <=> \E j \in 1 .. n : In(x, j)
        BY <2>3
    <3> HIDE DEF In
    <3> QED
        BY <2>6, <3>1
  <2>8. CASE line.is = "file"
    <3>1. Parsed(diff)[n + 1] = [current |-> line.path, changed |-> s]
        BY <2>2, <2>3, <2>8 DEF ParseLine, Relativize
    <3>2. \A x : ~ In(x, n + 1)
        BY <2>4, <2>8
    <3>3. /\ \E i \in 1 .. n + 1 : Names(diff, i, n + 1)
          /\ \A i \in 1 .. n + 1 : Names(diff, i, n + 1) => diff[i].path = line.path
        BY <2>4, <2>8
    <3>4. \A x : x \in s <=> \E j \in 1 .. n + 1 : In(x, j)
        BY <2>7, <3>2
    <3> HIDE DEF line
    <3> QED
        BY ZenonT(40), <3>1, <3>3, <3>4 DEF ParsedTo
  <2>9. CASE line.is = "hunk"
    <3> DEFINE t == IF c = None THEN s ELSE s \cup {<<c, l>> : l \in NewLines(line)}
    <3>1. Parsed(diff)[n + 1] = [current |-> c, changed |-> t]
      <4> DEFINE acc == [current |-> c, changed |-> s]
      <4>1. acc.current = c /\ acc.changed = s
            /\ \A u : [acc EXCEPT !.changed = u] = [current |-> c, changed |-> u]
          OBVIOUS
      <4>2. line.is # "file" /\ Parsed(diff)[n] = acc
          BY <2>3, <2>9
      <4> HIDE DEF acc, line
      <4>3. ParseLine(acc, line) =
              IF c = None THEN acc ELSE [acc EXCEPT !.changed = s \cup {<<c, l>> : l \in NewLines(line)}]
          BY <2>9, <4>1, <4>2 DEF ParseLine
      <4>4. CASE c = None
          BY <2>2, <4>2, <4>3, <4>4 DEF acc
      <4>5. CASE c # None
          BY <2>2, <4>1, <4>2, <4>3, <4>5
      <4> QED
          BY <4>4, <4>5
    <3>2. ASSUME NEW x
          PROVE  In(x, n + 1) <=> c # None /\ \E l \in NewLines(line) : x = <<c, l>>
        BY <2>3, <2>4, <2>9
    <3>3. /\ c # None => \E i \in 1 .. n + 1 : Names(diff, i, n + 1)
          /\ \A i \in 1 .. n + 1 : Names(diff, i, n + 1) => diff[i].path = c
        BY <2>3, <2>4, <2>9
    <3>4. \A x : x \in t <=> \E j \in 1 .. n + 1 : In(x, j)
        BY <2>7, <3>2
    <3> HIDE DEF line, t
    <3> QED
        BY <3>1, <3>3, <3>4 DEF ParsedTo
  <2> QED
      BY <2>5, <2>8, <2>9
<1> HIDE DEF Ok
<1>3. Len(diff) \in Ok
    BY <1>0, <1>1, <1>2, Induction
<1> QED
    BY <1>0, <1>3 DEF Ok

\* The changed lines are those of the hunks, each of the file above it.
LEMMA ChangedAre ==
    ASSUME NEW v \in Versions
    PROVE  ChangedLines(Diff[v]) = AddedLines(v) \cup DeletionMarks(v)
<1> DEFINE d == Diff[v]
<1>1. IsDiff(d)
    BY DiffIsOfLines DEF IsDiff
<1>2. Len(d) \in Nat /\ DOMAIN d = 1 .. Len(d)
    BY <1>1 DEF IsDiff
<1>3. \A x : x \in ChangedLines(d) <=>
              \E j \in 1 .. Len(d) : \E i \in 1 .. j - 1 :
                 /\ Names(d, i, j) /\ d[i].path # None
                 /\ \E l \in NewLines(d[j]) : x = <<d[i].path, l>>
  <2> HIDE DEF d
  <2>0. ParsedTo(d, Len(d))
      BY <1>1, ParsedSoFar
  <2>1. PICK c, s :
        /\ Parsed(d)[Len(d)] = [current |-> c, changed |-> s]
        /\ \A x : x \in s <=>
              \E j \in 1 .. Len(d) : \E i \in 1 .. j - 1 :
                 /\ Names(d, i, j) /\ d[i].path # None
                 /\ \E l \in NewLines(d[j]) : x = <<d[i].path, l>>
      BY <2>0 DEF ParsedTo
  <2> QED
      BY <2>1 DEF ChangedLines
<1> DEFINE h(i, j) == [file |-> d[i].path, start |-> d[j].start, count |-> d[j].count]
<1>4. \A g : g \in HunksOf(v) <=>
          \E j \in 1 .. Len(d) : \E i \in 1 .. j - 1 :
             Names(d, i, j) /\ d[i].path # None /\ g = h(i, j)
  <2> DEFINE P == {ij \in (DOMAIN d) \X (DOMAIN d) :
                        /\ ij[1] < ij[2]
                        /\ d[ij[1]].is = "file"
                        /\ d[ij[1]].path # None
                        /\ \A k \in ij[1] + 1 .. ij[2] : d[k].is = "hunk"}
  <2>1. HunksOf(v) = {h(m[1], m[2]) : m \in P}
      BY DEF HunksOf
  <2>2. \A i, j : <<i, j>> \in P <=>
          /\ j \in 1 .. Len(d) /\ i \in 1 .. j - 1
          /\ Names(d, i, j) /\ d[i].path # None
      BY <1>2 DEF Names
  <2>3. \A m \in P : m = <<m[1], m[2]>>
      OBVIOUS
  <2> HIDE DEF P, d, h
  <2>4. ASSUME NEW g, g \in HunksOf(v)
        PROVE  \E j \in 1 .. Len(d) : \E i \in 1 .. j - 1 :
                 Names(d, i, j) /\ d[i].path # None /\ g = h(i, j)
    <3>1. PICK m \in P : g = h(m[1], m[2])
        BY <2>1, <2>4
    <3> QED
        BY <2>2, <2>3, <3>1
  <2>5. ASSUME NEW j \in 1 .. Len(d), NEW i \in 1 .. j - 1, Names(d, i, j), d[i].path # None
        PROVE  h(i, j) \in HunksOf(v)
    <3>1. <<i, j>> \in P /\ <<i, j>>[1] = i /\ <<i, j>>[2] = j
        BY <2>2, <2>5
    <3> QED
        BY <2>1, <3>1
  <2> QED
      BY <2>4, <2>5
<1>5. ASSUME NEW j \in 1 .. Len(d), NEW i \in 1 .. j - 1, Names(d, i, j), NEW l
      PROVE  l \in NewLines(d[j]) <=>
                \/ \E n \in 0 .. d[j].count - 1 : l = d[j].start + n
                \/ d[j].count = 0 /\ l = d[j].start
  <2>1. d[j].is = "hunk"
      BY <1>5 DEF Names
  <2>2. d[j].start \in Nat /\ d[j].count \in Nat
    <3>1. d[j].is = "file" \/ (d[j].is = "hunk" /\ d[j].start \in Nat /\ d[j].count \in Nat)
        BY <1>1 DEF IsDiff
    <3> QED
        BY <2>1, <3>1
  <2>3. l \in NewLines(d[j]) =>
                \/ \E n \in 0 .. d[j].count - 1 : l = d[j].start + n
                \/ d[j].count = 0 /\ l = d[j].start
    <3> SUFFICES ASSUME l \in NewLines(d[j])
                 PROVE  \/ \E n \in 0 .. d[j].count - 1 : l = d[j].start + n
                        \/ d[j].count = 0 /\ l = d[j].start
        OBVIOUS
    <3>1. CASE d[j].count = 0
        BY <2>2, <3>1 DEF NewLines
    <3>2. CASE d[j].count # 0
      <4>1. l \in d[j].start .. d[j].start + d[j].count - 1
          BY <3>2 DEF NewLines
      <4> DEFINE start == d[j].start  count == d[j].count
      <4>2. start \in Nat /\ count \in Nat /\ l \in start .. start + count - 1
          BY <2>2, <4>1
      <4> HIDE DEF start, count
      <4>3. l - start \in 0 .. count - 1 /\ l = start + (l - start)
          BY <4>2
      <4> QED
          BY <4>3 DEF start, count
    <3> QED
        BY <3>1, <3>2
  <2>4. ASSUME \/ \E n \in 0 .. d[j].count - 1 : l = d[j].start + n
               \/ d[j].count = 0 /\ l = d[j].start
        PROVE  l \in NewLines(d[j])
      BY <2>2, <2>4 DEF NewLines
  <2> QED
      BY <2>3, <2>4
<1>6. \A x : x \in AddedLines(v) <=>
          \E g \in HunksOf(v) : \E n \in 0 .. g.count - 1 : x = <<g.file, g.start + n>>
    BY DEF AddedLines
<1>7. \A x : x \in DeletionMarks(v) <=>
          \E g \in HunksOf(v) : g.count = 0 /\ x = <<g.file, g.start>>
    BY DEF DeletionMarks
<1>8. \A i, j : h(i, j).file = d[i].path /\ h(i, j).start = d[j].start /\ h(i, j).count = d[j].count
    OBVIOUS
<1> HIDE DEF d, h
<1>9. ASSUME NEW x, x \in ChangedLines(d)
      PROVE  x \in AddedLines(v) \cup DeletionMarks(v)
  <2>0. PICK j \in 1 .. Len(d) : \E i \in 1 .. j - 1 :
                 /\ Names(d, i, j) /\ d[i].path # None
                 /\ \E l \in NewLines(d[j]) : x = <<d[i].path, l>>
      BY <1>3, <1>9
  <2>1. PICK i \in 1 .. j - 1 :
                 /\ Names(d, i, j) /\ d[i].path # None
                 /\ \E l \in NewLines(d[j]) : x = <<d[i].path, l>>
      BY <2>0
  <2>2. PICK l \in NewLines(d[j]) : x = <<d[i].path, l>>
      BY <2>1
  <2>3. h(i, j) \in HunksOf(v)
      BY <1>4, <2>1
  <2> QED
      BY <1>5, <1>6, <1>7, <1>8, <2>1, <2>2, <2>3
<1>10. ASSUME NEW x, x \in AddedLines(v) \cup DeletionMarks(v)
       PROVE  x \in ChangedLines(d)
  <2>1. PICK g \in HunksOf(v) :
            \/ \E n \in 0 .. g.count - 1 : x = <<g.file, g.start + n>>
            \/ g.count = 0 /\ x = <<g.file, g.start>>
      BY <1>6, <1>7, <1>10
  <2>0. PICK j \in 1 .. Len(d) : \E i \in 1 .. j - 1 :
             Names(d, i, j) /\ d[i].path # None /\ g = h(i, j)
      BY <1>4
  <2>2. PICK i \in 1 .. j - 1 :
             Names(d, i, j) /\ d[i].path # None /\ g = h(i, j)
      BY <2>0
  <2>3. g.file = d[i].path /\ g.start = d[j].start /\ g.count = d[j].count
      BY <1>8, <2>2
  <2>4. \E l : /\ x = <<g.file, l>>
               /\ \/ \E n \in 0 .. d[j].count - 1 : l = d[j].start + n
                  \/ d[j].count = 0 /\ l = d[j].start
      BY <2>1, <2>3
  <2>5. \E l \in NewLines(d[j]) : x = <<d[i].path, l>>
      BY <1>5, <2>2, <2>3, <2>4
  <2> QED
      BY <1>3, <2>2, <2>5
<1> QED
    BY <1>9, <1>10 DEF d

\* The labels of changed lines are true.
LEMMA CoverageTrue ==
    ASSUME IInv, \A p \in Procs : HasRead(p)
    PROVE  CoverageIsTrue
<1> SUFFICES ASSUME NEW p \in Procs, NEW v \in Versions, Undisturbed(p, v),
                    asked[p].verb = "coverage", led[p] = None \/ Observes(led[p])
             PROVE
                LET watched == led[p] # None /\ led[p].by \in Monitors
                IN  {r \in Answer(p) : r.line \notin DeletionMarks(v) \ AddedLines(v)} =
                        {[line |-> x,
                          status |-> CASE ~watched -> "unknown"
                                       [] watched /\ x \in Ran[v] -> "covered"
                                       [] OTHER -> "uncovered"] : x \in AddedLines(v)}
    BY DEF CoverageIsTrue
<1> DEFINE watched == led[p] # None /\ led[p].by \in Monitors
           cov == CoverageOf(led[p])
<1>1. view[p] = v /\ (led[p] # None => led[p].of = v)
    BY AnswersFrom
<1>2. cov.monitoring = watched /\ (watched => cov.lines = Ran[v])
    BY <1>1 DEF CoverageOf, Observes
<1>3. Answer(p) = CoverageRows(AddedLines(v) \cup DeletionMarks(v), cov)
    BY <1>1, ChangedAre DEF Answer
<1> DEFINE Ours(x) == IF ~cov.monitoring THEN "unknown"
                      ELSE IF x \in cov.lines THEN "covered" ELSE "uncovered"
           Due(x) == CASE ~watched -> "unknown"
                       [] watched /\ x \in Ran[v] -> "covered"
                       [] OTHER -> "uncovered"
<1>4. \A x : Ours(x) = Due(x)
    BY <1>2
<1>5. Answer(p) = {[line |-> x, status |-> Ours(x)] : x \in AddedLines(v) \cup DeletionMarks(v)}
    BY <1>3 DEF CoverageRows
<1>6. Answer(p) = {[line |-> x, status |-> Due(x)] : x \in AddedLines(v) \cup DeletionMarks(v)}
  <2> HIDE DEF Ours, Due
  <2> QED
      BY <1>4, <1>5
<1>7. {r \in Answer(p) : r.line \notin DeletionMarks(v) \ AddedLines(v)} =
          {[line |-> x, status |-> Due(x)] : x \in AddedLines(v)}
  <2> HIDE DEF Due
  <2> QED
      BY <1>6
<1> QED
    BY <1>7

\* For any versions, diffs, suites and interpreters: what "tests --base" and "effects"
\* say of a tree that was left alone is true of that tree (main.rs 663-672, 890-901).
THEOREM AnswersAreTrueOfTheTree == Spec => []AnswersAreTrue
<1> DEFINE R == \A p \in Procs : HasRead(p)
<1>1. Init => R
    BY InitRead
<1>2. IInv /\ R /\ [Next]_vars => R'
    BY NextRead
<1>3. IInv /\ R => AnswersAreTrue
    BY EffectsTrue, CoverageTrue DEF AnswersAreTrue
<1> HIDE DEF R
<1> QED
    BY <1>1, <1>2, <1>3, LedgerInvariance, PTL DEF Spec

=============================================================================
