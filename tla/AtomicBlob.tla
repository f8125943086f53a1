----------------------------- MODULE AtomicBlob -----------------------------
(***************************************************************************)
(* What read_bin, write_bin and clean of pyq-cli/src/cache.rs promise the  *)
(* three cache layers about ONE cache file (parse.bin, graph.bin or        *)
(* ledger.bin): it behaves as a register that holds a whole value or       *)
(* nothing.  A put and a clean take effect at one instant, and a read      *)
(* returns what the register held at one instant; a process that dies      *)
(* changes nothing.                                                        *)
(***************************************************************************)

CONSTANTS
    Procs,      \* pyq processes sharing the cache directory
    Values,     \* what a layer may store
    None        \* no blob, or a blob that does not deserialize

VARIABLES
    reg,        \* the register
    seen        \* seen[p]: what the last read of p returned

vars == <<reg, seen>>

TypeOK ==
    /\ reg \in Values \cup {None}
    /\ seen \in [Procs -> Values \cup {None}]

Init ==
    /\ reg = None
    /\ seen = [p \in Procs |-> None]

Put(v) ==
    /\ reg' = v
    /\ UNCHANGED seen

\* index clean, or a loss of power that ruins a blob nobody had synced.
Clear ==
    /\ reg' = None
    /\ UNCHANGED seen

Read(p) ==
    /\ seen' = [seen EXCEPT ![p] = reg]
    /\ UNCHANGED reg

\* p dies; a later process with its pid knows nothing.
Forget(p) ==
    /\ seen' = [seen EXCEPT ![p] = None]
    /\ UNCHANGED reg

\* The machine stops: every process dies and the blob may be lost.
LosePower ==
    /\ seen' = [p \in Procs |-> None]
    /\ reg' \in {reg, None}

Next ==
    \/ \E v \in Values : Put(v)
    \/ Clear
    \/ \E p \in Procs : Read(p) \/ Forget(p)
    \/ LosePower

Spec == Init /\ [][Next]_vars

=============================================================================
