---------------------------- MODULE MCGraphCache ----------------------------
(* GraphCache on one or two files and two processes. *)
EXTENDS GraphCache, TLC

CONSTANTS a, b, p, q

OneFile == {a}
TwoFiles == {a, b}
TwoProcs == {p, q}

OneRelease == [r \in Procs |-> 1]
TwoReleases == [r \in Procs |-> IF r = p THEN 1 ELSE 2]

\* Every content parses to an index of its own.
Distinct == [c \in Contents |-> c]

Symmetry == Permutations(Files)

\* For processes of one release.
FullSymmetry == Permutations(Files) \cup Permutations(Procs)

=============================================================================
