----------------------------- MODULE MCParseCache -----------------------------
(***************************************************************************)
(* ParseCache on a small tree.  Contents x and y have one length, so an    *)
(* edit from one to the other shows in the mtime alone.  The content bad   *)
(* is not UTF-8 (and longer).                                              *)
(***************************************************************************)
EXTENDS ParseCache, TLC

CONSTANTS f1, f2, p1, p2, x, y, bad

OneFile == {f1}
TwoFiles == {f1, f2}
OneProc == {p1}
TwoProcs == {p1, p2}
SameLength == [c \in Contents |-> IF c = bad THEN 2 ELSE 1]
OneRelease == [p \in Procs |-> 1]
TwoReleases == [p \in Procs |-> IF p = p1 THEN 1 ELSE 2]

Symmetry == Permutations(Files)

=============================================================================
