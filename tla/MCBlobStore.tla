---------------------------- MODULE MCBlobStore ----------------------------
(* BlobStore with its sets as interchangeable model values. *)
EXTENDS BlobStore, TLC

Symmetry ==
    Permutations(Procs) \cup Permutations(Values) \cup Permutations(Inodes)

=============================================================================
