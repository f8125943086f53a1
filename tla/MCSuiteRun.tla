----------------------------- MODULE MCSuiteRun -----------------------------
(* SuiteRun with its sets as interchangeable model values. *)
EXTENDS SuiteRun, TLC

Symmetry == Permutations(Tests) \cup Permutations(Lines) \cup Permutations(Owners)

=============================================================================
