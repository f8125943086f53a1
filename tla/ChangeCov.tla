----------------------------- MODULE ChangeCov ------------------------------
(***************************************************************************)
(* "pyq tests --base": changed_lines of pyq-cli/src/change_cov.rs and the  *)
(* join with the runtime ledger in query_change_cov of main.rs.            *)
(*                                                                         *)
(* A diff is the sequence of those lines of "git diff --unified=0" that    *)
(* the parser looks at: a "+++" line naming a file, and "@@ -a,b +s,n @@". *)
(***************************************************************************)
EXTENDS Naturals, Sequences

CONSTANT Nowhere    \* a path that is /dev/null, outside the scan root or gone

PlusLine(path) == [is |-> "file", path |-> path]
Hunk(start, count) == [is |-> "hunk", start |-> start, count |-> count]

\* Mutant: the last path is kept over a file that is not under the root.
RelativizeSticky(path, current) == IF path = Nowhere THEN current ELSE path

\* What "+++ path" makes of the current file.
Relativize(path, current) == path

\* The lines a hunk contributes, a pure deletion's "+s,0" included.
NewLines(hunk) ==
    hunk.start .. hunk.start + (IF hunk.count = 0 THEN 1 ELSE hunk.count) - 1

\* parse_diff: one line, given the current file and the changed lines so far.
ParseLine(acc, line) ==
    CASE line.is = "file" ->
           [acc EXCEPT !.current = Relativize(line.path, @)]
      [] line.is = "hunk" /\ acc.current # Nowhere ->
           [acc EXCEPT !.changed = @ \cup {<<acc.current, l>> : l \in NewLines(line)}]
      [] OTHER -> acc

\* What the first n lines of the diff come to.
Parsed(diff) ==
    LET after[n \in 0 .. Len(diff)] ==
            IF n = 0 THEN [current |-> Nowhere, changed |-> {}]
            ELSE ParseLine(after[n - 1], diff[n])
    IN  after

ChangedLines(diff) == Parsed(diff)[Len(diff)].changed

\* query_change_cov: the row of each changed line.  cov has the lines that were
\* run, and whether anybody was watching.
CoverageRows(changed, cov) ==
    {[line |-> x,
      status |-> IF ~cov.monitoring THEN "unknown"
                 ELSE IF x \in cov.lines THEN "covered" ELSE "uncovered"] : x \in changed}

=============================================================================
