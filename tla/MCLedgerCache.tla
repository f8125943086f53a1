---------------------------- MODULE MCLedgerCache ---------------------------
(***************************************************************************)
(* LedgerCache over two versions of a project of two files.  The suite     *)
(* passes at version 1, and at version 2 either breaks off in collection   *)
(* (under the new interpreter) or has no pytest (under the old one).       *)
(***************************************************************************)
EXTENDS LedgerCache

SuiteOf == [new |-> <<"ran", "aborted">>, old |-> <<"ran", "missing">>]

\* Modified, inserted and deleted lines, a file that is gone and one beyond the root.
DiffOf ==
    << <<PlusLine("a.py"), Hunk(2, 2), Hunk(7, 0),
         PlusLine(None), Hunk(1, 1),
         PlusLine("b.py"), Hunk(1, 1)>>,
       <<PlusLine("b.py"), Hunk(1, 1)>> >>

RanAt == << {<<"a.py", 2>>, <<"a.py", 7>>}, {} >>

\* The suite opens a file and a socket; nothing static predicts the socket.
PerformedAt == << {<<"a.save", "fs">>, <<"a.load", "network">>}, {} >>

Site(owner, cat, file, import_time) ==
    [owner |-> owner, cat |-> cat, file |-> file, import_time |-> import_time]

SitesAt ==
    << {Site("a.save", "fs", "a.py", FALSE), Site("a.load", "env", "a.py", FALSE),
        Site("b", "db", "b.py", TRUE)},
       {Site("a.save", "fs", "a.py", FALSE), Site("a", "network", "a.py", TRUE)} >>

ScopeAt ==
    << [reachable |-> {"a.load", "b.run"}, in_play |-> {"a.py", "b.py"}],
       [reachable |-> {"a.save"}, in_play |-> {"a.py"}] >>

=============================================================================
