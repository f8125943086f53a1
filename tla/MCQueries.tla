----------------------------- MODULE MCQueries ------------------------------
(***************************************************************************)
(* Queries on small checkouts.  CallProjects have three files: core, with  *)
(* a base class and a helper; jobs, with a subclass of it, a function and  *)
(* a lambda; and a test file.  Any of eight calls may be there, or any of  *)
(* six and one peculiarity; where two definitions share an FQN, or only    *)
(* their names, any of four or five.  ImportProjects have a package of     *)
(* four modules below the root, and any of eight import statements.        *)
(***************************************************************************)
EXTENDS Queries, TLC

PlainFile(path, module) ==
    [path |-> path, module |-> module, dunder_all |-> {}, dotted |-> {}]

N(kind, container, name) ==
    [kind |-> kind, container |-> container, name |-> name, decorated |-> FALSE,
     bases |-> <<>>, markers |-> {}]

Base1(name, to) == [name |-> name, dotted |-> TRUE, to |-> to]

CallFiles ==
    <<PlainFile(<<"app", "core.py">>, <<"app", "core">>),
      PlainFile(<<"app", "jobs.py">>, <<"app", "jobs">>),
      PlainFile(<<"tests", "test_core.py">>, <<"tests", "test_core">>)>>

Core(n) == <<1, n>>
Jobs(n) == <<2, n>>
Test(n) == <<3, n>>

CallNodes ==
    Core(0) :> N("module", <<>>, "core")
    @@ Core(1) :> N("class", <<>>, "Base")
    @@ Core(2) :> N("function", <<"Base">>, "run")
    @@ Core(3) :> N("function", <<>>, "helper")
    @@ Jobs(0) :> N("module", <<>>, "jobs")
    @@ Jobs(1) :> [N("class", <<>>, "Impl") EXCEPT !.bases = <<Base1("Base", Core(1))>>]
    @@ Jobs(2) :> N("function", <<"Impl">>, "run")
    @@ Jobs(3) :> N("function", <<>>, "main")
    @@ Jobs(4) :> N("lambda", <<>>, "lambda")
    @@ Test(0) :> N("module", <<>>, "test_core")
    @@ Test(1) :> N("function", <<>>, "test_a")
    @@ Test(2) :> N("function", <<"test_a">>, "test_inner")
    @@ Test(3) :> [N("class", <<>>, "CoreCase") EXCEPT !.bases = <<Base1("TestCase", None)>>, !.markers = {"slow"}]
    @@ Test(4) :> N("function", <<"CoreCase">>, "test_b")

Call(from, to, by) == [from |-> from, to |-> to, by |-> by]
Mention(from, to, within) == [from |-> from, to |-> to, by |-> "name", within |-> within]

CallMenu ==
    {Call(Jobs(0), Jobs(3), "here"), Call(Jobs(3), Core(3), "name"),
     Call(Jobs(3), Core(2), "attribute"), Call(Core(3), Jobs(3), "alias"),
     Call(Jobs(2), Jobs(4), "here"), Call(Jobs(4), Core(3), "name"),
     Call(Test(1), Jobs(3), "alias"),
     Call(Test(4), Jobs(2), "attribute")}

\* The calls that vary in the peculiar checkouts.
FewerCalls ==
    CallMenu \ {Call(Jobs(0), Jobs(3), "here"), Call(Core(3), Jobs(3), "alias")}

ImportFiles ==
    <<PlainFile(<<"src", "app", "__init__.py">>, <<"src", "app">>),
      PlainFile(<<"src", "app", "a.py">>, <<"src", "app", "a">>),
      PlainFile(<<"src", "app", "b.py">>, <<"src", "app", "b">>),
      PlainFile(<<"src", "app", "c.py">>, <<"src", "app", "c">>)>>

\* The same function twice, as a property and its setter are.
TwinNodes ==
    Jobs(5) :> [N("function", <<"Impl">>, "run") EXCEPT !.decorated = TRUE]
    @@ [CallNodes EXCEPT ![Jobs(2)].decorated = TRUE]

\* What else may be so in a checkout.
Peculiar ==
  LET PlainSource == [files |-> CallFiles, nodes |-> CallNodes, mentions |-> {}, console |-> {}]
  IN
    [plain |-> PlainSource,
     decorated |-> [PlainSource EXCEPT !.nodes[Jobs(3)].decorated = TRUE],
     external |-> [PlainSource EXCEPT !.nodes[Jobs(1)].bases = @ \o <<Base1("Model", None)>>],
     framework |-> [PlainSource EXCEPT !.nodes[Core(1)].bases = <<Base1("Generic", None)>>],
     subscript |-> [PlainSource EXCEPT
                       !.nodes[Jobs(1)].bases = <<[Base1("Base", Core(1)) EXCEPT !.dotted = FALSE]>>],
     config |-> [PlainSource EXCEPT
                    !.files[1].dotted = {<<"jobs", "main">>, <<"os", "path">>},
                    !.console = {<<"core", "helper">>}],
     exported |-> [PlainSource EXCEPT !.files[1].dunder_all = {"helper"},
                                      !.mentions = {Mention(Jobs(0), Core(1), <<"class">>),
                                                    Mention(Jobs(0), Core(3), <<"header">>)}],
     script |-> [PlainSource EXCEPT !.files[2].path = <<"scripts", "jobs.py">>],
     twin |-> [PlainSource EXCEPT !.nodes = TwinNodes],
     homonym |-> [PlainSource EXCEPT !.nodes[Jobs(3)].name = "helper"],
     package |-> [PlainSource EXCEPT !.files = ImportFiles, !.nodes = <<>>]]

Checkout(source, calls, imports) ==
    LET p == Peculiar[source] IN
    [files |-> p.files, nodes |-> p.nodes, mentions |-> p.mentions, console |-> p.console,
     calls |-> calls, imports |-> imports]

CallProjects ==
    {Checkout("plain", calls, {}) : calls \in SUBSET CallMenu}
    \cup {Checkout(source, calls, {}) :
            source \in DOMAIN Peculiar \ {"twin", "homonym", "package"}, calls \in SUBSET FewerCalls}

TwinCalls == {Call(Jobs(5), Core(3), "name"), Call(Jobs(2), Jobs(4), "here"),
              Call(Test(1), Jobs(2), "attribute"), Call(Test(4), Jobs(5), "attribute")}

HomonymCalls == {Call(Jobs(0), Jobs(3), "here"), Call(Test(1), Jobs(3), "alias"),
                 Call(Core(3), Jobs(3), "alias"), Call(Test(2), Core(3), "name"),
                 Call(Jobs(4), Jobs(3), "here")}

HomonymProjects == {Checkout("homonym", calls, {}) : calls \in SUBSET HomonymCalls}

TwinProjects == {Checkout("twin", calls, {}) : calls \in SUBSET TwinCalls}

-----------------------------------------------------------------------------

From(file, level, module, names) ==
    [file |-> file, level |-> level, module |-> module, names |-> names,
     within |-> <<>>]

ImportMenu ==
    {[From(1, 1, <<"a">>, {"x"}) EXCEPT !.within = <<"type_checking">>],
     [From(1, 1, <<>>, {"b"}) EXCEPT !.within = <<"else">>],
     From(2, 0, <<"app", "b">>, {}),
     From(3, 2, <<"app", "c">>, {"y"}),
     From(3, 0, <<"src", "app">>, {"a"}),
     [From(3, 1, <<>>, {"a"}) EXCEPT !.within = <<"function">>],
     From(4, 1, <<"a">>, {}),
     From(4, 1, <<>>, {"c"})}

ImportProjects == {Checkout("package", {}, imports) : imports \in SUBSET ImportMenu}

AllProjects == CallProjects \cup TwinProjects \cup HomonymProjects \cup ImportProjects

AskedFor == {<<"helper">>, <<"Base", "run">>, <<"run">>, <<"jobs", "helper">>}

=============================================================================
