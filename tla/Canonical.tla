----------------------------- MODULE Canonical ------------------------------
(***************************************************************************)
(* The overview of pyq-cli/src/canonical.rs: the most used helpers, the    *)
(* public surface no test reaches and the inventory of the tests.          *)
(***************************************************************************)
EXTENDS Deadcode

MostUsedFloor == 2

\* in_test_tree: broader than what pytest collects.
InTestTree(f) ==
    \/ IsTestFile(f)
    \/ {"tests", "test"} \cap Components(f) # {}
    \/ FileName(f) = "conftest.py"

TestTreeFqns == FqnsOf({a \in Defs : InTestTree(a[1])})
EntrypointFqns == FqnsOf({a \in Defs : IsEntrypointFile(a[1])})

Uses(fqn) == Cardinality(CallerIndex(fqn) \ TestTreeFqns)

\* most_used_rows, before the ranking is cut off.
MostUsed ==
    {fqn \in FqnsOf(Defs) \ (TestTreeFqns \cup EntrypointFqns) :
        Leaf(fqn) \notin DunderNames /\ Uses(fqn) >= MostUsedFloor}

IsPublicSurface(a) == Node(a).container = <<>> /\ Node(a).name \notin PrivateNames

\* Mutant: a class counts only when it is reached itself.
TestedItself(a, reached) == Fqn(a) \in reached

\* A class is tested through any method of it that is.
Tested(a, reached) ==
    \/ Fqn(a) \in reached
    \/ a \in Classes /\ Fqn(a) \in {Owner(fqn) : fqn \in reached}

\* untested_public_rows, given what the collected tests reach.
UntestedPublic(reached) ==
    {a \in Defs :
        /\ ~InTestTree(a[1])
        /\ IsPublicSurface(a)
        /\ ~Tested(a, reached)
        /\ Fqn(a) \notin FrameworkEntries}

\* test_inventory_rows: a method has its class's markers too, those of the last
\* class with that FQN in the file.
Markers(a) ==
    LET classes == {c \in Classes : c[1] = a[1] /\ DefScope(c) = Node(a).container}
    IN  Node(a).markers \cup (IF classes = {} THEN {} ELSE Node(LastOf(classes)).markers)

Inventory == {[fqn |-> Fqn(a), markers |-> Markers(a)] : a \in CollectedTests}

=============================================================================
