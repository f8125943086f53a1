------------------------------ MODULE Queries -------------------------------
(***************************************************************************)
(* The static queries of pyq-cli/src/main.rs and canonical.rs: "graph",    *)
(* "tests", "deadcode", "canonical" and "imports --cycles".  A command     *)
(* takes the project as it is, walks its call graph or import graph, and   *)
(* answers from what the walk found.                                       *)
(***************************************************************************)
EXTENDS CallGraph, Canonical, ImportGraph, Sweep

CONSTANTS
    Symbols,   \* the symbols asked for, as sequences of names
    Limits     \* the values of --depth

VARIABLE verb  \* the command that runs, or None

vars == <<project, recording, verb, walkVars, tarjanVars>>

Verbs == {"graph", "tests", "deadcode", "canonical", "cycles"} \cup SweepVerbs

ASSUME NoneIsNoVerb == None \notin Verbs

\* --depth is an unsigned number.
ASSUME LimitsAreNat == Limits \subseteq Nat

NoTarjan == frames = <<>> /\ index = <<>> /\ low = <<>> /\ stack = <<>> /\ sccs = {}

Init ==
    /\ project \in Projects
    /\ recording = Record
    /\ verb = None /\ Idle /\ NoTarjan

\* query_graph and query_tests
AskGraph ==
    \E symbol \in Symbols, dir \in Directions, limit \in Limits \cup {Unbounded} :
        /\ verb' = "graph"
        /\ BeginClosure(symbol, dir, limit)

AskTests ==
    \E symbol \in Symbols :
        /\ verb' = "tests"
        /\ BeginClosure(symbol, "reverse", Unbounded)

\* deadcode::find and canonical::query
AskDeadcode == verb' = "deadcode" /\ BeginReachable(DeadcodeSeeds)
AskCanonical == verb' = "canonical" /\ BeginReachable(CollectedTests)

AskCycles == verb' = "cycles" /\ UNCHANGED walkVars

\* resolve and query_callers; there is nothing to walk.
AskSweep ==
    \E v \in SweepVerbs, symbol \in Symbols, sight \in {{"here", "attribute"}, Spellings} :
        /\ verb' = v
        /\ goal' = [walk |-> "sweep", symbol |-> symbol, sight |-> sight,
                    dir |-> "reverse", from |-> StartAnchors(symbol)]
        /\ UNCHANGED <<seeds, visited, queue, current, todo, nodes>>

Ask == /\ verb = None
       /\ AskGraph \/ AskTests \/ AskDeadcode \/ AskCanonical \/ AskCycles \/ AskSweep
       /\ UNCHANGED <<project, recording, tarjanVars>>

Walk == (Seed \/ Expand \/ Look) /\ UNCHANGED <<project, recording, verb, tarjanVars>>

FindComponents ==
    /\ verb = "cycles"
    /\ Root \/ Edgewise \/ Return
    /\ UNCHANGED <<project, recording, verb, walkVars>>

Answered == Finished \/ (verb = "cycles" /\ AllMet)

\* The answer is printed and the process ends.
Exit ==
    /\ Answered
    /\ verb' = None
    /\ IF verb = "cycles"
       THEN /\ frames' = <<>> /\ index' = <<>> /\ low' = <<>> /\ stack' = <<>> /\ sccs' = {}
            /\ UNCHANGED walkVars
       ELSE End /\ UNCHANGED tarjanVars
    /\ UNCHANGED <<project, recording>>

Next == Ask \/ Walk \/ FindComponents \/ Exit

Spec == Init /\ [][Next]_vars

-----------------------------------------------------------------------------
(* The answers *)

Roots == FqnsOf(goal.from)

\* query_tests: the test nodes among those that reach the symbol.
TestRows == {n.at : n \in {m \in nodes : IsTestNode(m.at)}}

\* The "exhaustive" field of graph and tests.
Exhaustive ==
    goal.dir = "forward" \/ (goal.from # {} /\ ~Caveat(Roots))

\* query_callers leaves the question of the roots out.
CallersExhaustive == ~Caveat(Roots)

SweepRows ==
    CASE verb = "refs" -> ReferenceRows(goal.symbol, goal.sight)
      [] verb = "callers" -> CallerRows(goal.symbol, goal.sight)
      [] verb = "defs" -> DefinitionRows(goal.symbol)

-----------------------------------------------------------------------------
(* Reference definitions *)

FqnsAreUnique == \A a, b \in Anchors : Fqn(a) = Fqn(b) => a = b

\* The class a is directly in, if any.
ClassAround(a) == {c \in Classes : c[1] = a[1] /\ DefScope(c) = Node(a).container}

BaseClasses(c) ==
    IF WrittenBases(c) = {} THEN {} ELSE {Node(c).bases[i].to : i \in ProjectBases(c)}

\* The methods that may run when a is called on an object of a subclass.
OverridesOf(a) ==
    {b \in Functions :
        /\ a \in Functions /\ Node(b).name = Node(a).name
        /\ \E d \in ClassAround(b), c \in ClassAround(a) :
              c \in Reached([k \in Classes |-> BaseClasses(k)], BaseClasses(d))}

MayRun == [a \in Anchors |-> OutgoingAt(a) \cup OverridesOf(a)]

Live(S) == Reached(MayRun, S)

\* What a name stands for: the definitions that have it, and what it is bound to or
\* used for where the sweep looks.
Meant(symbol) ==
    Named(symbol) \cup {b.to : b \in NamedBindings(symbol)} \cup {u.to : u \in NamedUses(symbol)}

IsWithin(a, d) ==
    /\ a[1] = d[1]
    /\ Len(DefScope(d)) < Len(DefScope(a))
    /\ SubSeq(DefScope(a), 1, Len(DefScope(d))) = DefScope(d)

-----------------------------------------------------------------------------
(* Properties *)

TypeOK ==
    /\ DOMAIN recording.outgoing = Anchors /\ DOMAIN recording.incoming = Anchors
    /\ verb \in Verbs \cup {None}
    /\ IF verb \in Verbs \ {"cycles"} THEN goal.from \subseteq Anchors ELSE goal = None
    /\ seeds \subseteq Anchors /\ todo \subseteq Anchors
    /\ visited \subseteq FqnsOf(Anchors)
    /\ \A i \in DOMAIN queue : queue[i].at \in Anchors /\ Fqn(queue[i].at) \in visited
    /\ \A n \in nodes : n.at \in Anchors /\ n.depth \in 1 .. Cardinality(Anchors)
    /\ DOMAIN low = DOMAIN index /\ DOMAIN index \subseteq Modules
    /\ \A m \in DOMAIN index : low[m] <= index[m] /\ index[m] < Cardinality(Modules)
    /\ \A i \in DOMAIN frames : Member(stack, frames[i].node)

\* "pyq graph" lists exactly the nodes within --depth calls of the symbol, each
\* once, at its distance, with an edge of a nearer node; where definitions share
\* an FQN it may list fewer, but nothing else.
ClosureIsExact ==
    verb = "graph" /\ Finished =>
        LET near == Hops([a \in Anchors |-> Neighbours(a, goal.dir)], goal.from)
            limit == IF goal.limit = Unbounded \/ goal.limit > Cardinality(Anchors)
                     THEN Cardinality(Anchors) ELSE goal.limit
        IN  /\ \A n \in nodes :
                  /\ n.depth <= limit /\ n.at \in near[n.depth]
                  /\ Fqn(n.at) \notin Roots
                  /\ \E a \in near[n.depth - 1] :
                        Fqn(a) = n.via /\ n.at \in Neighbours(a, goal.dir)
            /\ \A m, n \in nodes : Fqn(m.at) = Fqn(n.at) => m = n
            /\ FqnsAreUnique =>
                  \A a \in near[limit] \ goal.from :
                      \E n \in nodes : n.at = a /\ a \notin near[n.depth - 1]

\* Backwards and forwards agree: "pyq tests" names exactly the collected tests
\* whose own calls lead to the symbol; what it names beside them is a test-named
\* function within a function.  It claims to be exhaustive just when the symbol
\* exists and is no framework entry.
TestsAreDual ==
    verb = "tests" /\ Finished =>
        /\ FqnsAreUnique =>
              TestRows \cap CollectedTests =
                  {t \in CollectedTests \ goal.from :
                      Reached([a \in Anchors |-> OutgoingAt(a)], {t}) \cap goal.from # {}}
        /\ \A t \in TestRows \ CollectedTests : \E f \in Functions : IsWithin(t, f)
        /\ Exhaustive <=> /\ goal.from # {}
                          /\ Roots \cap FrameworkEntries = {}

\* "pyq deadcode" reports nothing that a root may run, by calls and overrides,
\* and everything else, by itself or with a reported definition around it; so it
\* does where each definition has an FQN of its own.
DeadIsExact ==
    verb = "deadcode" /\ Finished /\ FqnsAreUnique =>
        LET live == Live(goal.from) IN
        /\ visited = FqnsOf(live)
        /\ Dead(visited) \cap live = {}
        /\ \A a \in (Defs \ live) \ Dead(visited) :
              \E d \in Dead(visited) : IsWithin(a, d)

\* "pyq canonical" lists as untested just the public definitions that no
\* collected test may run, nor anything directly in them if they are classes,
\* and that no framework enters; never one with a caller that a test reaches.
UntestedIsExact ==
    verb = "canonical" /\ Finished /\ FqnsAreUnique =>
        LET run == Live(CollectedTests)
            listed == UntestedPublic(visited)
            Covered(a) == a \in run \/ (a \in Classes /\ \E b \in run \cap Defs : a \in ClassAround(b))
        IN  /\ listed = {a \in Defs : /\ IsPublicSurface(a) /\ ~InTestTree(a[1])
                                      /\ ~Covered(a) /\ Fqn(a) \notin FrameworkEntries}
            /\ \A a \in listed : CallerIndex(Fqn(a)) \cap visited = {}
            /\ \A r \in Inventory : r.fqn \in visited

\* "pyq imports --cycles" shows one cycle for each set of modules that import
\* each other when they are imported, and it is one: its modules differ and each
\* imports the next, the last the first.
CyclesAreExact ==
    verb = "cycles" /\ AllMet =>
        LET run == UNION {EdgesOf(s) : s \in {t \in project.imports : RunsOnImport(t.within)}}
            runs == [m \in Modules |->
                        {e.target : e \in {d \in run : d.importer = m /\ d.target \in Modules}}]
            Leads(m) == Reached(runs, runs[m])
        IN  /\ sccs = {{m} \cup {n \in Leads(m) : m \in Leads(n)} : m \in Modules}
            /\ Cardinality(Cycles) = Cardinality({s \in sccs : \E m \in s : m \in Leads(m)})
            /\ \A c \in Cycles :
                  /\ \A i, j \in DOMAIN c : c[i] = c[j] => i = j
                  /\ \A i \in DOMAIN c : c[(i % Len(c)) + 1] \in runs[c[i]]

\* "pyq refs" lists just the definitions meant, their imports by name and what uses
\* them under no alias, or calls them as ty sees.  "pyq callers" lists the calls among
\* these that ty sees from the definition, or by the name in a file that the qualifier
\* admits, and calls them all of them just when no framework enters the symbol.  A row
\* names a definition, if any, that it is a place of; but "pyq defs" takes the only
\* definition named for that of each import.
SweepIsExact ==
    verb \in SweepVerbs /\ Finished =>
        LET keys == {r.key : r \in SweepRows}
            named == Named(goal.symbol)
            meant == Meant(goal.symbol)
            Target(key) == IF key[1] = "def" THEN key[2] ELSE key[2].to
            callers == {<<"use", c>> : c \in {d \in project.calls :
                /\ d.to \in meant
                /\ \/ d.by \in goal.sight
                   \/ d.by = "name" /\ EndsWith(ScopeFqn(d.from[1], <<>>), Owner(goal.symbol))}}
        IN  /\ verb = "callers" =>
                  /\ keys = callers
                  /\ CallersExhaustive <=> FqnsOf(StartAnchors(goal.symbol)) \cap FrameworkEntries = {}
            /\ verb = "refs" =>
                  keys = {<<"def", a>> : a \in meant} \cup callers
                         \cup {<<"import", b>> : b \in {x \in Bindings : x.to \in meant /\ x.by = "name"}}
                         \cup {<<"use", u>> : u \in {x \in UsesOfNames : x.to \in meant /\ x.by # "alias"}}
            /\ \A r \in SweepRows : r.resolves_to # None =>
                  \E a \in named :
                     /\ r.resolves_to = <<"def", a>>
                     /\ Target(r.key) = a \/ (verb = "defs" /\ Target(r.key) \notin named)

\* reachable_from: "Every FQN forward-reachable from any of `seeds`".
EverythingReachableIsFound ==
    verb = "deadcode" /\ Finished => FqnsOf(Live(goal.from)) \subseteq visited

=============================================================================
