------------------------------ MODULE Project -------------------------------
(***************************************************************************)
(* What one pyq command knows of a checkout when it answers a static       *)
(* query: the syntactic index (FileIndex and Def of pyq-index), the        *)
(* structural maps CallGraph::assemble builds from it, and ty's answers    *)
(* about it, from the recording that every command replays.  Nothing of it *)
(* changes while the command runs.                                         *)
(*                                                                         *)
(* An anchor <<f, n>> is the n-th place of the f-th file.  The nodes are   *)
(* the anchors of functions and classes, of the lambdas and comprehensions *)
(* only ty names, of variables, and of the module itself (its own code).   *)
(* Strings are compared, never taken apart: which names a prefix or suffix *)
(* test accepts is a constant.                                             *)
(***************************************************************************)
EXTENDS Naturals, Sequences, FiniteSets, SequencesExt, Extract

CONSTANTS
    Projects,           \* the checkouts considered, as records of what follows
    TestFileNames,      \* base names test_*.py and *_test.py
    TestFunctionNames,  \* names test*
    TestClassNames,     \* names Test*
    TestCaseNames,      \* base classes *TestCase
    DunderNames,        \* names __*__
    PrivateNames,       \* names _*, the dunder ones included
    None                \* what a name resolves to outside the project

Kinds == {"function", "class", "lambda", "variable", "module"}

\* What the visitor and ty guarantee of any checkout.  A scope is pushed right after
\* the definition that opens it, nothing calls a module, and an import is a statement,
\* which no header and no lambda has in it.
Indexed(p) ==
    LET places == DOMAIN p.nodes
        defs == {a \in places : p.nodes[a].kind \in {"function", "class"}}
    IN  /\ IsFiniteSet(places) /\ IsFiniteSet(p.calls) /\ IsFiniteSet(p.mentions)
        /\ places \subseteq (DOMAIN p.files) \X Nat /\ None \notin places
        /\ DOMAIN p.files \subseteq Nat /\ IsFiniteSet(DOMAIN p.files)
        /\ \A f \in DOMAIN p.files : p.files[f].module \in Seq(STRING)
        /\ \A a \in places :
              /\ p.nodes[a].kind \in Kinds
              /\ p.nodes[a].name \in STRING /\ p.nodes[a].container \in Seq(STRING)
              /\ \E m \in places : m[1] = a[1] /\ p.nodes[m].kind = "module"
        /\ \A a \in defs : p.nodes[a].container # <<>> =>
              \E d \in defs :
                 /\ d[1] = a[1]
                 /\ p.nodes[a].container = Append(p.nodes[d].container, p.nodes[d].name)
        /\ \A c \in p.calls : {c.from, c.to} \subseteq places /\ p.nodes[c.to].kind # "module"
        /\ \A u \in p.mentions : u.to \in places
        /\ \A s \in p.imports : ~ IsIn("header", s.within) /\ ~ IsIn("lambda", s.within)

ASSUME EveryProjectIsIndexed == \A p \in Projects : Indexed(p)

VARIABLES
    project,    \* the checkout
    recording   \* the recording of its calls: [outgoing, incoming], by anchor

\* How a call spells its target: in the target's own file, by the imported name,
\* under an alias, or as an attribute of something.
Spellings == {"here", "name", "alias", "attribute"}

\* Beside project.calls and project.imports:
Files == project.files        \* the FileIndex of each file
Nodes == project.nodes
Mentions == project.mentions  \* uses of the module's code, no calls
Console == project.console    \* the scripts of pyproject.toml

Node(a) == Nodes[a]
Anchors == DOMAIN Nodes
OfKind(kinds) == {a \in Anchors : Node(a).kind \in kinds}
Defs == OfKind({"function", "class"})
Classes == OfKind({"class"})
Functions == OfKind({"function"})

\* The order of the walk over files and of the visit of a file.
Before(a, b) == a[1] < b[1] \/ (a[1] = b[1] /\ a[2] < b[2])
FirstOf(S) == CHOOSE a \in S : \A b \in S \ {a} : Before(a, b)
LastOf(S) == CHOOSE a \in S : \A b \in S \ {a} : Before(b, a)

\* scope_fqn, with module_components of the path.
ScopeFqn(f, scope) == Files[f].module \o scope

DefScope(a) == Append(Node(a).container, Node(a).name)

\* fqn_of for a def; fallback_fqn for what only ty names, and the bare module
\* for module-scope code and for an anchor that is no callable.
Fqn(a) ==
    ScopeFqn(a[1], CASE Node(a).kind \in {"function", "class"} -> DefScope(a)
                     [] Node(a).kind = "lambda" -> <<Node(a).name>>
                     [] OTHER -> <<>>)

\* The owner of an FQN: rsplit_once('.').
Owner(fqn) == SubSeq(fqn, 1, Len(fqn) - 1)
Leaf(fqn) == fqn[Len(fqn)]

EndsWith(fqn, tail) == IsSuffix(tail, fqn)

DefsNamed(fqn) == {a \in Defs : Fqn(a) = fqn}
FqnsOf(S) == {Fqn(a) : a \in S}

\* def_anchors: of several defs with one FQN the first; None without one.
DefAnchor(fqn) == IF DefsNamed(fqn) = {} THEN None ELSE FirstOf(DefsNamed(fqn))

\* start_anchors: the defs a query's leaf and qualifier select.
StartAnchors(symbol) ==
    {a \in Defs :
        /\ Node(a).name = Leaf(symbol)
        /\ EndsWith(Owner(Fqn(a)), Owner(symbol))}

\* symbol_kind of ty: a function directly in a class is a method.
TyKind(a) ==
    IF a \in Functions /\ \E c \in Classes : c[1] = a[1] /\ DefScope(c) = Node(a).container
    THEN "method" ELSE Node(a).kind

\* What n rounds of step lead to from S, S included.
Hops(step, S) ==
    LET after[n \in 0 .. Cardinality(DOMAIN step)] ==
            IF n = 0 THEN S
            ELSE LET before == after[n - 1] IN before \cup UNION {step[x] : x \in before}
    IN  after

\* S and all that step leads to from its members: no way is longer than that.
Reached(step, S) == Hops(step, S)[Cardinality(DOMAIN step)]

-----------------------------------------------------------------------------
(* The recording that every command replays: what it kept of ty's answers *)

\* outgoing_calls: the callees in the body of a.
TyOutgoing(a) == {c.to : c \in {d \in project.calls : d.from = a}}

CallsTo(a) == {c \in project.calls : c.to = a}

\* incoming_calls at the definition: not the callers that import it.
TyIncoming(a) == {c.from : c \in {d \in CallsTo(a) : d.by \in {"here", "attribute"}}}

\* The nodes the waves of record_inner come to: every def, then what is found
\* from one on either side of a call.
Recorded ==
    {a \in Reached([x \in Anchors |-> TyOutgoing(x) \cup TyIncoming(x)], Defs) :
        Node(a).kind # "module"}

\* The callers of a are the transpose of outgoing, ty's own view, and the modules
\* that call a by a name when they are imported.
Record ==
    LET recorded == Recorded IN
    [outgoing |-> [a \in Anchors |-> IF a \in recorded THEN TyOutgoing(a) ELSE {}],
     incoming |-> [a \in Anchors |->
         {c.from : c \in {d \in CallsTo(a) : \/ d.from \in recorded
                                             \/ Node(d.from).kind = "module" /\ d.by # "attribute"}}
         \cup IF a \in recorded THEN TyIncoming(a) ELSE {}]]

\* outgoing_at and incoming_at replay it.
OutgoingAt(a) == recording.outgoing[a]
IncomingAt(a) == recording.incoming[a]

\* Mutant: ty's own view alone.
NeighboursOfDef(a, dir) == IF dir = "forward" THEN OutgoingAt(a) ELSE TyIncoming(a)

\* The sweep over the occurrences of the name adds nothing to what is recorded.
Neighbours(a, dir) == IF dir = "forward" THEN OutgoingAt(a) ELSE IncomingAt(a)

\* The module-scope references a file makes to names the project defines, as
\* resolve_anchor resolves them; "core.main" refers to core only.
ModuleScopeTargets(f) ==
    {u.to : u \in {c \in project.calls : c.from[1] = f /\ Node(c.from).kind = "module" /\ c.by # "attribute"}
                  \cup {m \in Mentions : m.from[1] = f /\ ModuleScope(m.within) /\ m.by # "attribute"}}

\* caller_index: the distinct callers of each FQN, recursion apart.
CallerIndex(fqn) ==
    {Fqn(c.from) : c \in {d \in project.calls :
        d.from \in Defs /\ d.to \in Defs /\ Fqn(d.to) = fqn}} \ {fqn}

=============================================================================
