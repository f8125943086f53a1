----------------------------- MODULE Hierarchy ------------------------------
(***************************************************************************)
(* The class graph of pyq-cli/src/hierarchy.rs and, built on class bases   *)
(* too, pytest's collection rules of tests_map.rs.                         *)
(*                                                                         *)
(* A class writes its bases as a sequence of [name, dotted, to]: the name  *)
(* as written, whether it is a dotted name (Repo[Row] is not), and the     *)
(* class ty takes it for, None outside the project.                        *)
(***************************************************************************)
EXTENDS Project

ClassFqns == FqnsOf(Classes)

\* Hierarchy::build indexes classes by FQN: the last of several stays.
ClassOf(fqn) == LastOf({c \in Classes : Fqn(c) = fqn})

BasesOf(c) == {Node(c).bases[i] : i \in DOMAIN Node(c).bases}

\* d.bases without "object": the dotted names the index recorded.
WrittenBases(c) ==
    {i \in DOMAIN Node(c).bases :
        Node(c).bases[i].dotted /\ Node(c).bases[i].name # "object"}

\* supertypes_at: what ty makes of every base, written as a dotted name or not.
ProjectBases(c) == {i \in DOMAIN Node(c).bases : Node(c).bases[i].to \in Classes}

\* A class that writes no base is not looked at.
Bases(fqn) ==
    LET c == ClassOf(fqn) IN
    IF fqn \notin ClassFqns \/ WrittenBases(c) = {} THEN {}
    ELSE {Fqn(Node(c).bases[i].to) : i \in ProjectBases(c)}

\* has_external_base: fewer bases resolved in the project than written.
HasExternalBase(fqn) ==
    LET c == ClassOf(fqn) IN
    /\ fqn \in ClassFqns
    /\ Cardinality(ProjectBases(c)) < Cardinality(WrittenBases(c))

Supers(fqn) == Reached([c \in ClassFqns |-> Bases(c)], Bases(fqn))

Children(fqn) == {sub \in ClassFqns : fqn \in Bases(sub)}
Subclasses(fqn) == Reached([c \in ClassFqns |-> Children(c)], Children(fqn))

HasExternalAncestor(fqn) ==
    HasExternalBase(fqn) \/ \E base \in Supers(fqn) : HasExternalBase(base)

\* The functions directly in a scope, which need not be a class.
Methods(fqn) ==
    {Node(a).name : a \in {b \in Functions :
        Node(b).container # <<>> /\ ScopeFqn(b[1], Node(b).container) = fqn}}

Overrides(class, method) == {base \in Supers(class) : method \in Methods(base)}
OverriddenBy(class, method) == {sub \in Subclasses(class) : method \in Methods(sub)}

-----------------------------------------------------------------------------
(* tests_map.rs *)

FileName(f) == Files[f].path[Len(Files[f].path)]
IsTestFile(f) == FileName(f) \in TestFileNames

\* test_class_fqns
TestClasses ==
    FqnsOf({c \in Classes :
        /\ IsTestFile(c[1])
        /\ \/ Node(c).name \in TestClassNames
           \/ \E base \in BasesOf(c) : base.dotted /\ base.name \in TestCaseNames})

\* is_collected_test_def
IsCollectedTestDef(a, testClasses) ==
    /\ Node(a).kind = "function"
    /\ IsTestFile(a[1])
    /\ Node(a).name \in TestFunctionNames
    /\ Node(a).container # <<>> => ScopeFqn(a[1], Node(a).container) \in testClasses

\* is_test_node, given an anchor and the kind ty reports.  A function within a
\* function is no method to ty: it qualifies by its name alone.
IsTestNode(a) ==
    /\ IsTestFile(a[1])
    /\ TyKind(a) \in {"function", "method"}
    /\ Leaf(Fqn(a)) \in TestFunctionNames
    /\ TyKind(a) = "method" => Owner(Fqn(a)) \in TestClasses

CollectedTests ==
    LET testClasses == TestClasses IN {a \in Defs : IsCollectedTestDef(a, testClasses)}

=============================================================================
