---------------------------- MODULE ImportGraph -----------------------------
(***************************************************************************)
(* The import graph of pyq-cli/src/graph.rs: what an import statement      *)
(* stands for, and the cycles, found as Tarjan's strongly connected        *)
(* components, a recursion whose calls and returns are steps here.         *)
(*                                                                         *)
(* A module is the sequence of its name's parts.  A statement is           *)
(* [file, level, module, names, within].  The code goes through modules   *)
(* and successors in alphabetical order, the components here in any order; *)
(* of each component one cycle is shown, picked in the order of the files. *)
(***************************************************************************)
EXTENDS Project

VARIABLES
    frames,  \* the calls of strongconnect: [node, todo], the innermost last
    index,   \* of the nodes met so far
    low,
    stack,
    sccs     \* the components found

tarjanVars == <<frames, index, low, stack, sccs>>

Modules == {Files[f].module : f \in DOMAIN Files}

\* Of two files with one module name the last one counts.
ModuleFile(m) == Max({f \in DOMAIN Files : Files[f].module = m})

IsPackage(f) ==
    Files[f].path[Len(Files[f].path)] = "__init__.py"

\* Splitting the empty name of the root's __init__.py yields one empty part.
Parts(m) == IF m = <<>> THEN <<"">> ELSE m

Ascend(base, levels) == SubSeq(base, 1, Len(base) - levels)

\* Where a relative import starts from; above the root it stays there.
Base(s) ==
    LET m == Parts(Files[s.file].module)
        levels == IF IsPackage(s.file) THEN s.level - 1 ELSE s.level
    IN  IF s.level = 0 THEN <<>> ELSE Ascend(m, Min({levels, Len(m)}))

\* resolve_targets: the modules imported from ...
Primary(s) ==
    IF s.module # <<>> THEN {Base(s) \o s.module}
    ELSE IF s.level = 0 THEN {}
    ELSE {Append(Base(s), n) : n \in s.names}

\* ... and what may be their submodules.
Submodules(s) ==
    IF s.module = <<>> THEN {} ELSE {Append(Base(s) \o s.module, n) : n \in s.names}

\* canonicalize_target: exactly, or as the only module with that suffix.
Canonical(target) ==
    LET suffixed == {m \in Modules : m # target /\ EndsWith(m, target)} IN
    IF target \notin Modules /\ Cardinality(suffixed) = 1
    THEN CHOOSE m \in suffixed : TRUE ELSE target

IsInternal(target) == \E m \in Modules : IsPrefix(target, m)

Edge(s, target) ==
    [importer |-> Files[s.file].module, file |-> s.file, target |-> target,
     internal |-> IsInternal(target), context |-> ImportContext(s.within)]

EdgesOf(s) ==
    {Edge(s, Canonical(t)) : t \in Primary(s)}
    \cup {Edge(s, t) : t \in Submodules(s) \cap Modules}
Edges == UNION {EdgesOf(s) : s \in project.imports}

\* imports <module>, imports --reverse <module> and whether it is found.
ImportsOf(name) == {e \in Edges : e.importer = Canonical(name)}
ImportersOf(name) == {e \in Edges : e.target = Canonical(name)}
Knows(name) ==
    LET m == Canonical(name) IN
    m \in Modules \/ \E e \in Edges : m \in {e.importer, e.target}

\* internal_adjacency: what runs when the module is imported.
Adjacent(m) ==
    {e.target : e \in {d \in Edges :
        d.importer = m /\ d.context = "TopLevel" /\ d.target \in Modules}}

-----------------------------------------------------------------------------
(* tarjan_scc *)

Member(s, x) == \E i \in DOMAIN s : s[i] = x

Enter(v, calls) ==
    /\ frames' = Append(calls, [node |-> v, todo |-> Adjacent(v)])
    /\ index' = [m \in DOMAIN index \cup {v} |->
                    IF m = v THEN Cardinality(DOMAIN index) ELSE index[m]]
    /\ low' = [m \in DOMAIN index \cup {v} |->
                    IF m = v THEN Cardinality(DOMAIN index) ELSE low[m]]
    /\ stack' = Append(stack, v)
    /\ UNCHANGED sccs

Root == \E v \in Modules \ DOMAIN index : frames = <<>> /\ Enter(v, frames)

\* Mutant: an edge into a finished component lowers too.
WasMet(w) == w \in DOMAIN index

OnStack(w) == Member(stack, w)

\* The innermost call looks at one successor.
Edgewise ==
    /\ frames # <<>>
    /\ LET top == frames[Len(frames)] IN
       \E w \in top.todo :
          LET calls == [frames EXCEPT ![Len(frames)].todo = @ \ {w}] IN
          IF w \notin DOMAIN index THEN Enter(w, calls)
          ELSE /\ frames' = calls
               /\ low' = IF OnStack(w)
                         THEN [low EXCEPT ![top.node] = Min({@, index[w]})] ELSE low
               /\ UNCHANGED <<index, stack, sccs>>

\* The innermost call returns: it pops its component if it is the root of one,
\* and its caller lowers its own link.
Return ==
    /\ frames # <<>> /\ frames[Len(frames)].todo = {}
    /\ LET v == frames[Len(frames)].node
           at == CHOOSE i \in DOMAIN stack : stack[i] = v
       IN  /\ IF low[v] = index[v]
              THEN /\ sccs' = sccs \cup {{stack[i] : i \in at .. Len(stack)}}
                   /\ stack' = SubSeq(stack, 1, at - 1)
              ELSE UNCHANGED <<sccs, stack>>
           /\ low' = IF Len(frames) = 1 THEN low
                     ELSE [low EXCEPT ![frames[Len(frames) - 1].node] = Min({@, low[v]})]
    /\ frames' = Front(frames)
    /\ UNCHANGED index

AllMet == frames = <<>> /\ Modules \subseteq DOMAIN index

-----------------------------------------------------------------------------
(* cycles *)

IsCyclic(scc) == Cardinality(scc) > 1 \/ \E m \in scc : m \in Adjacent(m)

FirstModule(S) == CHOOSE m \in S : \A n \in S : ModuleFile(m) <= ModuleFile(n)
LastModule(S) == CHOOSE m \in S : \A n \in S : ModuleFile(m) >= ModuleFile(n)

\* extract_cycle: from the first node, on to the last successor each time (the
\* stack's top), until a successor is on the path; the cycle starts there.
ExtractCycle(scc) ==
    LET path[n \in 1 .. Cardinality(scc)] ==
            IF n = 1 THEN FirstModule(scc)
            ELSE LastModule(Adjacent(path[n - 1]) \cap scc)
        Met(n) == {path[i] : i \in 1 .. n} \cap Adjacent(path[n])
        end == CHOOSE n \in DOMAIN path :
                  Met(n) # {} /\ \A k \in 1 .. n - 1 : Met(k) = {}
        start == CHOOSE i \in 1 .. end : path[i] = FirstModule(Met(end))
    IN  [i \in 1 .. end - start + 1 |-> path[start + i - 1]]

Cycles == {ExtractCycle(scc) : scc \in {s \in sccs : IsCyclic(s)}}

=============================================================================
