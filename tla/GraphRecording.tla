--------------------------- MODULE GraphRecording ---------------------------
(***************************************************************************)
(* The recording of the call graph: record_inner, record_incremental and   *)
(* compute_affected of pyq-resolve/src/graph.rs, with the diff and the     *)
(* import adjacency that pyq-cli/src/cache.rs hands them.                  *)
(*                                                                         *)
(* A recording holds ty's answers for every anchor of the tree.  When the  *)
(* tree has changed since, the files that changed, their import component  *)
(* and the files whose recorded answers point into a changed file are      *)
(* recorded again; every other entry is copied.  The question is whether   *)
(* the copies are still what ty would answer.                              *)
(*                                                                         *)
(* A file is reduced to what decides ty's answers about one name f: does   *)
(* it define f, from which file does it import f, under an alias or as f   *)
(* (which re-exports it), and where does it use it: in the body of its     *)
(* function m, in a lambda called there, at module scope, or as the base   *)
(* of its class c.  The tree holds still while it is being recorded.       *)
(***************************************************************************)
EXTENDS Naturals, FiniteSets

CONSTANTS
    Files,
    Menu,             \* Menu[F]: the contents file F may have
    TySeesImporters,  \* does incoming_calls at a definition report callers that
                      \* import it without an alias
    None              \* no file, no import, no anchor

Uses == {"none", "body", "lambda", "module", "base"}
Content == [def : BOOLEAN, imp : Files \cup {None}, alias : BOOLEAN, use : Uses]

ASSUME FilesFinite == IsFiniteSet(Files)
ASSUME NoneIsNothing == None \notin Files \cup Content
ASSUME MenuType == /\ DOMAIN Menu = Files
                   /\ \A F \in Files : Menu[F] \subseteq Content
ASSUME TySeesImportersIsBoolean == TySeesImporters \in BOOLEAN

VARIABLES
    tree,      \* tree[F]: content of F, or None
    recorded,  \* the tree the recording was made from, or None without one
    rec,       \* the GraphRecording
    phase,     \* where record_inner is
    affected,  \* the files it records anew
    frontier,  \* the anchors of the next wave
    seen,      \* the anchors of this and earlier waves
    lostEdges  \* (history) how import edges have gone since the last recording
               \* of the whole tree: "dropped" by an edit, "deleted" with a file

vars == <<tree, recorded, rec, phase, affected, frontier, seen, lostEdges>>

-----------------------------------------------------------------------------
(* Anchors, and what the syntactic index knows about a tree *)

\* A (path, offset): the defs f, m and c, the lambda k, the module itself, the
\* import binding and the use of the imported name.
Anchors == Files \X {"f", "m", "c", "k", "module", "import", "use"}

ASSUME NoneIsNoAnchor == None \notin Anchors

Present(t) == {F \in Files : t[F] # None}
UsedIn(t, kind) == {F \in Present(t) : t[F].use = kind}

Defs(t) ==
    {<<F, "f">> : F \in {G \in Present(t) : t[G].def}}
    \cup {<<F, "m">> : F \in UsedIn(t, "body") \cup UsedIn(t, "lambda")}
    \cup {<<F, "c">> : F \in UsedIn(t, "base")}

Importers(t) == {F \in Present(t) : t[F].imp # None}

Occurrences(t) ==
    {<<F, "import">> : F \in Importers(t)}
    \cup {<<F, "use">> : F \in Present(t) \ UsedIn(t, "none")}

-----------------------------------------------------------------------------
(* ty: what it answers about a tree *)

\* What the name f of module G stands for: its own def, or what G re-exports, over
\* n imports at most.
ExportedIn(t) ==
    LET hop[n \in 0 .. Cardinality(Files)] ==
            [G \in Files |->
                IF t[G] = None THEN None
                ELSE IF t[G].def THEN <<G, "f">>
                ELSE IF n = 0 \/ t[G].imp = None \/ t[G].alias THEN None
                ELSE hop[n - 1][t[G].imp]]
    IN  hop

Exported(t) == ExportedIn(t)[Cardinality(Files)]

\* What F's use, and its import, resolve to.  Without an import, F uses its own f.
Target(t, F) ==
    IF t[F].imp # None THEN Exported(t)[t[F].imp]
    ELSE IF t[F].def THEN <<F, "f">> ELSE None

TyResolve(t, a) == IF a \in Occurrences(t) THEN Target(t, a[1]) ELSE None

TyOutgoing(t, a) ==
    CASE a \in {<<F, "m">> : F \in UsedIn(t, "body")}
      \/ a \in {<<F, "k">> : F \in UsedIn(t, "lambda")} -> {Target(t, a[1])} \ {None}
      [] a \in {<<F, "m">> : F \in UsedIn(t, "lambda")} -> {<<a[1], "k">>}
      [] OTHER -> {}

\* Anchored at a definition, incoming_calls reports the callers in the file and,
\* perhaps, those that import the name unaliased; never an aliased caller.
TyIncoming(t, a) ==
    {b \in Defs(t) \cup {<<F, "k">> : F \in UsedIn(t, "lambda")} :
        /\ a \in TyOutgoing(t, b)
        /\ \/ b[1] = a[1]
           \/ TySeesImporters /\ ~t[b[1]].alias}

TySupertypes(t, a) ==
    IF a \in {<<F, "c">> : F \in UsedIn(t, "base")}
    THEN {Target(t, a[1])} \ {None} ELSE {}

-----------------------------------------------------------------------------
(* The recording; an entry that is absent answers like an empty one *)

Recording == [outgoing : [Anchors -> SUBSET Anchors],
              incoming : [Anchors -> SUBSET Anchors],
              resolve : [Anchors -> Anchors \cup {None}],
              supertypes : [Anchors -> SUBSET Anchors]]

EmptyRecording == [outgoing |-> [a \in Anchors |-> {}],
                   incoming |-> [a \in Anchors |-> {}],
                   resolve |-> [a \in Anchors |-> None],
                   supertypes |-> [a \in Anchors |-> {}]]

\* Mutant: the callers are carried over from the affected files too.
CarryAllCallers(r, redo) ==
    [outgoing |-> [a \in Anchors |-> IF a[1] \in redo THEN {} ELSE r.outgoing[a]],
     incoming |-> r.incoming,
     resolve |-> [a \in Anchors |-> IF a[1] \in redo THEN None ELSE r.resolve[a]],
     supertypes |-> [a \in Anchors |-> IF a[1] \in redo THEN {} ELSE r.supertypes[a]]]

\* The entries anchored outside the files to redo.
CarryOver(r, redo) ==
    [outgoing |-> [a \in Anchors |-> IF a[1] \in redo THEN {} ELSE r.outgoing[a]],
     incoming |-> [a \in Anchors |-> IF a[1] \in redo THEN {} ELSE r.incoming[a]],
     resolve |-> [a \in Anchors |-> IF a[1] \in redo THEN None ELSE r.resolve[a]],
     supertypes |-> [a \in Anchors |-> IF a[1] \in redo THEN {} ELSE r.supertypes[a]]]

\* Files modified, added or removed since the recording.
Changed == {F \in Files : tree[F] # recorded[F]}

\* Mutant: adjacency from importer to imported file only.
AdjacentDownward(t, F, G) == F \in Importers(t) /\ t[F].imp = G /\ G \in Present(t)

\* A <-> B when A imports B and B exists.
Adjacent(t, F, G) ==
    \/ F \in Importers(t) /\ t[F].imp = G /\ G \in Present(t)
    \/ G \in Importers(t) /\ t[G].imp = F /\ F \in Present(t)

\* What the worklist reaches from the changed files.
Component(t, changed) ==
    {F \in Files :
        \A S \in SUBSET Files :
            /\ changed \subseteq S
            /\ \A G \in S, H \in Files : Adjacent(t, G, H) => H \in S
            => F \in S}

\* The safety net: an entry with a callee, caller, target or base in a changed
\* file.  Each file it adds is added alone, not with its own component.
PointsInto(r, a, changed) ==
    \E c \in r.outgoing[a] \cup r.incoming[a] \cup {r.resolve[a]} \cup r.supertypes[a] :
        c # None /\ c[1] \in changed

\* Mutant: no component, only the files that changed and the safety net.
AffectedWithoutComponent(r, t, changed) ==
    changed \cup {a[1] : a \in {b \in Anchors : PointsInto(r, b, changed)}}

\* Mutant: no safety net, only the component.
AffectedWithoutNet(r, t, changed) == Component(t, changed)

ComputeAffected(r, t, changed) ==
    Component(t, changed)
    \cup {a[1] : a \in {b \in Anchors : PointsInto(r, b, changed)}}

-----------------------------------------------------------------------------

TypeOK ==
    /\ tree \in [Files -> Content \cup {None}]
    /\ recorded \in [Files -> Content \cup {None}] \cup {None}
    /\ rec \in Recording
    /\ phase \in {"idle", "edges", "occurrences"}
    /\ affected \subseteq Files
    /\ frontier \subseteq seen
    /\ seen \subseteq Anchors
    /\ phase # "edges" => frontier = {}
    /\ lostEdges \subseteq {"dropped", "deleted"}

Init ==
    /\ tree \in [Files -> Content \cup {None}]
    /\ \A F \in Files : tree[F] \in Menu[F] \cup {None}
    /\ recorded = None
    /\ rec = EmptyRecording
    /\ phase = "idle"
    /\ affected = {}
    /\ frontier = {}
    /\ seen = {}
    /\ lostEdges = {}

-----------------------------------------------------------------------------
(* Edits *)

EditFile(F) ==
    /\ phase = "idle"
    /\ \E c \in Menu[F] :
         /\ tree' = [tree EXCEPT ![F] = c]
         /\ lostEdges' = IF F \in Importers(tree) /\ c.imp # tree[F].imp
                         THEN lostEdges \cup {"dropped"} ELSE lostEdges
    /\ UNCHANGED <<recorded, rec, phase, affected, frontier, seen>>

DeleteFile(F) ==
    /\ phase = "idle"
    /\ F \in Present(tree)
    /\ tree' = [tree EXCEPT ![F] = None]
    /\ lostEdges' = lostEdges \cup {"deleted"}
    /\ UNCHANGED <<recorded, rec, phase, affected, frontier, seen>>

-----------------------------------------------------------------------------
(* Recording *)

\* The defs of the wanted files start the first wave.
Begin(carried, wanted) ==
    LET roots == {a \in Defs(tree) : a[1] \in wanted}
    IN  /\ phase = "idle"
        /\ rec' = carried
        /\ affected' = wanted
        /\ frontier' = roots
        /\ seen' = roots
        /\ phase' = "edges"
        /\ recorded' = tree
        /\ UNCHANGED tree

\* No graph.bin, or one of another schema: record the whole tree.
RecordCold ==
    /\ Begin(EmptyRecording, Files)
    /\ lostEdges' = {}

RecordIncremental ==
    /\ recorded # None
    /\ LET redo == ComputeAffected(rec, tree, Changed)
       IN  Begin(CarryOver(rec, redo), redo)
    /\ UNCHANGED lostEdges

\* The incoming entries a wave adds to: the callees of its anchors gain them as
\* callers, and each of its anchors gains what ty reports.
Gained(a) ==
    {b \in frontier : a \in TyOutgoing(tree, b)}
    \cup (IF a \in frontier THEN TyIncoming(tree, a) ELSE {})

\* Mutant: one wave, over the defs.
WaveOnce ==
    /\ phase = "edges"
    /\ frontier # {}
    /\ rec' = [rec EXCEPT
                 !.outgoing = [a \in Anchors |-> IF a \in frontier
                                                 THEN TyOutgoing(tree, a) ELSE @[a]],
                 !.incoming = [a \in Anchors |-> @[a] \cup Gained(a)]]
    /\ frontier' = {}
    /\ UNCHANGED <<tree, recorded, phase, affected, seen, lostEdges>>

\* Mutant: the neighbours of a wave are not marked as seen.
WaveForgetful ==
    LET found == UNION {TyOutgoing(tree, a) \cup TyIncoming(tree, a) : a \in frontier}
    IN  /\ phase = "edges"
        /\ frontier # {}
        /\ rec' = [rec EXCEPT
                     !.outgoing = [a \in Anchors |-> IF a \in frontier
                                                     THEN TyOutgoing(tree, a) ELSE @[a]],
                     !.incoming = [a \in Anchors |-> @[a] \cup Gained(a)]]
        /\ frontier' = found \ seen
        /\ UNCHANGED <<tree, recorded, phase, affected, seen, lostEdges>>

\* Pass 1, one breadth-first wave.  A neighbour is queried wherever it lives.
Wave ==
    LET found == UNION {TyOutgoing(tree, a) \cup TyIncoming(tree, a) : a \in frontier}
    IN  /\ phase = "edges"
        /\ frontier # {}
        /\ rec' = [rec EXCEPT
                     !.outgoing = [a \in Anchors |-> IF a \in frontier
                                                     THEN TyOutgoing(tree, a) ELSE @[a]],
                     !.incoming = [a \in Anchors |-> @[a] \cup Gained(a)]]
        /\ frontier' = found \ seen
        /\ seen' = seen \cup found
        /\ UNCHANGED <<tree, recorded, phase, affected, lostEdges>>

\* Pass 2.
RecordSupertypes ==
    /\ phase = "edges"
    /\ frontier = {}
    /\ rec' = [rec EXCEPT !.supertypes = [a \in Anchors |->
                  IF a[1] \in affected THEN TySupertypes(tree, a) ELSE @[a]]]
    /\ phase' = "occurrences"
    /\ UNCHANGED <<tree, recorded, affected, frontier, seen, lostEdges>>

\* The files whose module-scope call resolves to a.
ModuleCallers(t, wanted, a) ==
    {F \in UsedIn(t, "module") \cap wanted : TyResolve(t, <<F, "use">>) = a}

\* Pass 3: resolve every occurrence; a call at module scope makes the module a
\* caller of what it resolves to.
RecordOccurrences ==
    /\ phase = "occurrences"
    /\ rec' = [rec EXCEPT
                 !.resolve = [a \in Anchors |-> IF a[1] \in affected
                                                THEN TyResolve(tree, a) ELSE @[a]],
                 !.incoming = [a \in Anchors |->
                     @[a] \cup {<<F, "module">> : F \in ModuleCallers(tree, affected, a)}]]
    /\ phase' = "idle"
    /\ seen' = {}
    /\ UNCHANGED <<tree, recorded, affected, frontier, lostEdges>>

-----------------------------------------------------------------------------

Edit == \E F \in Files : EditFile(F) \/ DeleteFile(F)

Next ==
    \/ Edit
    \/ RecordCold \/ RecordIncremental
    \/ Wave \/ RecordSupertypes \/ RecordOccurrences

Spec == Init /\ [][Next]_vars

-----------------------------------------------------------------------------
(* Properties *)

\* ty's whole answer about a tree: what PYQ_NO_CACHE would record.
FromScratch(t) ==
    LET calls == [a \in Anchors |-> TyOutgoing(t, a)]
    IN  [outgoing |-> calls,
         incoming |-> [a \in Anchors |->
             {b \in Anchors : a \in calls[b]}
             \cup {<<F, "module">> : F \in ModuleCallers(t, Files, a)}],
         resolve |-> [a \in Anchors |-> TyResolve(t, a)],
         supertypes |-> [a \in Anchors |-> TySupertypes(t, a)]]

\* A recording of the tree as it was when it began.
Complete == phase = "idle" /\ recorded # None

\* The worklist of pass 1 misses no node: a recording of the whole tree has
\* every edge, both ways, aliased, from lambdas and from module scope.
ColdIsComplete == Complete /\ affected = Files => rec = FromScratch(recorded)

Forward(r) == <<r.outgoing, r.resolve, r.supertypes>>

\* Every answer that looks forward (callees, targets, bases) is what ty would
\* answer about the recorded tree, however many incremental records led to it,
\* as long as no file was deleted: the import component of what changed, and what
\* pointed into it, is all that can answer differently.
ForwardExact ==
    Complete /\ "deleted" \notin lostEdges => Forward(rec) = Forward(FromScratch(recorded))

\* "The result is byte-identical to a from-scratch record", callers included, as
\* long as no import edge was lost.
IdenticalWhileEdgesGrow ==
    Complete /\ lostEdges = {} => rec = FromScratch(recorded)

\* "It also catches a deleted file's importers": whatever the deletions between
\* two recordings, nothing recorded is anchored in, calls, is called from, resolves
\* to or derives from a file that was gone when the recording was made.
NothingOfTheDeleted ==
    Complete => \A a \in Anchors :
        LET answers == rec.outgoing[a] \cup rec.incoming[a]
                       \cup {rec.resolve[a]} \cup rec.supertypes[a]
        IN  \A b \in answers \ {None} : {a[1], b[1]} \subseteq Present(recorded)

\* The import-component property: a file recorded anew with all its importers and
\* imports has exactly the callers ty would find in the whole tree.
\* (A file the safety net added alone is not promised this.)
ClosedUnderImports(S) ==
    \A F \in S, G \in Files : Adjacent(recorded, F, G) => G \in S

CallersExactInComponent ==
    Complete =>
        LET live == FromScratch(recorded).incoming
        IN  \A S \in SUBSET affected :
                ClosedUnderImports(S) =>
                    \A a \in S \X {"f", "m", "c", "k"} : rec.incoming[a] = live[a]

\* "Byte-identical to a from-scratch record", without the exceptions: no call
\* site is missing from a definition's callers.
NoCallerLost ==
    Complete =>
        LET live == FromScratch(recorded).incoming
        IN  \A a \in Anchors : live[a] \subseteq rec.incoming[a]

=============================================================================
