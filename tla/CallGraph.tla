----------------------------- MODULE CallGraph ------------------------------
(***************************************************************************)
(* The two walks of CallGraph, in pyq-resolve/src/graph.rs: closure, which *)
(* keeps the depth and the edge each node was found by, and reachable_from, *)
(* which keeps only the FQNs and follows override edges too.               *)
(*                                                                         *)
(* Both are one breadth-first loop over a queue of anchors that marks FQNs *)
(* as visited.  The loop is cut into its steps: an anchor is taken from    *)
(* the queue, then its neighbours are looked at one by one, in any order   *)
(* ty may report them.  Seeds come in the order of the files; among those  *)
(* of one FQN, where it matters, in any order, as out of a hash set.       *)
(***************************************************************************)
EXTENDS Deadcode

CONSTANT Unbounded    \* no --depth

VARIABLES
    goal,     \* what is being walked, or None
    seeds,    \* the start anchors not queued yet
    visited,  \* FQNs
    queue,    \* [at, depth] of the nodes to expand
    current,  \* the node being expanded, or None
    todo,     \* its neighbours not looked at yet
    nodes     \* closure's result: [at, depth, via]

walkVars == <<goal, seeds, visited, queue, current, todo, nodes>>

Directions == {"forward", "reverse"}

Idle ==
    /\ goal = None
    /\ seeds = {} /\ visited = {} /\ queue = <<>>
    /\ current = None /\ todo = {} /\ nodes = {}

\* closure(symbol, dir, max_depth): visited is seeded with the roots.
BeginClosure(symbol, dir, limit) ==
    /\ goal' = [walk |-> "closure", dir |-> dir, limit |-> limit,
                from |-> StartAnchors(symbol), extra |-> {}]
    /\ seeds' = StartAnchors(symbol)
    /\ visited' = FqnsOf(StartAnchors(symbol))
    /\ UNCHANGED <<queue, current, todo, nodes>>

\* reachable_from(starts, override_edges)
BeginReachable(starts) ==
    /\ goal' = [walk |-> "reachable", dir |-> "forward", limit |-> Unbounded,
                from |-> starts, extra |-> OverrideEdges]
    /\ seeds' = starts
    /\ UNCHANGED <<visited, queue, current, todo, nodes>>

\* closure queues every root, reachable_from one of each FQN.
Seed ==
    \E a \in {b \in seeds : Fqn(b) = Fqn(FirstOf(seeds))} :
        /\ seeds' = seeds \ {a}
        /\ visited' = visited \cup {Fqn(a)}
        /\ queue' = IF goal.walk = "reachable" /\ Fqn(a) \in visited THEN queue
                    ELSE Append(queue, [at |-> a, depth |-> 0])
        /\ UNCHANGED <<goal, current, todo, nodes>>

\* Mutant: a node at the limit is still expanded.
WithinLimitOrAt(depth) == goal.limit = Unbounded \/ depth <= goal.limit

WithinLimit(depth) == goal.limit = Unbounded \/ depth < goal.limit

Successors(a) ==
    Neighbours(a, goal.dir)
    \cup {e.to : e \in {x \in goal.extra : x.from = Fqn(a)}}

Expand ==
    /\ goal # None /\ seeds = {} /\ todo = {}
    /\ queue # <<>>
    /\ current' = Head(queue)
    /\ queue' = Tail(queue)
    /\ todo' = IF WithinLimit(Head(queue).depth) THEN Successors(Head(queue).at) ELSE {}
    /\ UNCHANGED <<goal, seeds, visited, nodes>>

\* A neighbour whose FQN has been met is passed over, whatever its anchor.
Look ==
    \E a \in todo :
        /\ todo' = todo \ {a}
        /\ IF Fqn(a) \in visited
           THEN UNCHANGED <<visited, queue, nodes>>
           ELSE /\ visited' = visited \cup {Fqn(a)}
                /\ queue' = Append(queue, [at |-> a, depth |-> current.depth + 1])
                /\ nodes' = IF goal.walk = "reachable" THEN nodes
                            ELSE nodes \cup {[at |-> a, depth |-> current.depth + 1,
                                              via |-> Fqn(current.at)]}
        /\ UNCHANGED <<goal, seeds, current>>

Finished == goal # None /\ seeds = {} /\ todo = {} /\ queue = <<>>

\* The command prints its answer and ends.
End ==
    /\ Finished
    /\ goal' = None /\ visited' = {} /\ current' = None /\ nodes' = {}
    /\ UNCHANGED <<seeds, queue, todo>>

=============================================================================
