---------------------------- MODULE QueriesProofs ---------------------------
(***************************************************************************)
(* Theorems about the queries, for any checkouts, symbols and limits,      *)
(* whatever ty's answers are and in whatever order they come.              *)
(*                                                                         *)
(* First facts about sets, graphs and the index; then the inductive        *)
(* invariant of the walks, in parts; then, verb by verb, what the walk and *)
(* the sweep find when they are done, against the definition of what they  *)
(* are to find.                                                            *)
(***************************************************************************)
EXTENDS Queries, SequenceTheorems, FiniteSetTheorems, TLAPS

\* Induction over the natural numbers, for a set of them.
LEMMA Induction ==
    ASSUME NEW S, 0 \in S, \A n \in Nat : n \in S => n + 1 \in S
    PROVE  Nat \subseteq S
<1> SUFFICES ASSUME Nat \ S # {} PROVE FALSE
    OBVIOUS
<1> DEFINE R == OpToRel(<, Nat)
<1>1. \A m, n \in Nat : <<m, n>> \in R <=> m < n
    BY DEF OpToRel
<1>2. IsWellFoundedOn(R, Nat)
    BY NatLessThanWellFounded
<1> HIDE DEF R
<1>3. PICK n \in Nat \ S : \A m \in Nat \ S : ~ (<<m, n>> \in R)
    BY <1>2, WFMin
<1>4. n - 1 \in Nat /\ <<n - 1, n>> \in R
    BY <1>1
<1> QED
    BY <1>3, <1>4

\* One round more.
Around(step, before) == before \cup UNION {step[x] : x \in before}

\* The recursion of Hops has a solution.
LEMMA Hopping ==
    ASSUME NEW step, NEW S, IsFiniteSet(DOMAIN step),
           NEW n \in 0 .. Cardinality(DOMAIN step)
    PROVE  Hops(step, S)[n] = IF n = 0 THEN S ELSE Around(step, Hops(step, S)[n - 1])
<1> DEFINE N == Cardinality(DOMAIN step)
           D(g, i) == IF i = 0 THEN S ELSE Around(step, g[i - 1])
           Ok == {m \in Nat : \E g : g = [i \in 0 .. m |-> D(g, i)]}
<1>0. N \in Nat
    BY FS_CardinalityType
<1>1. 0 \in Ok
  <2> DEFINE g == [i \in 0 .. 0 |-> S]
  <2>1. g = [i \in 0 .. 0 |-> D(g, i)]
      OBVIOUS
  <2> HIDE DEF g, D
  <2> QED
      BY <2>1
<1>2. ASSUME NEW m \in Nat, m \in Ok PROVE m + 1 \in Ok
  <2>1. PICK g : g = [i \in 0 .. m |-> D(g, i)]
      BY <1>2
  <2> DEFINE h == [i \in 0 .. m + 1 |-> IF i = m + 1 THEN D(g, i) ELSE g[i]]
  <2>2. ASSUME NEW i \in 0 .. m + 1 PROVE h[i] = D(h, i)
    <3>1. i # 0 => i - 1 \in 0 .. m /\ h[i - 1] = g[i - 1]
        OBVIOUS
    <3>2. D(g, i) = D(h, i)
      <4> HIDE DEF h
      <4> QED
        BY <3>1
    <3>3. i # m + 1 => g[i] = D(g, i)
      <4> HIDE DEF D
      <4> QED
        BY <2>1
    <3>4. h[i] = IF i = m + 1 THEN D(g, i) ELSE g[i]
      <4> HIDE DEF D
      <4> QED
        OBVIOUS
    <3> HIDE DEF D, h
    <3> QED
        BY <3>2, <3>3, <3>4
  <2>3. h = [i \in 0 .. m + 1 |-> D(h, i)]
    <3>1. h = [i \in 0 .. m + 1 |-> h[i]]
      <4> HIDE DEF D
      <4> QED
        OBVIOUS
    <3> HIDE DEF D, h
    <3> QED
      BY <2>2, <3>1
  <2> HIDE DEF h, D
  <2> QED
      BY <2>3
<1> HIDE DEF Ok
<1>3. N \in Ok
    BY <1>0, <1>1, <1>2, Induction
<1>4. \E g : g = [i \in 0 .. N |-> D(g, i)]
    BY <1>3 DEF Ok
<1>5. Hops(step, S) = CHOOSE g : g = [i \in 0 .. N |-> D(g, i)]
    BY DEF Hops, Around
<1>6. Hops(step, S)[n] = D(Hops(step, S), n)
  <2> HIDE DEF D
  <2>1. Hops(step, S) = [i \in 0 .. N |-> D(Hops(step, S), i)]
      BY <1>4, <1>5
  <2> QED
      BY <2>1
<1> QED
    BY <1>6

\* What the graph of step is: finite, and within its nodes.
IsGraph(step) == IsFiniteSet(DOMAIN step) /\ \A x \in DOMAIN step : step[x] \subseteq DOMAIN step

\* What a number of rounds has come to, and nothing else, is next to what the one before has.
LEMMA HopsStep ==
    ASSUME NEW step, IsGraph(step), NEW S \in SUBSET DOMAIN step
    PROVE  /\ Cardinality(DOMAIN step) \in Nat
           /\ Hops(step, S)[0] = S
           /\ \A n \in 1 .. Cardinality(DOMAIN step) :
                 /\ Hops(step, S)[n - 1] \subseteq Hops(step, S)[n]
                 /\ \A y : y \in Hops(step, S)[n] <=>
                       y \in Hops(step, S)[n - 1] \/ \E x \in Hops(step, S)[n - 1] : y \in step[x]
<1> DEFINE h == Hops(step, S)
<1>1. Cardinality(DOMAIN step) \in Nat
    BY FS_CardinalityType DEF IsGraph
<1>2. h[0] = S
  <2>1. 0 \in 0 .. Cardinality(DOMAIN step)
      BY <1>1
  <2> QED
      BY <2>1, Hopping DEF IsGraph
<1>3. ASSUME NEW n \in 1 .. Cardinality(DOMAIN step)
      PROVE  h[n] = Around(step, h[n - 1])
  <2>1. n \in 0 .. Cardinality(DOMAIN step) /\ n # 0
      BY <1>1
  <2> QED
      BY <2>1, Hopping DEF IsGraph
<1>4. ASSUME NEW n \in 1 .. Cardinality(DOMAIN step)
      PROVE  /\ h[n - 1] \subseteq h[n]
             /\ \A y : y \in h[n] <=> y \in h[n - 1] \/ \E x \in h[n - 1] : y \in step[x]
    BY <1>3 DEF Around
<1> QED
    BY <1>1, <1>2, <1>4 DEF h

\* After as many rounds as there are nodes nothing is left to come to.
LEMMA HopsClosed ==
    ASSUME NEW step, IsGraph(step), NEW S \in SUBSET DOMAIN step
    PROVE  /\ \A n \in 0 .. Cardinality(DOMAIN step) : S \subseteq Hops(step, S)[n] /\ Hops(step, S)[n] \subseteq DOMAIN step
           /\ \A x \in Hops(step, S)[Cardinality(DOMAIN step)] :
                 step[x] \subseteq Hops(step, S)[Cardinality(DOMAIN step)]
<1> DEFINE h == Hops(step, S)
           N == Cardinality(DOMAIN step)
           D == DOMAIN step
<1>1. /\ N \in Nat /\ IsFiniteSet(D) /\ \A x \in D : step[x] \subseteq D
      /\ h[0] = S /\ S \subseteq D
      /\ \A n \in 1 .. N :
            /\ h[n - 1] \subseteq h[n]
            /\ \A y : y \in h[n] <=> y \in h[n - 1] \/ \E x \in h[n - 1] : y \in step[x]
    BY HopsStep DEF IsGraph
<1> HIDE DEF h, N, D
<1> DEFINE T == {n \in Nat : n <= N => S \subseteq h[n] /\ h[n] \subseteq D}
<1>2. 0 \in T
    BY <1>1
<1>3. ASSUME NEW n \in Nat, n \in T PROVE n + 1 \in T
  <2> SUFFICES ASSUME n + 1 <= N PROVE S \subseteq h[n + 1] /\ h[n + 1] \subseteq D
      OBVIOUS
  <2>1. n + 1 \in 1 .. N /\ (n + 1) - 1 = n
      BY <1>1
  <2>2. /\ h[n] \subseteq h[n + 1]
        /\ \A y : y \in h[n + 1] <=> y \in h[n] \/ \E x \in h[n] : y \in step[x]
      BY <1>1, <2>1
  <2>3. S \subseteq h[n] /\ h[n] \subseteq D
      BY <1>1, <1>3, <2>1
  <2> QED
      BY <1>1, <2>2, <2>3
<1>4. \A n \in 0 .. N : S \subseteq h[n] /\ h[n] \subseteq D
  <2>1. Nat \subseteq T
    <3> HIDE DEF T
    <3> QED
      BY <1>2, <1>3, Induction
  <2> QED
      BY <1>1, <2>1

\* While rounds come to something, each adds a node.
<1> DEFINE Still(n) == \A m \in 1 .. n : h[m] # h[m - 1]
           U == {n \in Nat : n <= N /\ Still(n) => Cardinality(h[n]) >= n}
<1>5. \A n \in 0 .. N : IsFiniteSet(h[n]) /\ Cardinality(h[n]) \in Nat /\ Cardinality(h[n]) <= N
    BY <1>1, <1>4, FS_Subset, FS_CardinalityType DEF N, D
<1>6. 0 \in U
    BY <1>1, <1>5
<1>7. ASSUME NEW n \in Nat, n \in U PROVE n + 1 \in U
  <2> SUFFICES ASSUME n + 1 <= N, Still(n + 1) PROVE Cardinality(h[n + 1]) >= n + 1
      OBVIOUS
  <2>1. n + 1 \in 1 .. N /\ (n + 1) - 1 = n /\ n \in 0 .. N /\ n + 1 \in 0 .. N /\ n + 1 \in 1 .. n + 1
      BY <1>1
  <2>2. h[n] \subseteq h[n + 1] /\ h[n + 1] # h[n]
      BY <1>1, <2>1
  <2>3. Still(n)
      BY <2>1
  <2>4. Cardinality(h[n]) >= n
      BY <1>7, <2>1, <2>3
  <2>5. Cardinality(h[n]) < Cardinality(h[n + 1])
    <3> HIDE DEF Still, U
    <3>1. IsFiniteSet(h[n + 1]) /\ Cardinality(h[n]) \in Nat /\ Cardinality(h[n + 1]) \in Nat
        BY <1>5, <2>1
    <3> QED
      BY <2>2, <3>1, FS_Subset
  <2>6. Cardinality(h[n]) \in Nat /\ Cardinality(h[n + 1]) \in Nat
      BY <1>5, <2>1
  <2> QED
      BY <2>4, <2>5, <2>6
<1>8. Nat \subseteq U
  <2> HIDE DEF U
  <2> QED
    BY <1>6, <1>7, Induction

\* So some round came to nothing, or the last one has all.
<1>9. CASE Still(N)
  <2>1. Cardinality(h[N]) >= N /\ N \in 0 .. N
      BY <1>1, <1>8, <1>9
  <2>2. Cardinality(h[N]) = Cardinality(D) /\ h[N] \subseteq D
      BY <1>1, <1>4, <1>5, <2>1 DEF N, D
  <2>3. h[N] = D
    <3> HIDE DEF Still, U, T
    <3>1. Cardinality(h[N]) \in Nat /\ Cardinality(D) \in Nat
        BY <1>5, <2>1, <2>2
    <3> QED
      BY <1>1, <2>2, <3>1, FS_Subset
  <2>4. \A x \in h[N] : step[x] \subseteq h[N]
      BY <1>1, <2>3
  <2> QED
      BY <1>4, <2>4 DEF h, N, D
<1>10. CASE ~Still(N)
  <2>1. PICK m \in 1 .. N : h[m] = h[m - 1]
      BY <1>10
  <2> DEFINE V == {n \in Nat : m + n <= N => h[m + n] = h[m]}
  <2>2. 0 \in V
      BY <1>1, <2>1
  <2>3. \A x \in h[m] : step[x] \subseteq h[m]
      BY <1>1, <2>1
  <2>4. ASSUME NEW n \in Nat, n \in V PROVE n + 1 \in V
    <3> SUFFICES ASSUME m + (n + 1) <= N PROVE h[m + (n + 1)] = h[m]
        OBVIOUS
    <3>1. m + (n + 1) \in 1 .. N /\ (m + (n + 1)) - 1 = m + n /\ m + n <= N
        BY <1>1
    <3>2. /\ h[m + n] \subseteq h[m + (n + 1)]
          /\ \A y : y \in h[m + (n + 1)] <=> y \in h[m + n] \/ \E x \in h[m + n] : y \in step[x]
        BY <1>1, <3>1
    <3>3. h[m + n] = h[m]
        BY <2>4, <3>1
    <3> QED
        BY <2>3, <3>2, <3>3
  <2>5. Nat \subseteq V
    <3> HIDE DEF V
    <3> QED
      BY <2>2, <2>4, Induction
  <2>6. N - m \in Nat /\ m + (N - m) = N
      BY <1>1
  <2>7. h[N] = h[m]
    <3>1. N - m \in V
      <4> HIDE DEF V
      <4> QED
        BY <2>5, <2>6
    <3> QED
      BY <1>1, <2>6, <3>1
  <2>8. \A x \in h[N] : step[x] \subseteq h[N]
      BY <2>3, <2>7
  <2> QED
      BY <1>4, <2>8 DEF h, N, D
<1> QED
    BY <1>9, <1>10

\* Reached is the least set with S that no step leads out of.
LEMMA ReachedIs ==
    ASSUME NEW step, IsGraph(step), NEW S \in SUBSET DOMAIN step
    PROVE  /\ S \subseteq Reached(step, S) /\ Reached(step, S) \subseteq DOMAIN step
           /\ \A x \in Reached(step, S) : step[x] \subseteq Reached(step, S)
           /\ \A C : S \subseteq C /\ (\A x \in C \cap DOMAIN step : step[x] \subseteq C) => Reached(step, S) \subseteq C
<1> DEFINE h == Hops(step, S)
           N == Cardinality(DOMAIN step)
           D == DOMAIN step
<1>1. /\ N \in Nat
      /\ h[0] = S /\ S \subseteq D
      /\ \A n \in 1 .. N :
            /\ h[n - 1] \subseteq h[n]
            /\ \A y : y \in h[n] <=> y \in h[n - 1] \/ \E x \in h[n - 1] : y \in step[x]
    BY HopsStep
<1>2. /\ \A n \in 0 .. N : S \subseteq h[n] /\ h[n] \subseteq D
      /\ \A x \in h[N] : step[x] \subseteq h[N]
    BY HopsClosed
<1> HIDE DEF h, N, D
<1>3. ASSUME NEW C, S \subseteq C, \A x \in C \cap D : step[x] \subseteq C PROVE h[N] \subseteq C
  <2> DEFINE T == {n \in Nat : n <= N => h[n] \subseteq C}
  <2>1. 0 \in T
      BY <1>1, <1>3
  <2>2. ASSUME NEW n \in Nat, n \in T PROVE n + 1 \in T
    <3> SUFFICES ASSUME n + 1 <= N PROVE h[n + 1] \subseteq C
        OBVIOUS
    <3>1. n + 1 \in 1 .. N /\ (n + 1) - 1 = n /\ n \in 0 .. N
        BY <1>1
    <3>2. \A y : y \in h[n + 1] <=> y \in h[n] \/ \E x \in h[n] : y \in step[x]
        BY <1>1, <3>1
    <3>3. h[n] \subseteq C /\ h[n] \subseteq D
        BY <1>2, <2>2, <3>1
    <3> QED
        BY <1>3, <3>2, <3>3
  <2>3. Nat \subseteq T
    <3> HIDE DEF T
    <3> QED
      BY <2>1, <2>2, Induction
  <2> QED
      BY <1>1, <2>3
<1>4. Reached(step, S) = h[N]
    BY DEF Reached, h, N
<1>5. N \in 0 .. N
    BY <1>1
<1> QED
    BY <1>2, <1>3, <1>4, <1>5 DEF D

\* What the index guarantees, in the words of Project.
LEMMA Indexes ==
    ASSUME project \in Projects
    PROVE  /\ IsFiniteSet(Anchors) /\ None \notin Anchors
           /\ \A a \in Anchors :
                 /\ a = <<a[1], a[2]>> /\ a[1] \in Nat /\ a[2] \in Nat
                 /\ a[1] \in DOMAIN Files
                 /\ Node(a).kind \in Kinds
                 /\ Node(a).name \in STRING /\ Node(a).container \in Seq(STRING)
                 /\ \E m \in Anchors : m[1] = a[1] /\ Node(m).kind = "module"
           /\ \A f \in DOMAIN Files : f \in Nat /\ Files[f].module \in Seq(STRING)
           /\ \A a \in Defs : Node(a).container # <<>> =>
                 \E d \in Defs : d[1] = a[1] /\ DefScope(d) = Node(a).container
           /\ \A c \in project.calls :
                 c.from \in Anchors /\ c.to \in Anchors /\ Node(c.to).kind # "module"
           /\ \A u \in Mentions : u.to \in Anchors
           /\ IsFiniteSet(project.calls) /\ IsFiniteSet(Mentions)
<1>1. Indexed(project)
    BY EveryProjectIsIndexed
<1>2. /\ Anchors = DOMAIN project.nodes /\ Files = project.files /\ Mentions = project.mentions
      /\ \A a : Node(a) = project.nodes[a]
    BY DEF Anchors, Nodes, Files, Mentions, Node
<1>3. Defs = {a \in Anchors : Node(a).kind \in {"function", "class"}} /\ \A a : DefScope(a) = Append(Node(a).container, Node(a).name)
    BY DEF Defs, OfKind, DefScope
<1>4. IsFiniteSet(Anchors) /\ None \notin Anchors /\ Anchors \subseteq (DOMAIN Files) \X Nat /\ DOMAIN Files \subseteq Nat
    BY <1>1, <1>2 DEF Indexed
<1>5. \A a \in Anchors : a = <<a[1], a[2]>> /\ a[1] \in Nat /\ a[2] \in Nat /\ a[1] \in DOMAIN Files
    BY <1>4
<1>6. /\ \A a \in Anchors :
                 /\ Node(a).kind \in Kinds
                 /\ Node(a).name \in STRING /\ Node(a).container \in Seq(STRING)
                 /\ \E m \in Anchors : m[1] = a[1] /\ Node(m).kind = "module"
      /\ \A f \in DOMAIN Files : Files[f].module \in Seq(STRING)
    BY <1>1, <1>2 DEF Indexed
<1>7. ASSUME NEW a \in Defs, Node(a).container # <<>>
      PROVE  \E d \in Defs : d[1] = a[1] /\ DefScope(d) = Node(a).container
  <2> DEFINE defs == {b \in DOMAIN project.nodes : project.nodes[b].kind \in {"function", "class"}}
  <2>1. \A b \in defs : project.nodes[b].container # <<>> =>
              \E d \in defs :
                 /\ d[1] = b[1]
                 /\ project.nodes[b].container = Append(project.nodes[d].container, project.nodes[d].name)
      BY <1>1 DEF Indexed
  <2>2. defs = Defs
      BY <1>2, <1>3
  <2> HIDE DEF defs
  <2>3. PICK d \in Defs : /\ d[1] = a[1]
                          /\ project.nodes[a].container = Append(project.nodes[d].container, project.nodes[d].name)
      BY <1>2, <1>7, <2>1, <2>2
  <2> QED
      BY <1>2, <1>3, <2>3
<1>8. \A c \in project.calls :
                 c.from \in Anchors /\ c.to \in Anchors /\ Node(c.to).kind # "module"
    BY <1>1, <1>2 DEF Indexed
<1>9. \A u \in Mentions : u.to \in Anchors
    BY <1>1, <1>2 DEF Indexed
<1>10. IsFiniteSet(project.calls) /\ IsFiniteSet(Mentions)
    BY <1>1, <1>2 DEF Indexed
<1> QED
    BY <1>4, <1>5, <1>6, <1>7, <1>8, <1>9, <1>10

\* Append, and what its owner and its leaf are.
LEMMA Appended ==
    ASSUME NEW T, NEW s \in Seq(T), NEW x \in T
    PROVE  /\ Append(s, x) \in Seq(T) /\ Append(s, x) # <<>>
           /\ SubSeq(Append(s, x), 1, Len(Append(s, x)) - 1) = s
           /\ Append(s, x)[Len(Append(s, x))] = x
<1>1. /\ Append(s, x) \in Seq(T)
      /\ Len(Append(s, x)) = Len(s) + 1 /\ Len(s) \in Nat
      /\ Append(s, x)[Len(s) + 1] = x
      /\ \A i \in 1 .. Len(s) : Append(s, x)[i] = s[i]
    OBVIOUS
<1>2. SubSeq(Append(s, x), 1, Len(s)) = s
  <2>1. SubSeq(Append(s, x), 1, Len(s)) \in Seq(T) /\ Len(SubSeq(Append(s, x), 1, Len(s))) = Len(s)
      BY <1>1
  <2>2. \A i \in 1 .. Len(s) : SubSeq(Append(s, x), 1, Len(s))[i] = s[i]
      BY <1>1
  <2> QED
      BY <2>1, <2>2, SeqEqual
<1> QED
    BY <1>1, <1>2

\* Append and \o.
LEMMA Joined ==
    ASSUME NEW T, NEW s \in Seq(T), NEW t \in Seq(T), NEW x \in T
    PROVE  s \o t \in Seq(T) /\ s \o Append(t, x) = Append(s \o t, x)
<1>1. /\ s \o t \in Seq(T) /\ Append(t, x) \in Seq(T)
      /\ Len(s) \in Nat /\ Len(t) \in Nat
    OBVIOUS
<1>2. /\ Len(s \o Append(t, x)) = Len(s) + (Len(t) + 1) /\ Len(s \o t) = Len(s) + Len(t)
      /\ Len(Append(s \o t, x)) = Len(s) + Len(t) + 1
    BY <1>1
<1>3. s \o Append(t, x) \in Seq(T) /\ Append(s \o t, x) \in Seq(T)
    BY <1>1
<1>4. ASSUME NEW i \in 1 .. Len(s) + Len(t) + 1
      PROVE  (s \o Append(t, x))[i] = Append(s \o t, x)[i]
    BY <1>1, <1>2
<1> QED
    BY <1>1, <1>2, <1>3, <1>4, SeqEqual

\* The FQN of a definition is that of its scope and its name.
LEMMA FqnOfDef ==
    ASSUME project \in Projects, NEW a \in Defs
    PROVE  /\ a \in Anchors
           /\ Fqn(a) = ScopeFqn(a[1], DefScope(a))
           /\ Fqn(a) = Append(ScopeFqn(a[1], Node(a).container), Node(a).name)
           /\ Owner(Fqn(a)) = ScopeFqn(a[1], Node(a).container)
           /\ Leaf(Fqn(a)) = Node(a).name
           /\ ScopeFqn(a[1], Node(a).container) \in Seq(STRING)
           /\ DefScope(a) \in Seq(STRING) /\ DefScope(a) # <<>>
<1>1. a \in Anchors /\ Node(a).kind \in {"function", "class"}
    BY DEF Defs, OfKind
<1>2. /\ Files[a[1]].module \in Seq(STRING) /\ Node(a).container \in Seq(STRING)
      /\ Node(a).name \in STRING
    BY <1>1, Indexes
<1>3. Fqn(a) = ScopeFqn(a[1], DefScope(a))
    BY <1>1 DEF Fqn
<1> DEFINE m == Files[a[1]].module
           t == Node(a).container
           x == Node(a).name
           T == STRING
<1>4. m \in Seq(T) /\ t \in Seq(T) /\ x \in T
    BY <1>2
<1>5. Fqn(a) = m \o Append(t, x) /\ ScopeFqn(a[1], t) = m \o t /\ DefScope(a) = Append(t, x)
    BY <1>3 DEF ScopeFqn, DefScope
<1> HIDE DEF m, t, x, T
<1>6. m \o t \in Seq(T) /\ m \o Append(t, x) = Append(m \o t, x)
    BY <1>4, Joined
<1>7. Append(t, x) \in Seq(T) /\ Append(t, x) # <<>>
    BY <1>4, Appended
<1> DEFINE o == m \o t
<1> HIDE DEF o
<1>8. o \in Seq(T)
    BY <1>6 DEF o
<1>9. SubSeq(Append(o, x), 1, Len(Append(o, x)) - 1) = o /\ Append(o, x)[Len(Append(o, x))] = x
    BY <1>4, <1>8, Appended
<1>10. Fqn(a) = Append(o, x) /\ ScopeFqn(a[1], t) = o
    BY <1>5, <1>6 DEF o
<1>11. Owner(Fqn(a)) = o /\ Leaf(Fqn(a)) = x
    BY <1>9, <1>10 DEF Owner, Leaf
<1> QED
    BY <1>1, <1>3, <1>5, <1>7, <1>8, <1>10, <1>11 DEF x, t, T

\* A set of natural numbers has a least one.
LEMMA Least ==
    ASSUME NEW T \in SUBSET Nat, T # {}
    PROVE  \E n \in T : \A m \in T : n <= m
<1> SUFFICES ASSUME \A n \in T : \E m \in T : ~ (n <= m) PROVE FALSE
    OBVIOUS
<1> DEFINE L == {n \in Nat : \A m \in T : n <= m}
<1>1. 0 \in L
    OBVIOUS
<1>2. ASSUME NEW n \in Nat, n \in L PROVE n + 1 \in L
  <2>1. n \notin T
      BY <1>2
  <2>2. \A m \in T : n + 1 <= m
      BY <1>2, <2>1
  <2> QED
      BY <2>2
<1>3. Nat \subseteq L
  <2> HIDE DEF L
  <2> QED
      BY <1>1, <1>2, Induction
<1>4. PICK t \in T : TRUE
    OBVIOUS
<1>5. t + 1 \in L /\ t \in Nat
    BY <1>3, <1>4
<1> QED
    BY <1>5

\* Of some places in the index one is the first.
LEMMA FirstIs ==
    ASSUME project \in Projects, NEW S \in SUBSET Anchors, S # {}
    PROVE  FirstOf(S) \in S
<1>2. \A a \in S : a = <<a[1], a[2]>> /\ a[1] \in Nat /\ a[2] \in Nat
    BY Indexes
<1>3. PICK f \in {a[1] : a \in S} : \A a \in S : f <= a[1]
  <2> DEFINE fs == {a[1] : a \in S}
  <2>1. fs \in SUBSET Nat /\ fs # {}
      BY <1>2
  <2>2. \A a \in S : a[1] \in fs
      OBVIOUS
  <2>3. \E f \in fs : \A g \in fs : f <= g
    <3> HIDE DEF fs
    <3> QED
      BY <2>1, Least
  <2> QED
      BY <2>2, <2>3
<1>4. PICK n \in {a[2] : a \in {b \in S : b[1] = f}} : \A a \in S : a[1] = f => n <= a[2]
  <2> DEFINE ns == {a[2] : a \in {b \in S : b[1] = f}}
  <2>1. ns \in SUBSET Nat /\ ns # {}
      BY <1>2, <1>3
  <2>2. \A a \in S : a[1] = f => a[2] \in ns
      OBVIOUS
  <2>3. \E n \in ns : \A m \in ns : n <= m
    <3> HIDE DEF ns
    <3> QED
      BY <2>1, Least
  <2> QED
      BY <2>2, <2>3
<1>5. PICK a \in S : a[1] = f /\ a[2] = n
    BY <1>4
<1>6. \A b \in S \ {a} : Before(a, b)
  <2> SUFFICES ASSUME NEW b \in S, b # a PROVE Before(a, b)
      OBVIOUS
  <2>1. f \in Nat /\ n \in Nat /\ b[1] \in Nat /\ b[2] \in Nat /\ b = <<b[1], b[2]>> /\ a = <<a[1], a[2]>>
      BY <1>2, <1>5
  <2>2. f <= b[1] /\ (b[1] = f => n <= b[2])
      BY <1>3, <1>4
  <2>3. b[1] = f => b[2] # n
      BY <1>5, <2>1
  <2> QED
      BY <1>5, <2>1, <2>2, <2>3 DEF Before
<1> QED
    BY <1>6 DEF FirstOf

\* A call within the project is seen from either side, except that the code of a module
\* calls without being asked itself.
LEMMA Dual ==
    ASSUME project \in Projects, recording = Record
    PROVE  /\ Defs \subseteq Recorded /\ Recorded \subseteq Anchors
           /\ \A a \in Recorded : Node(a).kind # "module"
           /\ \A a \in Recorded : OutgoingAt(a) = TyOutgoing(a)
           /\ \A a \in Anchors \ Recorded : OutgoingAt(a) = {}
           /\ \A a \in Anchors : OutgoingAt(a) \subseteq Recorded /\ IncomingAt(a) \subseteq Anchors
           /\ \A a, b \in Anchors : b \in OutgoingAt(a) => a \in IncomingAt(b)
           /\ \A a \in Recorded, b \in Anchors :
                 b \in IncomingAt(a) =>
                    (b \in Recorded /\ a \in OutgoingAt(b)) \/ Node(b).kind = "module"
           /\ \A a \in Anchors : Node(a).kind = "module" => IncomingAt(a) = {}
<1> DEFINE step == [x \in Anchors |-> TyOutgoing(x) \cup TyIncoming(x)]
           R == Reached(step, Defs)
<1>1. /\ IsFiniteSet(Anchors)
      /\ \A c \in project.calls :
            c.from \in Anchors /\ c.to \in Anchors /\ Node(c.to).kind # "module"
    BY Indexes
<1>2. \A x : /\ \A y : y \in TyOutgoing(x) <=> \E c \in project.calls : c.from = x /\ c.to = y
             /\ \A y : y \in TyIncoming(x) <=> \E c \in project.calls : c.to = x /\ c.from = y /\ c.by \in {"here", "attribute"}
    BY DEF TyOutgoing, TyIncoming, CallsTo
<1>3. IsGraph(step) /\ DOMAIN step = Anchors
    BY <1>1, <1>2 DEF IsGraph
<1>4. Defs \subseteq Anchors /\ \A a \in Defs : Node(a).kind # "module"
    BY DEF Defs, OfKind
<1>5. /\ Defs \subseteq R /\ R \subseteq Anchors
      /\ \A x \in R : step[x] \subseteq R
  <2> HIDE DEF step
  <2> QED
    BY <1>3, <1>4, ReachedIs
<1>6. \A x \in R : TyOutgoing(x) \cup TyIncoming(x) \subseteq R
    BY <1>5
<1>7. Recorded = {a \in R : Node(a).kind # "module"}
    BY DEF Recorded
<1> HIDE DEF R, step
<1>8. Defs \subseteq Recorded /\ Recorded \subseteq Anchors /\ \A a \in Recorded : Node(a).kind # "module"
    BY <1>4, <1>5, <1>7
<1>9. \A a \in Anchors : OutgoingAt(a) = IF a \in Recorded THEN TyOutgoing(a) ELSE {}
    BY DEF OutgoingAt, Record
<1>10. \A a \in Anchors : \A b :
          b \in IncomingAt(a) <=>
             \/ a \in Recorded /\ b \in TyIncoming(a)
             \/ \E d \in project.calls :
                   /\ d.to = a /\ d.from = b
                   /\ d.from \in Recorded \/ (Node(d.from).kind = "module" /\ d.by # "attribute")
  <2>1. \A a \in Anchors : IncomingAt(a) =
           {c.from : c \in {d \in CallsTo(a) : \/ d.from \in Recorded
                                               \/ Node(d.from).kind = "module" /\ d.by # "attribute"}}
           \cup IF a \in Recorded THEN TyIncoming(a) ELSE {}
      BY DEF IncomingAt, Record
  <2> QED
      BY <2>1 DEF CallsTo
<1>11. \A a \in Recorded : TyOutgoing(a) \subseteq Recorded
    BY <1>1, <1>2, <1>6, <1>7
<1>12. \A a \in Anchors : OutgoingAt(a) \subseteq Recorded /\ IncomingAt(a) \subseteq Anchors
    BY <1>1, <1>2, <1>8, <1>9, <1>10, <1>11
<1>13. \A a, b \in Anchors : b \in OutgoingAt(a) => a \in IncomingAt(b)
    BY <1>2, <1>9, <1>10
<1>14. ASSUME NEW a \in Recorded, NEW b \in Anchors, b \in IncomingAt(a), Node(b).kind # "module"
       PROVE  b \in Recorded /\ a \in OutgoingAt(b)
  <2>1. CASE b \in TyIncoming(a)
    <3>1. b \in R
        BY <1>6, <1>7, <2>1
    <3>2. b \in Recorded
        BY <1>7, <1>14, <3>1
    <3> QED
        BY <1>2, <1>9, <1>14, <2>1, <3>2
  <2>2. CASE \E d \in project.calls :
                   /\ d.to = a /\ d.from = b
                   /\ d.from \in Recorded \/ (Node(d.from).kind = "module" /\ d.by # "attribute")
      BY <1>2, <1>9, <1>14, <2>2
  <2> QED
      BY <1>8, <1>10, <1>14, <2>1, <2>2
<1>15. ASSUME NEW a \in Anchors, Node(a).kind = "module" PROVE IncomingAt(a) = {}
    BY <1>1, <1>2, <1>10, <1>15
<1> QED
    BY <1>8, <1>9, <1>12, <1>13, <1>14, <1>15

\* The commands that walk the call graph.
Walks == {"graph", "tests", "deadcode", "canonical"}

\* A set of definitions that no call and no override leads out of.
Closed(S) == \A a \in S : Successors(a) \subseteq S

\* The walk starts in S and cannot leave it.
StaysIn(S) == goal.from \subseteq S /\ Closed(S)

\* The anchors that are still to expand.
AnchorsIn(q) == {q[i].at : i \in DOMAIN q}

\* Those of the queue itself.
Waiting == AnchorsIn(queue)

-----------------------------------------------------------------------------
(* The inductive invariant *)

\* Whatever is met is where the walk can lead.
Sound ==
    \A S \in SUBSET Anchors : StaysIn(S) =>
        /\ seeds \subseteq S /\ todo \subseteq S /\ Waiting \subseteq S
        /\ visited \subseteq FqnsOf(S)

\* Nothing is lost: the successors of what was met have been met, unless it is still to
\* be expanded or they are still to be looked at.
Complete ==
    /\ \A a \in goal.from : a \in seeds \/ Fqn(a) \in visited
    /\ \A a \in Anchors : Fqn(a) \in visited =>
          a \in seeds \cup Waiting \/ FqnsOf(Successors(a)) \subseteq visited \cup FqnsOf(todo)
    /\ seeds # {} => todo = {}
    /\ goal.walk = "reachable" => \A a \in seeds : Fqn(a) \notin visited

\* What completeness takes: no --depth, an FQN for each node, and calls that stay
\* within the index.
Plain == goal.limit = Unbounded /\ FqnsAreUnique /\ StaysIn(Anchors)

\* The inductive invariant of both walks.
IInv ==
    /\ \E T : queue \in Seq(T)
    /\ verb \in Verbs \cup {None}
    /\ verb \notin Walks => seeds = {} /\ todo = {} /\ queue = <<>> /\ visited = {}
    /\ verb \in Walks => Sound /\ (Plain => Complete)

-----------------------------------------------------------------------------

\* The checkout does not change under the walk.
LEMMA Fixed ==
    ASSUME UNCHANGED <<project, recording>>
    PROVE  /\ Anchors' = Anchors
           /\ \A a : Fqn(a)' = Fqn(a)
           /\ \A S : FqnsOf(S)' = FqnsOf(S)
           /\ FqnsAreUnique' = FqnsAreUnique
<1>1. Anchors' = Anchors /\ \A a : Fqn(a)' = Fqn(a)
    BY DEF Anchors, Nodes, Fqn, ScopeFqn, Files, DefScope, Node
<1> QED
    BY <1>1 DEF FqnsOf, FqnsAreUnique

\* While the goal is the same, so is where the walk can lead.
LEMMA FixedGoal ==
    ASSUME UNCHANGED <<project, recording, goal>>
    PROVE  /\ \A a : Successors(a)' = Successors(a)
           /\ \A S : StaysIn(S)' = StaysIn(S)
           /\ Plain' = Plain
<1>1. \A a : Successors(a)' = Successors(a)
    BY Fixed DEF Successors, Neighbours, OutgoingAt, IncomingAt
<1>2. \A S : StaysIn(S)' = StaysIn(S)
    BY <1>1 DEF StaysIn, Closed
<1> QED
    BY <1>1, <1>2, Fixed DEF Plain

\* The queue as a set.
LEMMA Queueing ==
    ASSUME NEW T, NEW q \in Seq(T), NEW x
    PROVE  /\ Append(q, x) \in Seq(T \cup {x})
           /\ AnchorsIn(Append(q, x)) = AnchorsIn(q) \cup {x.at}
<1>1. q \in Seq(T \cup {x})
    OBVIOUS
<1>2. /\ Append(q, x) \in Seq(T \cup {x})
      /\ Len(Append(q, x)) = Len(q) + 1
      /\ \A i \in 1 .. Len(q) : Append(q, x)[i] = q[i]
      /\ Append(q, x)[Len(q) + 1] = x
    BY <1>1
<1>3. DOMAIN q = 1 .. Len(q) /\ DOMAIN Append(q, x) = 1 .. Len(q) + 1 /\ Len(q) \in Nat
    BY <1>1, <1>2
<1> QED
    BY <1>2, <1>3 DEF AnchorsIn

\* What is taken from the queue, and what stays.
LEMMA Dequeueing ==
    ASSUME NEW T, NEW q \in Seq(T), q # <<>>
    PROVE  /\ Tail(q) \in Seq(T)
           /\ AnchorsIn(q) = AnchorsIn(Tail(q)) \cup {Head(q).at}
<1>1. /\ Tail(q) \in Seq(T) /\ Len(Tail(q)) = Len(q) - 1 /\ Len(q) \in Nat \ {0}
      /\ \A i \in 1 .. Len(q) - 1 : Tail(q)[i] = q[i + 1]
      /\ Head(q) = q[1]
  <2>1. /\ Tail(q) \in Seq(T) /\ Len(Tail(q)) = Len(q) - 1
        /\ \A i \in 1 .. Len(Tail(q)) : Tail(q)[i] = q[i + 1]
      BY HeadTailProperties
  <2>2. Len(q) \in Nat \ {0}
      BY EmptySeq
  <2>3. Head(q) = q[1]
      OBVIOUS
  <2> QED
      BY <2>1, <2>2, <2>3
<1>2. DOMAIN q = 1 .. Len(q) /\ DOMAIN Tail(q) = 1 .. Len(q) - 1
    BY <1>1
<1>3. \A i \in 1 .. Len(q) : i = 1 \/ (i - 1 \in 1 .. Len(q) - 1 /\ Tail(q)[i - 1] = q[i])
    BY <1>1
<1>4. \A i \in 1 .. Len(q) - 1 : i + 1 \in 1 .. Len(q)
    BY <1>1
<1>5. 1 \in 1 .. Len(q)
    BY <1>1
<1>6. ASSUME NEW i \in DOMAIN q
      PROVE  q[i].at \in {Tail(q)[j].at : j \in DOMAIN Tail(q)} \cup {Head(q).at}
    BY <1>1, <1>2, <1>3
<1>7. ASSUME NEW i \in DOMAIN Tail(q)
      PROVE  Tail(q)[i].at \in {q[j].at : j \in DOMAIN q}
    BY <1>1, <1>2, <1>4
<1>8. Head(q).at \in {q[i].at : i \in DOMAIN q}
    BY <1>1, <1>2, <1>5
<1> QED
    BY <1>1, <1>6, <1>7, <1>8 DEF AnchorsIn

\* Nothing is met at first.
LEMMA InitInv == Init => IInv
<1> SUFFICES ASSUME Init PROVE IInv
    OBVIOUS
<1>1. queue \in Seq({})
    BY DEF Init, Idle
<1> QED
    BY <1>1, NoneIsNoVerb DEF Init, Idle, IInv, Walks, Verbs

-----------------------------------------------------------------------------
(* A walk begins *)

\* A walk begins with its seeds.
LEMMA Beginning ==
    ASSUME IInv, verb = None, UNCHANGED <<project, recording, queue, todo>>,
           verb' \in Walks, seeds' = goal'.from,
           \/ visited' = FqnsOf(goal'.from) /\ goal'.walk = "closure"
           \/ visited' = {}
    PROVE  IInv'
<1>1. seeds = {} /\ todo = {} /\ queue = <<>> /\ visited = {}
    BY NoneIsNoVerb DEF IInv, Walks, Verbs
<1>2. Waiting' = {} /\ todo' = {}
    BY <1>1 DEF Waiting, AnchorsIn
<1>3. Sound'
  <2>1. ASSUME NEW S, goal'.from \subseteq S PROVE visited' \subseteq FqnsOf(S)'
    <3>1. FqnsOf(S)' = FqnsOf(S)
        BY Fixed
    <3> QED
        BY <2>1, <3>1 DEF FqnsOf
  <2> QED
      BY <1>2, <2>1 DEF Sound, StaysIn
<1>4. Plain' => Complete'
  <2> SUFFICES ASSUME Plain' PROVE Complete'
      OBVIOUS
  <2>1. FqnsAreUnique /\ goal'.from \subseteq Anchors
      BY Fixed DEF Plain, StaysIn
  <2>2. ASSUME NEW a \in Anchors, Fqn(a) \in visited' PROVE a \in seeds'
      BY <2>1, <2>2 DEF FqnsOf, FqnsAreUnique
  <2>3. goal'.walk = "reachable" => visited' = {}
      OBVIOUS
  <2> QED
      BY <1>2, <2>2, <2>3, Fixed DEF Complete
<1>5. (\E T : queue \in Seq(T))'
    BY DEF IInv
<1>6. verb' \in Verbs /\ verb' \notin {None, "cycles"}
    BY NoneIsNoVerb DEF Walks, Verbs
<1> QED
    BY <1>3, <1>4, <1>5, <1>6 DEF IInv

\* A command begins.
LEMMA AskInv == IInv /\ Ask => IInv'
<1> SUFFICES ASSUME IInv, Ask PROVE IInv'
    OBVIOUS
<1>1. verb = None /\ UNCHANGED <<project, recording>>
    BY DEF Ask
<1>2. CASE AskGraph
    BY <1>1, <1>2, Beginning DEF AskGraph, BeginClosure, Walks
<1>3. CASE AskTests
    BY <1>1, <1>3, Beginning DEF AskTests, BeginClosure, Walks
<1>4. visited = {}
    BY <1>1, NoneIsNoVerb DEF IInv, Walks, Verbs
<1>5. CASE AskDeadcode
    BY <1>1, <1>4, <1>5, Beginning DEF AskDeadcode, BeginReachable, Walks
<1>6. CASE AskCanonical
    BY <1>1, <1>4, <1>6, Beginning DEF AskCanonical, BeginReachable, Walks
<1>7. CASE AskCycles \/ AskSweep
  <2>1. verb' \in Verbs \ Walks /\ verb' # None
      BY <1>7, NoneIsNoVerb DEF AskCycles, AskSweep, Verbs, Walks, SweepVerbs
  <2>2. UNCHANGED <<seeds, visited, queue, todo>>
      BY <1>7 DEF AskCycles, AskSweep, walkVars
  <2>3. seeds = {} /\ todo = {} /\ queue = <<>> /\ visited = {}
      BY <1>1, NoneIsNoVerb DEF IInv, Walks, Verbs
  <2>4. (\E T : queue \in Seq(T))'
      BY <2>2 DEF IInv
  <2> QED
      BY <2>1, <2>2, <2>3, <2>4 DEF IInv
<1> QED
    BY <1>2, <1>3, <1>5, <1>6, <1>7 DEF Ask

-----------------------------------------------------------------------------
(* A walk goes on *)

\* What every step of a walk starts from.
LEMMA Walking ==
    ASSUME IInv, Walk
    PROVE  /\ verb \in Walks
           /\ UNCHANGED <<project, recording, goal, verb>>
           /\ \E T : queue \in Seq(T)
           /\ Sound /\ (Plain => Complete)
<1>1. seeds # {} \/ queue # <<>> \/ todo # {}
    BY DEF Walk, Seed, Expand, Look
<1>2. verb \in Walks
    BY <1>1 DEF IInv
<1>3. UNCHANGED <<project, recording, goal, verb>>
    BY DEF Walk, Seed, Expand, Look
<1> QED
    BY <1>2, <1>3 DEF IInv

\* Under Plain everything on the way is an anchor, so that its FQN tells it apart.
LEMMA OfTheIndex ==
    ASSUME Sound, Plain
    PROVE  /\ goal.from \subseteq Anchors /\ seeds \subseteq Anchors /\ todo \subseteq Anchors
           /\ \A a \in Anchors : Successors(a) \subseteq Anchors
           /\ \A a, b \in Anchors : Fqn(a) = Fqn(b) => a = b
BY DEF Sound, Plain, StaysIn, Closed, FqnsAreUnique

\* reachable_from takes a seed.
LEMMA SeedInv == IInv /\ Walk /\ Seed => IInv'
<1> SUFFICES ASSUME IInv, Walk, Seed PROVE IInv'
    OBVIOUS
<1>1. PICK a \in seeds :
          /\ seeds' = seeds \ {a}
          /\ visited' = visited \cup {Fqn(a)}
          /\ queue' = IF goal.walk = "reachable" /\ Fqn(a) \in visited THEN queue
                      ELSE Append(queue, [at |-> a, depth |-> 0])
          /\ UNCHANGED <<goal, current, todo, nodes>>
    BY DEF Seed
<1>2. PICK T : queue \in Seq(T)
    BY Walking
<1> DEFINE x == [at |-> a, depth |-> 0]
<1>3. /\ \E U : queue' \in Seq(U)
      /\ \/ Waiting' = Waiting \cup {a}
         \/ goal.walk = "reachable" /\ Fqn(a) \in visited /\ Waiting' = Waiting
  <2>1. CASE goal.walk = "reachable" /\ Fqn(a) \in visited
      BY <1>1, <1>2, <2>1 DEF Waiting
  <2>2. CASE ~(goal.walk = "reachable" /\ Fqn(a) \in visited)
    <3>1. queue' = Append(queue, x) /\ x.at = a
        BY <1>1, <2>2
    <3> HIDE DEF x
    <3>2. /\ Append(queue, x) \in Seq(T \cup {x})
          /\ AnchorsIn(Append(queue, x)) = AnchorsIn(queue) \cup {x.at}
        BY <1>2, Queueing
    <3> QED
        BY <3>1, <3>2 DEF Waiting
  <2> QED
      BY <2>1, <2>2
<1>4. Sound'
  <2> SUFFICES ASSUME NEW S \in SUBSET Anchors, StaysIn(S)
               PROVE  /\ seeds' \subseteq S /\ todo' \subseteq S /\ Waiting' \subseteq S
                      /\ visited' \subseteq FqnsOf(S)
      BY Walking, Fixed, FixedGoal DEF Sound
  <2> QED
      BY <1>1, <1>3, Walking DEF Sound, FqnsOf
<1>5. Plain => Complete'
  <2> SUFFICES ASSUME Plain PROVE Complete'
      OBVIOUS
  <2>1. Complete /\ Sound
      BY Walking
  <2>2. a \in Anchors /\ a \notin seeds'
      BY <1>1, <2>1, OfTheIndex
  <2>3. Waiting' = Waiting \cup {a}
      BY <1>3, <2>1 DEF Complete
  <2>4. \A b \in goal.from : b \in seeds' \/ Fqn(b) \in visited'
      BY <1>1, <2>1 DEF Complete
  <2>5. ASSUME NEW b \in Anchors, Fqn(b) \in visited'
        PROVE  b \in seeds' \cup Waiting' \/ FqnsOf(Successors(b)) \subseteq visited' \cup FqnsOf(todo')
    <3>1. CASE b = a
        BY <2>3, <3>1
    <3>2. CASE b # a
      <4>1. Fqn(b) \in visited
          BY <1>1, <2>1, <2>2, <2>5, <3>2, OfTheIndex
      <4> QED
          BY <1>1, <2>1, <2>3, <3>2, <4>1 DEF Complete
    <3> QED
        BY <3>1, <3>2
  <2>6. seeds' # {} => todo' = {}
      BY <1>1, <2>1 DEF Complete
  <2>7. goal.walk = "reachable" => \A b \in seeds' : Fqn(b) \notin visited'
      BY <1>1, <2>1, <2>2, OfTheIndex DEF Complete
  <2> QED
      BY <1>1, <2>4, <2>5, <2>6, <2>7, Walking, Fixed, FixedGoal DEF Complete
<1> QED
    BY <1>3, <1>4, <1>5, Walking, FixedGoal, NoneIsNoVerb DEF IInv, Walks, Verbs

\* A node is taken from the queue.
LEMMA ExpandInv == IInv /\ Walk /\ Expand => IInv'
<1> SUFFICES ASSUME IInv, Walk, Expand PROVE IInv'
    OBVIOUS
<1>1. PICK T : queue \in Seq(T)
    BY Walking
<1> DEFINE a == Head(queue).at
<1>2. /\ seeds = {} /\ todo = {} /\ queue # <<>> /\ queue' = Tail(queue)
      /\ todo' = IF WithinLimit(Head(queue).depth) THEN Successors(a) ELSE {}
      /\ UNCHANGED <<goal, seeds, visited, nodes>>
    BY DEF Expand
<1>3. queue' \in Seq(T) /\ Waiting = Waiting' \cup {a}
    BY <1>1, <1>2, Dequeueing DEF Waiting
<1> HIDE DEF a
<1>4. Sound'
  <2> SUFFICES ASSUME NEW S \in SUBSET Anchors, StaysIn(S)
               PROVE  /\ seeds' \subseteq S /\ todo' \subseteq S /\ Waiting' \subseteq S
                      /\ visited' \subseteq FqnsOf(S)
      BY Walking, Fixed, FixedGoal DEF Sound
  <2>1. Waiting \subseteq S /\ visited \subseteq FqnsOf(S)
      BY Walking DEF Sound
  <2>2. Successors(a) \subseteq S
      BY <1>3, <2>1 DEF StaysIn, Closed
  <2> QED
      BY <1>2, <1>3, <2>1, <2>2
<1>5. Plain => Complete'
  <2> SUFFICES ASSUME Plain PROVE Complete'
      OBVIOUS
  <2>1. Complete
      BY Walking
  <2>2. todo' = Successors(a)
      BY <1>2 DEF Plain, WithinLimit
  <2>3. ASSUME NEW b \in Anchors, Fqn(b) \in visited
        PROVE  b \in Waiting' \/ FqnsOf(Successors(b)) \subseteq visited \cup FqnsOf(todo')
    <3>1. b \in Waiting \/ FqnsOf(Successors(b)) \subseteq visited \cup FqnsOf({})
        BY <1>2, <2>1, <2>3 DEF Complete
    <3> QED
        BY <1>3, <2>2, <3>1 DEF FqnsOf
  <2> QED
      BY <1>2, <2>1, <2>3, Walking, Fixed, FixedGoal DEF Complete
<1> QED
    BY <1>3, <1>4, <1>5, Walking, FixedGoal, NoneIsNoVerb DEF IInv, Walks, Verbs

\* One of its successors is looked at.
LEMMA LookInv == IInv /\ Walk /\ Look => IInv'
<1> SUFFICES ASSUME IInv, Walk, Look PROVE IInv'
    OBVIOUS
<1>1. PICK a \in todo :
          /\ todo' = todo \ {a}
          /\ \/ Fqn(a) \in visited /\ UNCHANGED <<visited, queue, nodes>>
             \/ /\ visited' = visited \cup {Fqn(a)}
                /\ queue' = Append(queue, [at |-> a, depth |-> current.depth + 1])
          /\ UNCHANGED <<goal, seeds, current>>
    BY DEF Look
<1>2. PICK T : queue \in Seq(T)
    BY Walking
<1> DEFINE x == [at |-> a, depth |-> current.depth + 1]
<1>3. /\ \E U : queue' \in Seq(U)
      /\ visited' = visited \cup {Fqn(a)}
      /\ Waiting' = Waiting \cup {a} \/ (Waiting' = Waiting /\ Fqn(a) \in visited)
  <2>1. CASE Fqn(a) \in visited /\ UNCHANGED <<visited, queue, nodes>>
      BY <1>2, <2>1 DEF Waiting
  <2>2. CASE visited' = visited \cup {Fqn(a)} /\ queue' = Append(queue, x)
    <3>1. x.at = a
        OBVIOUS
    <3> HIDE DEF x
    <3>2. /\ Append(queue, x) \in Seq(T \cup {x})
          /\ AnchorsIn(Append(queue, x)) = AnchorsIn(queue) \cup {x.at}
        BY <1>2, Queueing
    <3> QED
        BY <2>2, <3>1, <3>2 DEF Waiting
  <2> QED
      BY <1>1, <2>1, <2>2
<1>4. Sound'
  <2> SUFFICES ASSUME NEW S \in SUBSET Anchors, StaysIn(S)
               PROVE  /\ seeds' \subseteq S /\ todo' \subseteq S /\ Waiting' \subseteq S
                      /\ visited' \subseteq FqnsOf(S)
      BY Walking, Fixed, FixedGoal DEF Sound
  <2> QED
      BY <1>1, <1>3, Walking DEF Sound, FqnsOf
<1>5. Plain => Complete'
  <2> SUFFICES ASSUME Plain PROVE Complete'
      OBVIOUS
  <2>1. Complete /\ Sound /\ a \in Anchors
      BY Walking, OfTheIndex
  <2>2. seeds = {}
      BY <1>1, <2>1 DEF Complete
  <2>3. ASSUME NEW b \in Anchors, Fqn(b) \in visited'
        PROVE  b \in Waiting' \/ FqnsOf(Successors(b)) \subseteq visited' \cup FqnsOf(todo')
    <3>1. CASE Fqn(b) \in visited
      <4>1. b \in Waiting \/ FqnsOf(Successors(b)) \subseteq visited \cup FqnsOf(todo)
          BY <2>1, <2>2, <3>1 DEF Complete
      <4>2. FqnsOf(todo) \subseteq FqnsOf(todo') \cup {Fqn(a)}
          BY <1>1 DEF FqnsOf
      <4> QED
          BY <1>3, <4>1, <4>2
    <3>2. CASE Fqn(b) \notin visited
      <4>1. b = a
          BY <1>3, <2>1, <2>3, <3>2, OfTheIndex
      <4> QED
          BY <1>3, <3>2, <4>1
    <3> QED
        BY <3>1, <3>2
  <2>4. \A b \in goal.from : Fqn(b) \in visited'
      BY <1>3, <2>1, <2>2 DEF Complete
  <2> QED
      BY ZenonT(40), <1>1, <2>2, <2>3, <2>4, Walking, Fixed, FixedGoal DEF Complete
<1> QED
    BY <1>1, <1>3, <1>4, <1>5, Walking, FixedGoal, NoneIsNoVerb DEF IInv, Walks, Verbs

-----------------------------------------------------------------------------

\* The command ends.
LEMMA ExitInv == IInv /\ Exit => IInv'
<1> SUFFICES ASSUME IInv, Exit PROVE IInv'
    OBVIOUS
<1>1. verb' = None /\ None \notin Walks
    BY NoneIsNoVerb DEF Exit, Walks, Verbs
<1>2. CASE verb = "cycles"
  <2>1. UNCHANGED <<seeds, todo, queue, visited>>
      BY <1>2 DEF Exit, walkVars
  <2>2. seeds = {} /\ todo = {} /\ queue = <<>> /\ visited = {} /\ \E T : queue \in Seq(T)
      BY <1>2 DEF IInv, Walks
  <2> QED
      BY <1>1, <2>1, <2>2 DEF IInv
<1>3. CASE verb # "cycles"
  <2>1. Finished /\ visited' = {} /\ UNCHANGED <<seeds, queue, todo>>
      BY <1>3 DEF Exit, Answered, End
  <2>2. (\E T : queue \in Seq(T))'
      BY <2>1 DEF IInv
  <2> QED
      BY <1>1, <2>1, <2>2 DEF IInv, Finished
<1> QED
    BY <1>2, <1>3

\* The invariant is inductive.
LEMMA NextInv == IInv /\ [Next]_vars => IInv'
<1> SUFFICES ASSUME IInv, [Next]_vars PROVE IInv'
    OBVIOUS
<1>1. CASE Ask
    BY <1>1, AskInv
<1>2. CASE Walk
    BY <1>2, SeedInv, ExpandInv, LookInv DEF Walk
<1>3. CASE FindComponents
  <2>1. verb = "cycles" /\ UNCHANGED <<verb, seeds, todo, queue, visited>>
      BY <1>3 DEF FindComponents, walkVars
  <2> QED
      BY <2>1 DEF IInv, Walks
<1>4. CASE Exit
    BY <1>4, ExitInv
<1>5. CASE UNCHANGED vars
  <2>1. UNCHANGED <<project, recording, goal, verb, seeds, todo, queue, visited>>
      BY <1>5 DEF vars, walkVars
  <2>2. Sound' = Sound /\ Complete' = Complete /\ Plain' = Plain
      BY <2>1, Fixed, FixedGoal DEF Sound, Complete, Waiting
  <2> QED
      BY <2>1, <2>2 DEF IInv
<1> QED
    BY <1>1, <1>2, <1>3, <1>4, <1>5 DEF Next

\* The walks of "graph", "tests", "deadcode" and "canonical" at any moment of them.
THEOREM WalkInvariance == Spec => []IInv
<1> QED
    BY InitInv, NextInv, PTL DEF Spec

\* closure and reachable_from of graph.rs meet nothing but what the calls, and the
\* override edges, lead to: whatever set holds the start and all that its members
\* lead to holds a definition for each FQN visited.  So does the least such set.
THEOREM FindsOnlyReachable ==
    Spec => [](verb \in Walks => \A S \in SUBSET Anchors : StaysIn(S) => visited \subseteq FqnsOf(S))
<1>1. IInv => (verb \in Walks => \A S \in SUBSET Anchors : StaysIn(S) => visited \subseteq FqnsOf(S))
    BY DEF IInv, Sound
<1> QED
    BY <1>1, WalkInvariance, PTL

\* And they miss none of it, where no two definitions share an FQN and no --depth
\* was given: the FQNs visited include those of the start, and with an anchor's
\* those of all it leads to, in whatever order the walk came to them.
THEOREM FindsAllReachable ==
    Spec => [](verb \in Walks /\ Finished /\ Plain =>
                  /\ FqnsOf(goal.from) \subseteq visited
                  /\ \A a \in Anchors : Fqn(a) \in visited => FqnsOf(Successors(a)) \subseteq visited)
<1>1. IInv => (verb \in Walks /\ Finished /\ Plain =>
                  /\ FqnsOf(goal.from) \subseteq visited
                  /\ \A a \in Anchors : Fqn(a) \in visited => FqnsOf(Successors(a)) \subseteq visited)
  <2> SUFFICES ASSUME IInv, verb \in Walks, Finished, Plain
               PROVE  /\ FqnsOf(goal.from) \subseteq visited
                      /\ \A a \in Anchors : Fqn(a) \in visited => FqnsOf(Successors(a)) \subseteq visited
      OBVIOUS
  <2>1. Complete /\ seeds = {} /\ todo = {} /\ Waiting = {}
      BY DEF IInv, Finished, Waiting, AnchorsIn
  <2> QED
      BY <2>1 DEF Complete, FqnsOf
<1> QED
    BY <1>1, WalkInvariance, PTL

\* Whatever follows from the checkout alone stays.
LEMMA FixedIndex ==
    ASSUME UNCHANGED project
    PROVE  /\ Record' = Record /\ OverrideEdges' = OverrideEdges /\ CollectedTests' = CollectedTests
           /\ \A symbol : StartAnchors(symbol)' = StartAnchors(symbol)
           /\ Anchors' = Anchors /\ Defs' = Defs
           /\ \A a : Fqn(a)' = Fqn(a)
<1>1. Record' = Record
    BY DEF Record, Recorded, TyOutgoing, TyIncoming, CallsTo, Defs, OfKind, Anchors, Nodes, Node
<1>2. OverrideEdges' = OverrideEdges
    BY DEF OverrideEdges, Overrides, Supers, Bases, ClassOf, Methods, ClassFqns, DefAnchor,
       DefsNamed, FirstOf, LastOf, Fqn, FqnsOf, WrittenBases, ProjectBases, Classes, Functions,
       Defs, OfKind, Anchors, Nodes, Files, Node, ScopeFqn, DefScope, Before
<1>3. CollectedTests' = CollectedTests
    BY DEF CollectedTests, IsCollectedTestDef, TestClasses, IsTestFile, FileName, BasesOf, Fqn,
       FqnsOf, Classes, Defs, OfKind, Anchors, Nodes, Files, Node, ScopeFqn, DefScope
<1>4. \A symbol : StartAnchors(symbol)' = StartAnchors(symbol)
    BY DEF StartAnchors, Fqn, Defs, OfKind, Anchors, Nodes, Files, Node, ScopeFqn, DefScope
<1>5. Anchors' = Anchors /\ Defs' = Defs /\ \A a : Fqn(a)' = Fqn(a)
    BY DEF Fqn, Defs, OfKind, Anchors, Nodes, Files, Node, ScopeFqn, DefScope
<1> QED
    BY <1>1, <1>2, <1>3, <1>4, <1>5

\* def_anchors leads back to the name it was asked for.
LEMMA FirstOfItsName ==
    ASSUME project \in Projects, NEW fqn
    PROVE  DefsNamed(fqn) # {} => DefAnchor(fqn) \in Defs /\ Fqn(DefAnchor(fqn)) = fqn
<1> SUFFICES ASSUME DefsNamed(fqn) # {} PROVE DefAnchor(fqn) \in Defs /\ Fqn(DefAnchor(fqn)) = fqn
    OBVIOUS
<1>1. DefsNamed(fqn) \in SUBSET Anchors
    BY DEF DefsNamed, Defs, OfKind
<1>2. FirstOf(DefsNamed(fqn)) \in DefsNamed(fqn)
    BY <1>1, FirstIs
<1> QED
    BY <1>2 DEF DefAnchor, DefsNamed

\* An override edge ends at a function; so it does in the index.
LEMMA EdgesInIndex ==
    ASSUME project \in Projects, NEW e \in OverrideEdges
    PROVE  e.to \in Anchors
<1>1. PICK c \in ClassFqns : e \in UNION {{[from |-> Append(base, m), to |-> DefAnchor(Append(c, m))] :
                      base \in Overrides(c, m)} : m \in Methods(c)}
    BY DEF OverrideEdges
<1>2. PICK m \in Methods(c) : e.to = DefAnchor(Append(c, m))
    BY <1>1
<1>3. PICK b \in Functions : ScopeFqn(b[1], Node(b).container) = c /\ m = Node(b).name
    BY DEF Methods
<1>4. b \in Defs
    BY DEF Functions, Defs, OfKind
<1>5. Fqn(b) = Append(c, m)
    BY <1>3, <1>4, FqnOfDef
<1>6. DefsNamed(Append(c, m)) # {}
    BY <1>4, <1>5 DEF DefsNamed
<1>7. DefAnchor(Append(c, m)) \in Defs
    BY <1>6, FirstOfItsName
<1> QED
    BY <1>2, <1>7 DEF Defs, OfKind

\* deadcode takes its roots from the index.
LEMMA SeedsInIndex ==
    ASSUME project \in Projects
    PROVE  DeadcodeSeeds \subseteq Anchors
<1>1. Defs \subseteq Anchors
    BY DEF Defs, OfKind
<1>2. ASSUME NEW f PROVE ModuleScopeTargets(f) \subseteq Anchors
    BY Indexes DEF ModuleScopeTargets
<1>3. ASSUME NEW path, ResolveDotted(path) # None PROVE ResolveDotted(path) \in Anchors
  <2> DEFINE suffixed == {fqn \in FqnsOf(Defs) : fqn # path /\ EndsWith(fqn, path)}
  <2>1. \A fqn : DefAnchor(fqn) # None => DefAnchor(fqn) \in Anchors
      BY <1>1, FirstOfItsName DEF DefAnchor
  <2>2. ResolveDotted(path) \in {None, DefAnchor(path), DefAnchor(CHOOSE fqn \in suffixed : TRUE)}
      BY DEF ResolveDotted
  <2> QED
      BY <1>3, <2>1, <2>2
<1>4. ASSUME NEW f PROVE DottedTargets(f) \subseteq Anchors
    BY <1>3 DEF DottedTargets
<1>5. References \subseteq Anchors
    BY <1>2, <1>4 DEF References
<1> QED
    BY <1>1, <1>5 DEF DeadcodeSeeds

-----------------------------------------------------------------------------
(* What the query is *)

\* The checkout, its recording, and what each command asks of them.
Given ==
    /\ project \in Projects /\ recording = Record
    /\ verb \in Verbs \cup {None}
    /\ verb \in {"graph", "tests"} =>
          /\ goal.walk = "closure" /\ goal.extra = {}
          /\ goal.from \subseteq Defs /\ goal.dir \in Directions
          /\ goal.limit \in Limits \cup {Unbounded}
    /\ verb = "tests" => goal.dir = "reverse" /\ goal.limit = Unbounded
    /\ verb \in {"deadcode", "canonical"} =>
          /\ goal.walk = "reachable" /\ goal.dir = "forward" /\ goal.limit = Unbounded
          /\ goal.extra = OverrideEdges /\ goal.from \subseteq Anchors
    /\ verb = "canonical" => goal.from = CollectedTests
    /\ verb \in SweepVerbs =>
          /\ goal.sight \in {{"here", "attribute"}, Spellings}
          /\ goal.from = StartAnchors(goal.symbol)
    /\ verb \notin Verbs \ {"cycles"} => goal = None

\* No command runs at first.
LEMMA GivenFirst == Init => Given
BY NoneIsNoVerb DEF Init, Idle, Given, Verbs, SweepVerbs

\* No step but a command's first and last changes it.
LEMMA GivenStays ==
    ASSUME Given, UNCHANGED <<project, recording, goal, verb>>
    PROVE  Given'
BY FixedIndex DEF Given

\* A symbol stands for definitions.
LEMMA StartInIndex ==
    ASSUME project \in Projects
    PROVE  /\ \A symbol : StartAnchors(symbol) \subseteq Defs
           /\ CollectedTests \subseteq Defs /\ Defs \subseteq Anchors
BY DEF StartAnchors, CollectedTests, Defs, OfKind

\* It is inductive.
LEMMA GivenNext == Given /\ [Next]_vars => Given'
<1> SUFFICES ASSUME Given, [Next]_vars PROVE Given'
    OBVIOUS
<1>1. CASE Ask
  <2>1. verb = None /\ UNCHANGED <<project, recording>> /\ goal = None
      BY <1>1, NoneIsNoVerb DEF Ask, Given
  <2>2. project' \in Projects /\ recording' = Record'
      BY <2>1, FixedIndex DEF Given
  <2>3. /\ Defs' = Defs /\ Anchors' = Anchors /\ OverrideEdges' = OverrideEdges /\ CollectedTests' = CollectedTests
        /\ \A symbol : StartAnchors(symbol)' = StartAnchors(symbol)
      BY <2>1, FixedIndex
  <2>4. CASE AskGraph
    <3>1. PICK symbol \in Symbols, dir \in Directions, limit \in Limits \cup {Unbounded} :
              verb' = "graph" /\ BeginClosure(symbol, dir, limit)
        BY <2>4 DEF AskGraph
    <3>2. /\ goal'.walk = "closure" /\ goal'.extra = {} /\ goal'.from = StartAnchors(symbol)
          /\ goal'.dir = dir /\ goal'.limit = limit
        BY <3>1 DEF BeginClosure
    <3>3. goal'.from \subseteq Defs'
        BY <2>1, <2>3, <3>2, StartInIndex DEF Given
    <3> QED
        BY <2>2, <3>1, <3>2, <3>3, NoneIsNoVerb DEF Given, Verbs, SweepVerbs
  <2>5. CASE AskTests
    <3>1. PICK symbol \in Symbols :
              verb' = "tests" /\ BeginClosure(symbol, "reverse", Unbounded)
        BY <2>5 DEF AskTests
    <3>2. /\ goal'.walk = "closure" /\ goal'.extra = {} /\ goal'.from = StartAnchors(symbol)
          /\ goal'.dir = "reverse" /\ goal'.limit = Unbounded
        BY <3>1 DEF BeginClosure
    <3>3. goal'.from \subseteq Defs'
        BY <2>1, <2>3, <3>2, StartInIndex DEF Given
    <3> QED
        BY <2>2, <3>1, <3>2, <3>3, NoneIsNoVerb DEF Given, Verbs, SweepVerbs, Directions
  <2>6. CASE AskDeadcode \/ AskCanonical
    <3>1. /\ goal'.walk = "reachable" /\ goal'.extra = OverrideEdges
          /\ goal'.dir = "forward" /\ goal'.limit = Unbounded
          /\ \/ verb' = "deadcode" /\ goal'.from = DeadcodeSeeds
             \/ verb' = "canonical" /\ goal'.from = CollectedTests
        BY <2>6 DEF AskDeadcode, AskCanonical, BeginReachable
    <3>2. goal'.from \subseteq Anchors'
        BY <2>3, <3>1, SeedsInIndex, StartInIndex DEF Given
    <3> QED
        BY <2>2, <2>3, <3>1, <3>2, NoneIsNoVerb DEF Given, Verbs, SweepVerbs
  <2>7. CASE AskCycles
    <3>1. verb' = "cycles" /\ goal' = None
        BY <2>1, <2>7 DEF AskCycles, walkVars
    <3> QED
        BY <2>2, <3>1, NoneIsNoVerb DEF Given, Verbs, SweepVerbs
  <2>8. CASE AskSweep
    <3>1. PICK v \in SweepVerbs, symbol \in Symbols, sight \in {{"here", "attribute"}, Spellings} :
            /\ verb' = v
            /\ goal' = [walk |-> "sweep", symbol |-> symbol, sight |-> sight,
                        dir |-> "reverse", from |-> StartAnchors(symbol)]
        BY <2>8 DEF AskSweep
    <3>2. goal'.sight = sight /\ goal'.symbol = symbol /\ goal'.from = StartAnchors(symbol)
        BY <3>1
    <3>3. goal'.from = StartAnchors(goal.symbol)'
        BY <2>3, <3>2
    <3> QED
        BY <2>2, <3>1, <3>2, <3>3, NoneIsNoVerb DEF Given, Verbs, SweepVerbs
  <2> QED
      BY <1>1, <2>4, <2>5, <2>6, <2>7, <2>8 DEF Ask
<1>2. CASE Walk
    BY <1>2, GivenStays DEF Walk, Seed, Expand, Look
<1>3. CASE FindComponents
    BY <1>3, GivenStays DEF FindComponents, walkVars
<1>4. CASE Exit
  <2>1. verb' = None /\ goal' = None /\ UNCHANGED <<project, recording>>
      BY <1>4 DEF Exit, Given, walkVars, End
  <2> QED
      BY <2>1, FixedIndex, NoneIsNoVerb DEF Given, Verbs, SweepVerbs
<1>5. CASE UNCHANGED vars
    BY <1>5, GivenStays DEF vars, walkVars
<1> QED
    BY <1>1, <1>2, <1>3, <1>4, <1>5 DEF Next

\* No walk leaves the index.
LEMMA WithinIndex ==
    ASSUME Given, verb \in Walks
    PROVE  StaysIn(Anchors)
<1>1. goal.from \subseteq Anchors
    BY StartInIndex DEF Given, Walks
<1>2. ASSUME NEW a \in Anchors PROVE Neighbours(a, goal.dir) \subseteq Anchors
    BY Dual DEF Given, Neighbours
<1>3. \A e \in goal.extra : e.to \in Anchors
  <2>1. CASE verb \in {"graph", "tests"}
      BY <2>1 DEF Given
  <2>2. CASE verb \in {"deadcode", "canonical"}
      BY <2>2, EdgesInIndex DEF Given
  <2> QED
      BY <2>1, <2>2 DEF Walks
<1>4. ASSUME NEW a \in Anchors PROVE Successors(a) \subseteq Anchors
    BY <1>2, <1>3 DEF Successors
<1> QED
    BY <1>1, <1>4 DEF StaysIn, Closed

-----------------------------------------------------------------------------
(* What the walk keeps *)

\* An entry of the queue.
Item == [at : Anchors, depth : Nat]

\* The commands that use closure.
Closures == {"graph", "tests"}

\* The queue holds nodes that were met, in some order.
Shape ==
    /\ queue \in Seq(Item)
    /\ todo # {} => current \in Item
    /\ \A i \in DOMAIN queue : Fqn(queue[i].at) \in visited
    /\ verb \notin Closures => nodes = {}

\* What else follows of the seeds and of what is to be looked at.
LEMMA InIndex ==
    ASSUME Given, IInv
    PROVE  /\ seeds \subseteq Anchors /\ todo \subseteq Anchors
           /\ visited \subseteq FqnsOf(Anchors)
           /\ verb \in Walks => \A a \in Anchors : Successors(a) \subseteq Anchors
<1>1. CASE verb \in Walks
  <2>1. StaysIn(Anchors) /\ Sound
      BY <1>1, WithinIndex DEF IInv
  <2> QED
      BY <2>1 DEF Sound, StaysIn, Closed
<1>2. CASE verb \notin Walks
  <2>1. seeds = {} /\ todo = {} /\ visited = {}
      BY <1>2 DEF IInv
  <2> QED
      BY <1>2, <2>1
<1> QED
    BY <1>1, <1>2

\* What is in a queue after one more.
LEMMA Putting ==
    ASSUME NEW T, NEW q \in Seq(T), NEW x \in T
    PROVE  /\ Append(q, x) \in Seq(T)
           /\ \A i \in DOMAIN q : i \in Nat /\ i \in DOMAIN Append(q, x) /\ Append(q, x)[i] = q[i] /\ q[i] \in T
           /\ \A i \in DOMAIN Append(q, x) :
                 \/ i \in DOMAIN q /\ Append(q, x)[i] = q[i]
                 \/ i \in Nat /\ Append(q, x)[i] = x /\ \A j \in DOMAIN q : j < i
           /\ \E i \in DOMAIN Append(q, x) : Append(q, x)[i] = x
<1>1. /\ Append(q, x) \in Seq(T)
      /\ Len(Append(q, x)) = Len(q) + 1 /\ Len(q) \in Nat
      /\ \A i \in 1 .. Len(q) : Append(q, x)[i] = q[i] /\ q[i] \in T
      /\ Append(q, x)[Len(q) + 1] = x
    OBVIOUS
<1>2. DOMAIN q = 1 .. Len(q) /\ DOMAIN Append(q, x) = 1 .. Len(q) + 1
    BY <1>1
<1> QED
    BY <1>1, <1>2

\* What is in a queue after one less.
LEMMA Taking ==
    ASSUME NEW T, NEW q \in Seq(T), q # <<>>
    PROVE  /\ Tail(q) \in Seq(T) /\ Head(q) \in T
           /\ 1 \in DOMAIN q /\ q[1] = Head(q)
           /\ \A i \in DOMAIN q : i \in Nat /\ 1 <= i /\ q[i] \in T
           /\ \A i \in DOMAIN Tail(q) : i \in Nat /\ i + 1 \in DOMAIN q /\ Tail(q)[i] = q[i + 1]
           /\ \A i \in DOMAIN q : q[i] = Head(q) \/ \E j \in DOMAIN Tail(q) : Tail(q)[j] = q[i]
<1>1. /\ Tail(q) \in Seq(T) /\ Len(Tail(q)) = Len(q) - 1
      /\ \A i \in 1 .. Len(Tail(q)) : Tail(q)[i] = q[i + 1]
    BY HeadTailProperties
<1>2. Len(q) \in Nat \ {0} /\ Head(q) = q[1]
    BY EmptySeq
<1>3. DOMAIN q = 1 .. Len(q) /\ DOMAIN Tail(q) = 1 .. Len(q) - 1
    BY <1>1, <1>2
<1>4. \A i \in 1 .. Len(q) : i = 1 \/ (i - 1 \in 1 .. Len(q) - 1 /\ Tail(q)[i - 1] = q[i])
    BY <1>1, <1>2
<1>5. \A i \in 1 .. Len(q) : q[i] \in T
    OBVIOUS
<1>6. 1 \in DOMAIN q /\ \A i \in DOMAIN q : i \in Nat /\ 1 <= i /\ q[i] \in T
    BY <1>2, <1>3, <1>5
<1>7. \A i \in DOMAIN Tail(q) : i \in Nat /\ i + 1 \in DOMAIN q /\ Tail(q)[i] = q[i + 1]
    BY <1>1, <1>2, <1>3
<1>8. \A i \in DOMAIN q : q[i] = Head(q) \/ \E j \in DOMAIN Tail(q) : Tail(q)[j] = q[i]
    BY <1>2, <1>3, <1>4
<1>9. Head(q) \in T
    BY <1>2, <1>6
<1> QED
    BY <1>1, <1>2, <1>6, <1>7, <1>8, <1>9

\* The item a walk appends is one.
LEMMA NewItem ==
    ASSUME NEW a \in Anchors, NEW d \in Nat
    PROVE  [at |-> a, depth |-> d] \in Item /\ [at |-> a, depth |-> d].at = a /\ [at |-> a, depth |-> d].depth = d
BY DEF Item

\* The queue is empty at first.
LEMMA ShapeFirst == Init => Shape
<1> SUFFICES ASSUME Init PROVE Shape
    OBVIOUS
<1>1. queue = <<>> /\ todo = {} /\ nodes = {}
    BY DEF Init, Idle
<1>2. queue \in Seq(Item) /\ DOMAIN queue = {}
    BY <1>1
<1> QED
    BY <1>1, <1>2 DEF Shape

\* It is inductive.
LEMMA ShapeNext == Given /\ IInv /\ Shape /\ [Next]_vars => Shape'
<1> SUFFICES ASSUME Given, IInv, Shape, [Next]_vars PROVE Shape'
    OBVIOUS
<1>0. UNCHANGED <<project, recording>>
    BY DEF Next, Ask, Walk, FindComponents, Exit, vars
<1>1. Item' = Item /\ \A a : Fqn(a)' = Fqn(a)
    BY <1>0, Fixed DEF Item
<1>2. CASE Ask
  <2>1. verb = None /\ UNCHANGED <<queue, todo, nodes>>
      BY <1>2 DEF Ask, AskGraph, AskTests, AskDeadcode, AskCanonical, AskCycles, AskSweep,
         BeginClosure, BeginReachable, walkVars
  <2>2. verb \notin Walks /\ verb \notin Closures
      BY <2>1, NoneIsNoVerb DEF Walks, Verbs, Closures
  <2>3. queue = <<>> /\ todo = {} /\ nodes = {}
      BY <2>2 DEF IInv, Shape
  <2>4. DOMAIN queue' = {} /\ queue' \in Seq(Item)
      BY <2>1, <2>3
  <2> QED
      BY <1>1, <2>1, <2>3, <2>4 DEF Shape
<1>3. CASE Walk
  <2>0. UNCHANGED verb /\ verb \in Walks
      BY <1>3, Walking
  <2>1. CASE Seed
    <3>1. PICK a \in seeds :
              /\ visited' = visited \cup {Fqn(a)}
              /\ queue' = queue \/ queue' = Append(queue, [at |-> a, depth |-> 0])
              /\ UNCHANGED <<current, todo, nodes>>
        BY <2>1 DEF Seed
    <3> DEFINE x == [at |-> a, depth |-> 0]
    <3>2. x \in Item /\ x.at = a
        BY InIndex, NewItem
    <3>3. queue' = queue \/ queue' = Append(queue, x)
        BY <3>1
    <3> HIDE DEF x
    <3>4. queue' \in Seq(Item) /\ \A i \in DOMAIN queue' : Fqn(queue'[i].at) \in visited'
      <4>0. queue \in Seq(Item) /\ \A i \in DOMAIN queue : Fqn(queue[i].at) \in visited
          BY DEF Shape
      <4>1. CASE queue' = queue
          BY <3>1, <4>0, <4>1
      <4>2. CASE queue' = Append(queue, x)
        <5>1. queue' \in Seq(Item)
            BY <3>2, <4>0, <4>2, Putting
        <5>2. ASSUME NEW i \in DOMAIN queue' PROVE Fqn(queue'[i].at) \in visited'
            BY <3>1, <3>2, <4>0, <4>2, Putting
        <5> QED
            BY <5>1, <5>2
      <4> QED
          BY <3>3, <4>1, <4>2
    <3> QED
        BY <1>1, <2>0, <3>1, <3>4 DEF Shape
  <2>2. CASE Expand
    <3>1. /\ queue # <<>> /\ current' = Head(queue) /\ queue' = Tail(queue)
          /\ UNCHANGED <<visited, nodes>>
        BY <2>2 DEF Expand
    <3>2. queue' \in Seq(Item) /\ current' \in Item /\ \A i \in DOMAIN queue' : Fqn(queue'[i].at) \in visited'
        BY <3>1, Taking DEF Shape
    <3> QED
        BY <1>1, <2>0, <3>1, <3>2 DEF Shape
  <2>3. CASE Look
    <3>1. PICK a \in todo :
              /\ \/ Fqn(a) \in visited /\ UNCHANGED <<visited, queue, nodes>>
                 \/ /\ visited' = visited \cup {Fqn(a)}
                    /\ queue' = Append(queue, [at |-> a, depth |-> current.depth + 1])
              /\ goal.walk = "reachable" => UNCHANGED nodes
              /\ UNCHANGED current /\ todo' \subseteq todo
        BY <2>3 DEF Look
    <3> DEFINE x == [at |-> a, depth |-> current.depth + 1]
    <3>2. a \in Anchors /\ current \in Item
        BY InIndex DEF Shape
    <3>3. current.depth + 1 \in Nat
        BY <3>2 DEF Item
    <3>4. x \in Item /\ x.at = a
        BY <3>2, <3>3, NewItem
    <3>5. (visited' = visited /\ queue' = queue) \/ (visited' = visited \cup {Fqn(a)} /\ queue' = Append(queue, x))
        BY <3>1
    <3> HIDE DEF x
    <3>6. queue' \in Seq(Item) /\ \A i \in DOMAIN queue' : Fqn(queue'[i].at) \in visited'
      <4>1. CASE visited' = visited /\ queue' = queue
          BY <4>1 DEF Shape
      <4>2. CASE visited' = visited \cup {Fqn(a)} /\ queue' = Append(queue, x)
          BY <4>2, <3>4, Putting DEF Shape
      <4> QED
          BY <3>5, <4>1, <4>2
    <3>7. verb \notin Closures => goal.walk = "reachable"
        BY <2>0 DEF Given, Walks, Closures
    <3> QED
        BY <1>1, <2>0, <3>1, <3>2, <3>6, <3>7 DEF Shape
  <2> QED
      BY <1>3, <2>1, <2>2, <2>3 DEF Walk
<1>4. CASE FindComponents
    BY <1>1, <1>4 DEF FindComponents, walkVars, Shape
<1>5. CASE Exit
  <2>1. CASE verb = "cycles"
    <3>1. UNCHANGED <<queue, todo, current, visited, nodes>> /\ nodes = {}
        BY <1>5, <2>1 DEF Exit, walkVars, Shape, Closures
    <3> QED
        BY <1>1, <3>1 DEF Shape
  <2>2. CASE verb # "cycles"
    <3>1. queue = <<>> /\ todo = {} /\ UNCHANGED <<queue, todo>> /\ nodes' = {}
        BY <1>5, <2>2 DEF Exit, Answered, End, Finished
    <3>2. DOMAIN queue' = {} /\ queue' \in Seq(Item)
        BY <3>1
    <3> QED
        BY <1>1, <3>1, <3>2 DEF Shape
  <2> QED
      BY <2>1, <2>2
<1>6. CASE UNCHANGED vars
    BY <1>1, <1>6 DEF vars, walkVars, Shape
<1> QED
    BY <1>2, <1>3, <1>4, <1>5, <1>6 DEF Next

-----------------------------------------------------------------------------
(* closure goes layer by layer *)

\* A start, or a node of the result, with its distance.
Found(a, d) ==
    \/ a \in goal.from /\ d = 0
    \/ \E n \in nodes : n.at = a /\ n.depth = d

\* A row is within the limit and has an edge of a row, or a root, one nearer.
FoundByAnEdge(n) ==
    /\ n.at \in Anchors /\ n.depth \in Nat \ {0}
    /\ goal.limit = Unbounded \/ n.depth <= goal.limit
    /\ Fqn(n.at) \notin Roots /\ Fqn(n.at) \in visited
    /\ \E a \in Anchors : Found(a, n.depth - 1) /\ Fqn(a) = n.via /\ n.at \in Successors(a)

\* The queue never spans more than one layer.
InLine(e, d) == d <= e /\ e <= d + 1

\* Nothing that a leads to is left out, but what is still to be looked at.
Expanded(a, d) ==
    \A b \in Successors(a) : Fqn(b) \in visited \/ (b \in todo /\ current.at = a)

\* Nodes are found once each, layer by layer, and what is out of the queue is expanded.
Layered ==
    /\ \A n \in nodes : FoundByAnEdge(n)
    /\ \A m, n \in nodes : Fqn(m.at) = Fqn(n.at) => m = n
    /\ Roots \subseteq visited
    /\ \A fqn \in visited : fqn \in Roots \/ \E n \in nodes : Fqn(n.at) = fqn
    /\ \A i \in DOMAIN queue : Found(queue[i].at, queue[i].depth)
    /\ \A i, j \in DOMAIN queue : i < j => InLine(queue[j].depth, queue[i].depth)
    /\ todo # {} =>
          /\ Found(current.at, current.depth) /\ WithinLimit(current.depth)
          /\ todo \subseteq Successors(current.at)
          /\ \A i \in DOMAIN queue : InLine(queue[i].depth, current.depth)
    /\ seeds \subseteq goal.from
    /\ seeds # {} => todo = {} /\ nodes = {} /\ \A i \in DOMAIN queue : queue[i].depth = 0
    /\ \A a \in Anchors, d \in Nat : Found(a, d) /\ WithinLimit(d) =>
          \/ a \in seeds
          \/ \E i \in DOMAIN queue : queue[i].at = a /\ queue[i].depth = d
          \/ Expanded(a, d)

\* So it is while closure runs.
LayerInv == verb \in Closures => Layered

\* While the goal is the same, so are its roots and its limit.
LEMMA FixedWalk ==
    ASSUME UNCHANGED <<project, recording, goal>>
    PROVE  Roots' = Roots /\ \A d : WithinLimit(d)' = WithinLimit(d)
BY Fixed DEF Roots, WithinLimit

\* The first layer is what the symbol stands for.
LEMMA LayersBegin ==
    ASSUME Given, IInv, Shape, verb = None, UNCHANGED <<project, recording>>,
           NEW symbol, NEW dir, NEW limit, BeginClosure(symbol, dir, limit)
    PROVE  Layered'
<1>1. queue = <<>> /\ todo = {} /\ nodes = {}
    BY NoneIsNoVerb DEF IInv, Shape, Walks, Verbs, Closures
<1>2. nodes' = {} /\ todo' = {} /\ DOMAIN queue' = {}
    BY <1>1 DEF BeginClosure
<1>3. seeds' = goal'.from /\ visited' = FqnsOf(goal'.from)
    BY DEF BeginClosure
<1>4. Roots' = visited'
    BY <1>3, Fixed DEF Roots
<1>5. \A a \in Anchors', d \in Nat : Found(a, d)' => a \in seeds'
    BY <1>2, <1>3 DEF Found
<1> QED
    BY <1>2, <1>3, <1>4, <1>5 DEF Layered

\* A root is put in the queue.
LEMMA LayersSeed ==
    ASSUME Given, IInv, Shape, Layered, verb \in Closures, Walk, Seed
    PROVE  Layered'
<1>0. UNCHANGED <<project, recording, goal>> /\ goal.walk = "closure"
    BY Walking DEF Given, Closures
<1>1. PICK a \in seeds :
          /\ seeds' = seeds \ {a}
          /\ visited' = visited \cup {Fqn(a)}
          /\ queue' = Append(queue, [at |-> a, depth |-> 0])
          /\ UNCHANGED <<current, todo, nodes>>
    BY <1>0 DEF Seed
<1> DEFINE x == [at |-> a, depth |-> 0]
<1>2. x \in Item /\ x.at = a /\ x.depth = 0 /\ a \in Anchors
    BY InIndex, NewItem
<1>3. queue' = Append(queue, x) /\ queue \in Seq(Item)
    BY <1>1 DEF Shape
<1> HIDE DEF x
<1>4. /\ \A i \in DOMAIN queue' : (i \in DOMAIN queue /\ queue'[i] = queue[i]) \/ queue'[i] = x
      /\ \A i \in DOMAIN queue : i \in DOMAIN queue' /\ queue'[i] = queue[i]
      /\ \E i \in DOMAIN queue' : queue'[i] = x
    BY <1>2, <1>3, Putting
<1>5. /\ nodes = {} /\ todo = {} /\ seeds \subseteq goal.from
      /\ \A i \in DOMAIN queue : queue[i].depth = 0
      /\ Roots \subseteq visited /\ visited \subseteq Roots
    BY <1>1 DEF Layered
<1>6. Fqn(a) \in Roots
    BY <1>1, <1>5 DEF Roots, FqnsOf
<1>7. visited' = visited /\ nodes' = {} /\ todo' = {}
    BY <1>1, <1>5, <1>6
<1>8. \A i \in DOMAIN queue' : queue'[i].depth = 0 /\ queue'[i].at \in goal.from
  <2>1. \A i \in DOMAIN queue : queue[i].at \in goal.from
      BY <1>5 DEF Layered, Found
  <2> QED
      BY <1>1, <1>2, <1>4, <1>5, <2>1
<1>9. (\A i \in DOMAIN queue : Found(queue[i].at, queue[i].depth))'
    BY <1>0, <1>8 DEF Found
<1>10. \A i, j \in DOMAIN queue' : InLine(queue'[j].depth, queue'[i].depth)
    BY <1>8 DEF InLine
<1>11. ASSUME NEW b \in Anchors, NEW d \in Nat, Found(b, d)', WithinLimit(d)'
       PROVE  \/ b \in seeds'
              \/ \E i \in DOMAIN queue' : queue'[i].at = b /\ queue'[i].depth = d
              \/ Expanded(b, d)'
  <2>1. b \in goal.from /\ d = 0
      BY <1>0, <1>7, <1>11 DEF Found
  <2>2. CASE b = a
      BY <1>2, <1>4, <2>1, <2>2
  <2>3. CASE b # a
    <3>1. Found(b, d) /\ WithinLimit(d)
        BY <1>0, <1>11, <2>1, FixedWalk DEF Found
    <3>2. CASE Expanded(b, d)
        BY <1>0, <1>1, <3>2, Fixed, FixedGoal DEF Expanded
    <3>3. CASE b \in seeds
        BY <1>1, <2>3, <3>3
    <3>4. CASE \E i \in DOMAIN queue : queue[i].at = b /\ queue[i].depth = d
        BY <1>4, <3>4
    <3> QED
        BY <3>1, <3>2, <3>3, <3>4 DEF Layered
  <2> QED
      BY <2>2, <2>3
<1>12. Anchors' = Anchors /\ Roots' = Roots /\ goal' = goal
    BY <1>0, Fixed, FixedWalk
<1>13. /\ Roots' \subseteq visited'
       /\ \A fqn \in visited' : fqn \in Roots'
       /\ seeds' \subseteq goal'.from
       /\ todo' = {} /\ nodes' = {}
       /\ \A i \in DOMAIN queue' : queue'[i].depth = 0
    BY <1>1, <1>5, <1>7, <1>8, <1>12
<1> QED
    BY <1>9, <1>10, <1>11, <1>12, <1>13 DEF Layered

\* What is found stays found.
LEMMA FoundGrows ==
    ASSUME UNCHANGED goal, nodes \subseteq nodes'
    PROVE  \A a, d : Found(a, d) => Found(a, d)'
BY DEF Found

\* The head of the queue is expanded.
LEMMA LayersExpand ==
    ASSUME Given, IInv, Shape, Layered, verb \in Closures, Walk, Expand
    PROVE  Layered'
<1>0. UNCHANGED <<project, recording, goal>>
    BY Walking
<1>x. PICK x : x = Head(queue)
    OBVIOUS
<1>1. /\ seeds = {} /\ todo = {} /\ queue # <<>> /\ current' = x /\ queue' = Tail(queue)
      /\ todo' = IF WithinLimit(x.depth) THEN Successors(x.at) ELSE {}
      /\ UNCHANGED <<seeds, visited, nodes>>
    BY <1>x DEF Expand
<1>2. /\ x \in Item
      /\ 1 \in DOMAIN queue /\ queue[1] = x
      /\ \A i \in DOMAIN queue : i \in Nat /\ 1 <= i /\ queue[i] \in Item
      /\ \A i \in DOMAIN queue' : i \in Nat /\ i + 1 \in DOMAIN queue /\ queue'[i] = queue[i + 1]
      /\ \A i \in DOMAIN queue : queue[i] = x \/ \E j \in DOMAIN queue' : queue'[j] = queue[i]
    BY <1>1, <1>x, Taking DEF Shape
<1>3. /\ \A a, d : Found(a, d)' <=> Found(a, d)
      /\ Anchors' = Anchors /\ Roots' = Roots /\ \A a : Fqn(a)' = Fqn(a)
      /\ \A a : Successors(a)' = Successors(a)
      /\ \A d : WithinLimit(d)' = WithinLimit(d)
    BY <1>0, <1>1, Fixed, FixedGoal, FixedWalk DEF Found
<1>4. \A n : FoundByAnEdge(n)' <=> FoundByAnEdge(n)
    BY <1>0, <1>1, <1>3 DEF FoundByAnEdge
<1>5. (\A i \in DOMAIN queue : Found(queue[i].at, queue[i].depth))'
    BY <1>2, <1>3 DEF Layered
<1>6. \A i, j \in DOMAIN queue' : i < j => InLine(queue'[j].depth, queue'[i].depth)
  <2> SUFFICES ASSUME NEW i \in DOMAIN queue', NEW j \in DOMAIN queue', i < j
               PROVE  InLine(queue'[j].depth, queue'[i].depth)
      OBVIOUS
  <2>1. i + 1 \in DOMAIN queue /\ j + 1 \in DOMAIN queue /\ i + 1 < j + 1
      BY <1>2
  <2> QED
      BY <1>2, <2>1 DEF Layered
<1>7. \A i \in DOMAIN queue' : InLine(queue'[i].depth, x.depth)
  <2> SUFFICES ASSUME NEW i \in DOMAIN queue' PROVE InLine(queue'[i].depth, x.depth)
      OBVIOUS
  <2>1. i + 1 \in DOMAIN queue /\ queue'[i] = queue[i + 1] /\ i \in Nat
      BY <1>2
  <2>2. 1 <= i
    <3>1. queue' \in Seq(Item)
        BY <1>1, Taking DEF Shape
    <3> QED
        BY <3>1
  <2>3. 1 < i + 1
      BY <2>1, <2>2
  <2> QED
      BY <1>2, <2>1, <2>3 DEF Layered
<1>8. Found(x.at, x.depth)
    BY <1>2 DEF Layered
<1>9. todo' # {} => WithinLimit(x.depth) /\ todo' = Successors(x.at)
    BY <1>1
<1>10. ASSUME NEW b \in Anchors, NEW d \in Nat, Found(b, d)', WithinLimit(d)'
       PROVE  \/ \E i \in DOMAIN queue' : queue'[i].at = b /\ queue'[i].depth = d
              \/ Expanded(b, d)'
  <2>1. Found(b, d) /\ WithinLimit(d)
      BY <1>3, <1>10
  <2>2. CASE Expanded(b, d)
    <3>1. \A y \in Successors(b) : Fqn(y) \in visited
        BY <1>1, <2>2 DEF Expanded
    <3> QED
        BY <1>1, <1>3, <3>1 DEF Expanded
  <2>3. CASE \E i \in DOMAIN queue : queue[i].at = b /\ queue[i].depth = d
    <3>1. PICK i \in DOMAIN queue : queue[i].at = b /\ queue[i].depth = d
        BY <2>3
    <3>2. CASE queue[i] = x
      <4>1. todo' = Successors(b) /\ current'.at = b
          BY <1>1, <2>1, <3>1, <3>2
      <4> QED
          BY <1>3, <4>1 DEF Expanded
    <3>3. CASE queue[i] # x
        BY <1>2, <3>1, <3>3
    <3> QED
        BY <3>2, <3>3
  <2> QED
      BY <1>1, <2>1, <2>2, <2>3 DEF Layered
<1>11. \A n \in nodes' : FoundByAnEdge(n)'
    BY <1>1, <1>4 DEF Layered
<1>12. /\ \A m, n \in nodes' : Fqn(m.at)' = Fqn(n.at)' => m = n
       /\ Roots' \subseteq visited'
       /\ \A fqn \in visited' : fqn \in Roots' \/ \E n \in nodes' : Fqn(n.at)' = fqn
       /\ seeds' \subseteq goal'.from /\ seeds' = {}
    BY <1>0, <1>1, <1>3 DEF Layered
<1>13. todo' # {} =>
          /\ Found(x.at, x.depth)' /\ WithinLimit(x.depth)'
          /\ todo' \subseteq Successors(x.at)'
    BY <1>3, <1>8, <1>9
<1>14. (todo # {} =>
          /\ Found(current.at, current.depth) /\ WithinLimit(current.depth)
          /\ todo \subseteq Successors(current.at)
          /\ \A i \in DOMAIN queue : InLine(queue[i].depth, current.depth))'
  <2>1. (Found(current.at, current.depth)' <=> Found(x.at, x.depth)') /\ (WithinLimit(current.depth)' <=> WithinLimit(x.depth)')
        /\ Successors(current.at)' = Successors(x.at)'
      BY <1>1, <1>0, <1>3 DEF Found, WithinLimit, Successors, Neighbours, OutgoingAt, IncomingAt
  <2> QED
      BY <1>1, <1>7, <1>13, <2>1
<1> QED
    BY <1>3, <1>5, <1>6, <1>10, <1>11, <1>12, <1>14 DEF Layered

\* A successor that was met before is passed over.
LEMMA LayersPass ==
    ASSUME Layered, UNCHANGED <<project, recording, goal, seeds, visited, queue, nodes, current>>,
           NEW a \in todo, todo' = todo \ {a}, Fqn(a) \in visited
    PROVE  Layered'
<1>1. /\ \A b, d : Found(b, d)' <=> Found(b, d)
      /\ Anchors' = Anchors /\ Roots' = Roots /\ \A b : Fqn(b)' = Fqn(b)
      /\ \A b : Successors(b)' = Successors(b)
      /\ \A d : WithinLimit(d)' = WithinLimit(d)
    BY Fixed, FixedGoal, FixedWalk DEF Found
<1>2. \A n : FoundByAnEdge(n)' <=> FoundByAnEdge(n)
    BY <1>1 DEF FoundByAnEdge
<1>3. ASSUME NEW b, Expanded(b, 0) PROVE Expanded(b, 0)'
    BY <1>1, <1>3 DEF Expanded
<1>4. \A b, d : Expanded(b, d) => Expanded(b, d)'
    BY <1>3 DEF Expanded
<1>5. (\A i \in DOMAIN queue : Found(queue[i].at, queue[i].depth))'
    BY <1>1 DEF Layered
<1>6. (todo # {} =>
          /\ Found(current.at, current.depth) /\ WithinLimit(current.depth)
          /\ todo \subseteq Successors(current.at)
          /\ \A i \in DOMAIN queue : InLine(queue[i].depth, current.depth))'
    BY <1>1 DEF Layered
<1>7. ASSUME NEW b \in Anchors, NEW d \in Nat, Found(b, d)', WithinLimit(d)'
      PROVE  \/ b \in seeds'
             \/ \E i \in DOMAIN queue' : queue'[i].at = b /\ queue'[i].depth = d
             \/ Expanded(b, d)'
    BY <1>1, <1>4, <1>7 DEF Layered
<1>8. \A n \in nodes' : FoundByAnEdge(n)'
    BY <1>2 DEF Layered
<1>9. /\ \A m, n \in nodes' : Fqn(m.at)' = Fqn(n.at)' => m = n
      /\ Roots' \subseteq visited'
      /\ \A fqn \in visited' : fqn \in Roots' \/ \E n \in nodes' : Fqn(n.at)' = fqn
      /\ \A i, j \in DOMAIN queue' : i < j => InLine(queue'[j].depth, queue'[i].depth)
      /\ seeds' \subseteq goal'.from
      /\ seeds' # {} => todo' = {} /\ nodes' = {} /\ \A i \in DOMAIN queue' : queue'[i].depth = 0
    BY <1>1 DEF Layered
<1> QED
    BY <1>1, <1>5, <1>6, <1>7, <1>8, <1>9 DEF Layered

\* A successor is found, at the end of the queue.
LEMMA LayersLook ==
    ASSUME Given, IInv, Shape, Layered, verb \in Closures, Limits \subseteq Nat, Walk, Look
    PROVE  Layered'
<1>0. UNCHANGED <<project, recording, goal, verb>> /\ goal.walk = "closure"
    BY Walking DEF Given, Closures
<1>c. PICK c : c = current
    OBVIOUS
<1>1. PICK a \in todo :
        /\ todo' = todo \ {a}
        /\ IF Fqn(a) \in visited
           THEN UNCHANGED <<visited, queue, nodes>>
           ELSE /\ visited' = visited \cup {Fqn(a)}
                /\ queue' = Append(queue, [at |-> a, depth |-> c.depth + 1])
                /\ nodes' = nodes \cup {[at |-> a, depth |-> c.depth + 1, via |-> Fqn(c.at)]}
        /\ UNCHANGED <<goal, seeds, current>>
    BY <1>0, <1>c DEF Look
<1>2. CASE Fqn(a) \in visited
    BY <1>0, <1>1, <1>2, LayersPass
<1>3. CASE Fqn(a) \notin visited
  <2>y. PICK y : y = [at |-> a, depth |-> c.depth + 1, via |-> Fqn(c.at)]
      OBVIOUS
  <2>x. PICK x : x = [at |-> a, depth |-> c.depth + 1]
      OBVIOUS
  <2>1. /\ todo' = todo \ {a} /\ visited' = visited \cup {Fqn(a)}
        /\ queue' = Append(queue, x) /\ nodes' = nodes \cup {y}
        /\ UNCHANGED <<seeds, current>>
      BY <1>1, <1>3, <2>x, <2>y
  <2>2. a \in Anchors /\ c \in Item
      BY <1>c, InIndex DEF Shape
  <2>3. c.depth \in Nat /\ c.depth + 1 \in Nat \ {0} /\ c.at \in Anchors /\ c.depth + 1 - 1 = c.depth
      BY <2>2 DEF Item
  <2>4. x \in Item /\ x.at = a /\ x.depth = c.depth + 1
      BY <2>2, <2>3, <2>x, NewItem
  <2>5. y.at = a /\ y.depth = c.depth + 1 /\ y.via = Fqn(c.at)
      BY <2>y
  <2>6. /\ \A i \in DOMAIN queue' :
              \/ i \in DOMAIN queue /\ queue'[i] = queue[i]
              \/ i \in Nat /\ queue'[i] = x /\ \A j \in DOMAIN queue : j < i
        /\ \A i \in DOMAIN queue : i \in Nat /\ i \in DOMAIN queue' /\ queue'[i] = queue[i]
        /\ \E i \in DOMAIN queue' : queue'[i] = x
      BY <2>1, <2>4, Putting DEF Shape
  <2>7. /\ Found(c.at, c.depth) /\ WithinLimit(c.depth) /\ todo \subseteq Successors(c.at)
        /\ \A i \in DOMAIN queue : InLine(queue[i].depth, c.depth)
        /\ seeds = {}
      BY <1>1, <1>c DEF Layered
  <2>8. /\ \A b, d : Found(b, d) => Found(b, d)'
        /\ \A b, d : Found(b, d)' => Found(b, d) \/ (b = a /\ d = c.depth + 1)
        /\ Found(a, c.depth + 1)'
      BY <1>0, <2>1, <2>5 DEF Found
  <2>9. /\ Anchors' = Anchors /\ Roots' = Roots /\ \A b : Fqn(b)' = Fqn(b)
        /\ \A b : Successors(b)' = Successors(b)
        /\ \A d : WithinLimit(d)' = WithinLimit(d)
      BY <1>0, Fixed, FixedGoal, FixedWalk
  <2>10. FoundByAnEdge(y)'
    <3>1. y.depth \in Nat \ {0} /\ y.depth - 1 = c.depth
        BY <2>3, <2>5
    <3>2. goal.limit = Unbounded \/ y.depth <= goal.limit
      <4>1. goal.limit \in Nat \/ goal.limit = Unbounded
          BY DEF Given, Closures
      <4> QED
          BY <2>3, <2>5, <2>7, <4>1 DEF WithinLimit
    <3>3. Fqn(a) \notin Roots
        BY <1>3 DEF Layered
    <3>4. Found(c.at, y.depth - 1)' /\ Fqn(c.at)' = y.via /\ y.at \in Successors(c.at)'
      <4>1. Found(c.at, c.depth)'
          BY <2>7, <2>8
      <4>2. Fqn(c.at)' = y.via /\ y.at \in Successors(c.at)'
          BY <2>5, <2>7, <2>9
      <4> QED
          BY <3>1, <4>1, <4>2
    <3>5. Fqn(y.at)' \notin Roots' /\ Fqn(y.at)' \in visited'
        BY <2>1, <2>5, <2>9, <3>3
    <3> QED
        BY <1>0, <2>2, <2>3, <2>5, <2>9, <3>1, <3>2, <3>4, <3>5 DEF FoundByAnEdge
  <2>11. ASSUME NEW n \in nodes PROVE FoundByAnEdge(n)'
    <3>1. FoundByAnEdge(n)
        BY DEF Layered
    <3> QED
        BY <1>0, <2>1, <2>8, <2>9, <3>1 DEF FoundByAnEdge
  <2>12. \A n \in nodes' : FoundByAnEdge(n)'
      BY <2>1, <2>10, <2>11
  <2>13. \A m, n \in nodes' : Fqn(m.at)' = Fqn(n.at)' => m = n
    <3>1. \A n \in nodes : Fqn(n.at) # Fqn(a)
        BY <1>3 DEF Layered, FoundByAnEdge
    <3>2. \A m, n \in nodes : Fqn(m.at) = Fqn(n.at) => m = n
        BY DEF Layered
    <3>3. \A m, n \in nodes' : Fqn(m.at) = Fqn(n.at) => m = n
        BY <2>1, <2>5, <3>1, <3>2
    <3> QED
        BY <2>9, <3>3
  <2>14. /\ Roots' \subseteq visited'
         /\ \A fqn \in visited' : fqn \in Roots' \/ \E n \in nodes' : Fqn(n.at)' = fqn
         /\ seeds' = {}
    <3>1. y \in nodes' /\ Fqn(y.at)' = Fqn(a)
        BY <2>1, <2>5, <2>9
    <3> QED
        BY <2>1, <2>7, <2>9, <3>1 DEF Layered
  <2>15. (\A i \in DOMAIN queue : Found(queue[i].at, queue[i].depth))'
    <3> SUFFICES ASSUME NEW i \in DOMAIN queue' PROVE (Found(queue[i].at, queue[i].depth))'
        OBVIOUS
    <3>1. CASE i \in DOMAIN queue /\ queue'[i] = queue[i]
        BY <2>8, <3>1 DEF Layered
    <3>2. CASE queue'[i] = x
        BY <2>4, <2>8, <3>2
    <3> QED
        BY <2>6, <3>1, <3>2
  <2>16. \A i \in DOMAIN queue' : InLine(queue'[i].depth, c.depth)
      BY <2>3, <2>4, <2>6, <2>7 DEF InLine
  <2>17. \A i \in DOMAIN queue : queue[i].depth \in Nat
    <3>1. \A i \in DOMAIN queue : queue[i] \in Item
        BY <2>4, Putting DEF Shape
    <3> QED
        BY <3>1 DEF Item
  <2>18. \A i, j \in DOMAIN queue' : i < j => InLine(queue'[j].depth, queue'[i].depth)
    <3> SUFFICES ASSUME NEW i \in DOMAIN queue', NEW j \in DOMAIN queue', i < j
                 PROVE  InLine(queue'[j].depth, queue'[i].depth)
        OBVIOUS
    <3>1. CASE i \in DOMAIN queue /\ j \in DOMAIN queue
        BY <2>6, <3>1 DEF Layered
    <3>2. CASE i \in DOMAIN queue /\ j \notin DOMAIN queue
      <4>1. queue'[j].depth = c.depth + 1 /\ queue'[i] = queue[i]
          BY <2>4, <2>6, <3>2
      <4>2. InLine(queue[i].depth, c.depth) /\ queue[i].depth \in Nat
          BY <2>7, <2>17, <3>2
      <4> QED
          BY <2>3, <4>1, <4>2 DEF InLine
    <3>3. CASE i \notin DOMAIN queue /\ j \in DOMAIN queue
        BY <2>6, <3>3
    <3>4. CASE i \notin DOMAIN queue /\ j \notin DOMAIN queue
      <4>1. queue'[j].depth = c.depth + 1 /\ queue'[i].depth = c.depth + 1
          BY <2>4, <2>6, <3>4
      <4> QED
          BY <2>3, <4>1 DEF InLine
    <3> QED
        BY <3>1, <3>2, <3>3, <3>4
  <2>19. (todo # {} =>
            /\ Found(current.at, current.depth) /\ WithinLimit(current.depth)
            /\ todo \subseteq Successors(current.at)
            /\ \A i \in DOMAIN queue : InLine(queue[i].depth, current.depth))'
    <3>1. current' = c
        BY <1>c, <2>1
    <3>2. Found(c.at, c.depth)' /\ WithinLimit(c.depth)' /\ todo' \subseteq Successors(c.at)'
        BY <2>1, <2>7, <2>8, <2>9
    <3>3. (Found(current.at, current.depth) /\ WithinLimit(current.depth))' /\ todo' \subseteq Successors(current.at)'
        BY <3>1, <3>2 DEF Found, WithinLimit, Successors, Neighbours, OutgoingAt, IncomingAt, Fqn, ScopeFqn, Files, DefScope, Node, Nodes
    <3> QED
        BY <2>16, <3>1, <3>3
  <2>20. ASSUME NEW b \in Anchors, NEW d \in Nat, Found(b, d)', WithinLimit(d)'
         PROVE  \/ \E i \in DOMAIN queue' : queue'[i].at = b /\ queue'[i].depth = d
                \/ Expanded(b, d)'
    <3>1. CASE b = a /\ d = c.depth + 1
        BY <2>4, <2>6, <3>1
    <3>2. CASE ~(b = a /\ d = c.depth + 1)
      <4>1. Found(b, d) /\ WithinLimit(d)
          BY <2>8, <2>9, <2>20, <3>2
      <4>2. CASE Expanded(b, d)
        <5>1. \A z \in Successors(b) : Fqn(z) \in visited' \/ (z \in todo' /\ current'.at = b)
            BY <2>1, <4>2 DEF Expanded
        <5> QED
            BY <2>9, <5>1 DEF Expanded
      <4>3. CASE \E i \in DOMAIN queue : queue[i].at = b /\ queue[i].depth = d
          BY <2>6, <4>3
      <4> QED
          BY <2>7, <4>1, <4>2, <4>3 DEF Layered
    <3> QED
        BY <3>1, <3>2
  <2> QED
      BY <2>9, <2>12, <2>13, <2>14, <2>15, <2>18, <2>19, <2>20 DEF Layered
<1> QED
    BY <1>2, <1>3

\* Nothing is found at first.
LEMMA LayersFirst == Init => LayerInv
BY NoneIsNoVerb DEF Init, LayerInv, Closures, Verbs

\* It is inductive.
LEMMA LayersNext == Given /\ IInv /\ Shape /\ LayerInv /\ [Next]_vars => LayerInv'
<1> SUFFICES ASSUME Given, IInv, Shape, LayerInv, [Next]_vars PROVE LayerInv'
    OBVIOUS
<1>1. CASE Ask
  <2>0. verb = None /\ UNCHANGED <<project, recording>>
      BY <1>1 DEF Ask
  <2>1. CASE AskGraph
    <3>1. PICK symbol \in Symbols, dir \in Directions, limit \in Limits \cup {Unbounded} :
              BeginClosure(symbol, dir, limit)
        BY <2>1 DEF AskGraph
    <3> QED
        BY <2>0, <3>1, LayersBegin DEF LayerInv
  <2>2. CASE AskTests
    <3>1. PICK symbol \in Symbols : BeginClosure(symbol, "reverse", Unbounded)
        BY <2>2 DEF AskTests
    <3> QED
        BY <2>0, <3>1, LayersBegin DEF LayerInv
  <2>3. CASE AskDeadcode \/ AskCanonical \/ AskCycles \/ AskSweep
    <3>1. verb' \notin Closures
        BY <2>3 DEF AskDeadcode, AskCanonical, AskCycles, AskSweep, Closures, SweepVerbs
    <3> QED
        BY <3>1 DEF LayerInv
  <2> QED
      BY <1>1, <2>1, <2>2, <2>3 DEF Ask
<1>2. CASE Walk
  <2>1. UNCHANGED verb
      BY <1>2, Walking
  <2>2. CASE verb \in Closures
    <3>1. Layered
        BY <2>2 DEF LayerInv
    <3>2. CASE Seed
        BY <1>2, <2>2, <3>1, <3>2, LayersSeed DEF LayerInv
    <3>3. CASE Expand
        BY <1>2, <2>2, <3>1, <3>3, LayersExpand DEF LayerInv
    <3>4. CASE Look
        BY <1>2, <2>2, <3>1, <3>4, LayersLook, LimitsAreNat DEF LayerInv
    <3> QED
        BY <1>2, <3>2, <3>3, <3>4 DEF Walk
  <2>3. CASE verb \notin Closures
      BY <2>1, <2>3 DEF LayerInv
  <2> QED
      BY <2>2, <2>3
<1>3. CASE FindComponents
  <2>1. verb' = "cycles"
      BY <1>3 DEF FindComponents
  <2> QED
      BY <2>1 DEF LayerInv, Closures
<1>4. CASE Exit
    BY <1>4, NoneIsNoVerb DEF Exit, LayerInv, Closures, Verbs
<1>5. CASE UNCHANGED vars
  <2>1. UNCHANGED <<project, recording, goal, seeds, visited, queue, current, todo, nodes, verb>>
      BY <1>5 DEF vars, walkVars
  <2>2. /\ \A a, d : Found(a, d)' <=> Found(a, d)
        /\ Anchors' = Anchors /\ Roots' = Roots /\ \A a : Fqn(a)' = Fqn(a)
        /\ \A a : Successors(a)' = Successors(a)
        /\ \A d : WithinLimit(d)' = WithinLimit(d)
      BY <2>1, Fixed, FixedGoal, FixedWalk DEF Found
  <2>3. /\ \A n : FoundByAnEdge(n)' <=> FoundByAnEdge(n)
        /\ \A a, d : Expanded(a, d)' <=> Expanded(a, d)
      BY <2>1, <2>2 DEF FoundByAnEdge, Expanded
  <2>4. ASSUME Layered PROVE Layered'
    <3>1. (\A i \in DOMAIN queue : Found(queue[i].at, queue[i].depth))'
        BY <2>1, <2>2, <2>4 DEF Layered
    <3>2. (todo # {} =>
            /\ Found(current.at, current.depth) /\ WithinLimit(current.depth)
            /\ todo \subseteq Successors(current.at)
            /\ \A i \in DOMAIN queue : InLine(queue[i].depth, current.depth))'
        BY <2>1, <2>2, <2>4 DEF Layered
    <3>3. (\A a \in Anchors, d \in Nat : Found(a, d) /\ WithinLimit(d) =>
            \/ a \in seeds
            \/ \E i \in DOMAIN queue : queue[i].at = a /\ queue[i].depth = d
            \/ Expanded(a, d))'
        BY <2>1, <2>2, <2>3, <2>4 DEF Layered
    <3>4. (/\ \A n \in nodes : FoundByAnEdge(n)
           /\ \A m, n \in nodes : Fqn(m.at) = Fqn(n.at) => m = n
           /\ Roots \subseteq visited
           /\ \A fqn \in visited : fqn \in Roots \/ \E n \in nodes : Fqn(n.at) = fqn
           /\ \A i, j \in DOMAIN queue : i < j => InLine(queue[j].depth, queue[i].depth)
           /\ seeds \subseteq goal.from
           /\ seeds # {} => todo = {} /\ nodes = {} /\ \A i \in DOMAIN queue : queue[i].depth = 0)'
        BY <2>1, <2>2, <2>3, <2>4 DEF Layered
    <3> QED
        BY <3>1, <3>2, <3>3, <3>4 DEF Layered
  <2> QED
      BY <2>1, <2>4 DEF LayerInv
<1> QED
    BY <1>1, <1>2, <1>3, <1>4, <1>5 DEF Next

-----------------------------------------------------------------------------
(* No way is longer than there are definitions *)

\* A node is found at one distance, and something at each lesser one.
LEMMA OneDistance ==
    ASSUME Layered, goal.from \subseteq Anchors
    PROVE  /\ \A a, d : Found(a, d) => a \in Anchors /\ d \in Nat
           /\ \A a, b, d, e : Found(a, d) /\ Found(b, e) /\ Fqn(a) = Fqn(b) => d = e
           /\ \A a, d : Found(a, d) /\ d # 0 => \E b : Found(b, d - 1)
<1>1. \A n \in nodes : FoundByAnEdge(n)
    BY DEF Layered
<1>2. \A a \in goal.from : Fqn(a) \in Roots
    BY DEF Roots, FqnsOf
<1>3. \A n \in nodes : n.at \in Anchors /\ n.depth \in Nat /\ Fqn(n.at) \notin Roots
    BY <1>1 DEF FoundByAnEdge
<1>4. \A a, d : Found(a, d) => a \in Anchors /\ d \in Nat
    BY <1>3 DEF Found
<1>5. ASSUME NEW a, NEW b, NEW d, NEW e, Found(a, d), Found(b, e), Fqn(a) = Fqn(b) PROVE d = e
  <2>1. \A m, n \in nodes : Fqn(m.at) = Fqn(n.at) => m = n
      BY DEF Layered
  <2> QED
      BY <1>2, <1>3, <1>5, <2>1 DEF Found
<1>6. \A a, d : Found(a, d) /\ d # 0 => \E b : Found(b, d - 1)
    BY <1>1 DEF Found, FoundByAnEdge
<1> QED
    BY <1>4, <1>5, <1>6

\* As many nodes are on the way to it.
LEMMA DistanceBound ==
    ASSUME Layered, goal.from \subseteq Anchors, IsFiniteSet(Anchors), NEW a, NEW k, Found(a, k)
    PROVE  Cardinality(Anchors) \in Nat /\ k \in Nat /\ k + 1 <= Cardinality(Anchors)
<1>1. k \in Nat /\ Cardinality(Anchors) \in Nat
    BY OneDistance, FS_CardinalityType
<1> DEFINE S == {i \in Nat : i <= k => \E b : Found(b, k - i)}
<1>2. 0 \in S
    BY <1>1
<1>3. ASSUME NEW i \in Nat, i \in S PROVE i + 1 \in S
  <2> SUFFICES ASSUME i + 1 <= k PROVE \E b : Found(b, k - (i + 1))
      OBVIOUS
  <2>1. PICK b : Found(b, k - i)
      BY <1>1, <1>3
  <2>2. k - i # 0 /\ (k - i) - 1 = k - (i + 1)
      BY <1>1
  <2> QED
      BY <2>1, <2>2, OneDistance
<1>4. Nat \subseteq S
  <2> HIDE DEF S
  <2> QED
      BY <1>2, <1>3, Induction
<1>5. ASSUME NEW d \in 0 .. k PROVE \E b \in Anchors : Found(b, d)
  <2>1. k - d \in S /\ k - d \in Nat
      BY <1>1, <1>4
  <2>2. k - d <= k /\ k - (k - d) = d
      BY <1>1
  <2> QED
      BY <2>1, <2>2, OneDistance
<1> DEFINE f == [d \in 0 .. k |-> CHOOSE b \in Anchors : Found(b, d)]
<1>6. \A d \in 0 .. k : f[d] \in Anchors /\ Found(f[d], d)
    BY <1>5
<1>7. f \in [0 .. k -> Anchors]
    BY <1>6
<1> HIDE DEF f
<1>8. \A d, e \in 0 .. k : f[d] = f[e] => d = e
    BY <1>6, OneDistance
<1>9. f \in Injection(0 .. k, Anchors)
    BY <1>7, <1>8 DEF Injection, IsInjective
<1>10. Cardinality(0 .. k) <= Cardinality(Anchors)
    BY <1>9, FS_Injection
<1>11. Cardinality(0 .. k) = k + 1
  <2>1. 0 \in Int /\ k \in Int
      BY <1>1
  <2>2. Cardinality(0 .. k) = IF 0 > k THEN 0 ELSE k - 0 + 1
      BY <2>1, FS_Interval
  <2> QED
      BY <1>1, <2>2
<1> QED
    BY <1>1, <1>10, <1>11

-----------------------------------------------------------------------------
(* Its layers are the distances *)

\* The edges that the walk takes.
Step == [a \in Anchors |-> Neighbours(a, goal.dir)]

\* What so many of them lead to, without any queue.
Near == Hops(Step, goal.from)

\* No way is longer.
Far == Cardinality(Anchors)

\* A row is at its distance: fewer edges do not lead to it.
Nearest == FqnsAreUnique => \A n \in nodes : n.at \notin Near[n.depth - 1]

\* So it is while closure runs.
NearestInv == verb \in Closures => Nearest

\* What one edge more leads to.
LEMMA NearIs ==
    ASSUME Given, verb \in Closures
    PROVE  /\ Far \in Nat /\ goal.from \subseteq Anchors /\ IsFiniteSet(Anchors)
           /\ \A a \in Anchors : Step[a] = Successors(a)
           /\ Near[0] = goal.from
           /\ \A k \in 1 .. Far :
                 /\ Near[k - 1] \subseteq Near[k]
                 /\ \A y : y \in Near[k] <=> y \in Near[k - 1] \/ \E x \in Near[k - 1] : y \in Successors(x)
           /\ \A k \in 0 .. Far : Near[k] \subseteq Anchors
<1>1. StaysIn(Anchors) /\ goal.extra = {}
    BY WithinIndex DEF Given, Walks, Closures
<1>2. IsFiniteSet(Anchors)
    BY Indexes DEF Given
<1>3. \A a \in Anchors : Step[a] = Successors(a)
    BY <1>1 DEF Step, Successors
<1>4. DOMAIN Step = Anchors
    BY DEF Step
<1>5. IsGraph(Step) /\ goal.from \in SUBSET DOMAIN Step
    BY <1>1, <1>2, <1>3, <1>4 DEF IsGraph, StaysIn, Closed
<1>6. /\ Far \in Nat /\ Near[0] = goal.from
      /\ \A k \in 1 .. Far :
            /\ Near[k - 1] \subseteq Near[k]
            /\ \A y : y \in Near[k] <=> y \in Near[k - 1] \/ \E x \in Near[k - 1] : y \in Step[x]
    BY <1>4, <1>5, HopsStep DEF Near, Far
<1>7. \A k \in 0 .. Far : Near[k] \subseteq Anchors
    BY <1>4, <1>5, HopsClosed DEF Near, Far
<1>8. ASSUME NEW k \in 1 .. Far, NEW y
      PROVE  y \in Near[k] <=> y \in Near[k - 1] \/ \E x \in Near[k - 1] : y \in Successors(x)
  <2>1. k - 1 \in 0 .. Far
      BY <1>6
  <2> QED
      BY <1>3, <1>6, <1>7, <2>1
<1> QED
    BY <1>1, <1>2, <1>3, <1>6, <1>7, <1>8 DEF StaysIn

\* More edges lead to more.
LEMMA NearGrows ==
    ASSUME Given, verb \in Closures, NEW i \in 0 .. Far, NEW j \in 0 .. Far, i <= j
    PROVE  Near[i] \subseteq Near[j]
<1> DEFINE S == {k \in Nat : i + k <= Far => Near[i] \subseteq Near[i + k]}
<1>0. Far \in Nat
    BY NearIs
<1>1. 0 \in S
    BY <1>0
<1>2. ASSUME NEW k \in Nat, k \in S PROVE k + 1 \in S
  <2> SUFFICES ASSUME i + (k + 1) <= Far PROVE Near[i] \subseteq Near[i + (k + 1)]
      OBVIOUS
  <2>1. Near[i] \subseteq Near[i + k]
      BY <1>0, <1>2
  <2>2. i + (k + 1) \in 1 .. Far /\ (i + (k + 1)) - 1 = i + k
      BY <1>0
  <2> QED
      BY <2>1, <2>2, NearIs
<1>3. j - i \in Nat /\ i + (j - i) = j /\ j <= Far
    BY <1>0
<1>4. Nat \subseteq S
  <2> HIDE DEF S
  <2> QED
      BY <1>1, <1>2, Induction
<1> QED
    BY <1>3, <1>4

\* What is found is as near as its depth says.
LEMMA FoundIsNear ==
    ASSUME Given, verb \in Closures, Layered, NEW a, NEW k, Found(a, k)
    PROVE  k \in 0 .. Far /\ a \in Near[k]
<1>1. Far \in Nat /\ IsFiniteSet(Anchors) /\ goal.from \subseteq Anchors
    BY NearIs
<1>2. \A b, i : Found(b, i) => b \in Anchors /\ i \in 0 .. Far
  <2> SUFFICES ASSUME NEW b, NEW i, Found(b, i) PROVE b \in Anchors /\ i \in 0 .. Far
      OBVIOUS
  <2>1. i \in Nat /\ i + 1 <= Far /\ b \in Anchors
      BY <1>1, DistanceBound, OneDistance DEF Far
  <2> QED
      BY <1>1, <2>1
<1> DEFINE S == {i \in Nat : \A b : Found(b, i) => b \in Near[i]}
<1>3. 0 \in S
  <2> SUFFICES ASSUME NEW b, Found(b, 0) PROVE b \in Near[0]
      OBVIOUS
  <2>1. \A n \in nodes : n.depth # 0
      BY DEF Layered, FoundByAnEdge
  <2> QED
      BY <2>1, NearIs DEF Found
<1>4. ASSUME NEW i \in Nat, i \in S PROVE i + 1 \in S
  <2> SUFFICES ASSUME NEW b, Found(b, i + 1) PROVE b \in Near[i + 1]
      OBVIOUS
  <2>1. PICK n \in nodes : n.at = b /\ n.depth = i + 1
      BY DEF Found
  <2>2. PICK c \in Anchors : Found(c, n.depth - 1) /\ b \in Successors(c)
      BY <2>1 DEF Layered, FoundByAnEdge
  <2>3. n.depth - 1 = i
      BY <2>1
  <2>4. c \in Near[i]
      BY <1>4, <2>2, <2>3
  <2>5. i + 1 \in 1 .. Far /\ (i + 1) - 1 = i
      BY <1>1, <1>2
  <2> QED
      BY <2>2, <2>4, <2>5, NearIs
<1>5. Nat \subseteq S
  <2> HIDE DEF S
  <2> QED
      BY <1>3, <1>4, Induction
<1>6. k \in 0 .. Far /\ k \in Nat
    BY <1>1, <1>2
<1> QED
    BY <1>5, <1>6

\* While nothing nearer than D waits, all that is within D has been met.
LEMMA AllNearerIsMet ==
    ASSUME Given, verb \in Closures, Layered, Nearest, FqnsAreUnique,
           seeds = {}, NEW D \in 0 .. Far,
           \A d \in Nat : d < D => WithinLimit(d),
           \A i \in DOMAIN queue : D <= queue[i].depth,
           todo # {} => D <= current.depth
    PROVE  \A x \in Near[D] : Fqn(x) \in visited
<1>0. Far \in Nat
    BY NearIs
<1> DEFINE S == {j \in Nat : j <= D => \A x \in Near[j] : Fqn(x) \in visited}
<1>1. 0 \in S
  <2>1. \A x \in Near[0] : Fqn(x) \in Roots
      BY NearIs DEF Roots, FqnsOf
  <2> QED
      BY <2>1 DEF Layered
<1>2. ASSUME NEW j \in Nat, j \in S PROVE j + 1 \in S
  <2> SUFFICES ASSUME j + 1 <= D, NEW y \in Near[j + 1] PROVE Fqn(y) \in visited
      OBVIOUS
  <2>1. j \in 0 .. Far /\ j + 1 \in 1 .. Far /\ (j + 1) - 1 = j /\ j < D /\ j <= D
      BY <1>0
  <2>2. \A x \in Near[j] : Fqn(x) \in visited
      BY <1>2, <2>1
  <2>3. y \in Near[j] \/ \E x \in Near[j] : y \in Successors(x)
      BY <2>1, NearIs
  <2>4. CASE y \in Near[j]
      BY <2>2, <2>4
  <2>5. CASE y \notin Near[j]
    <3>1. PICK x \in Near[j] : y \in Successors(x)
        BY <2>3, <2>5
    <3>2. x \in Anchors /\ Fqn(x) \in visited
        BY <2>1, <2>2, NearIs
    <3>3. PICK e : Found(x, e) /\ e \in Nat /\ e <= j
      <4>1. CASE Fqn(x) \in Roots
        <5>1. x \in goal.from
            BY <3>2, <4>1, NearIs DEF Roots, FqnsOf, FqnsAreUnique
        <5> QED
            BY <5>1 DEF Found
      <4>2. CASE Fqn(x) \notin Roots
        <5>1. PICK n \in nodes : Fqn(n.at) = Fqn(x)
            BY <3>2, <4>2 DEF Layered
        <5>2. n.at \in Anchors /\ n.depth \in Nat \ {0}
            BY DEF Layered, FoundByAnEdge
        <5>3. n.at = x
            BY <3>2, <5>1, <5>2 DEF FqnsAreUnique
        <5>4. Found(x, n.depth)
            BY <5>3 DEF Found
        <5>5. n.depth \in 0 .. Far
            BY <5>4, FoundIsNear
        <5>6. x \notin Near[n.depth - 1]
            BY <5>3 DEF Nearest
        <5>7. n.depth <= j
          <6> SUFFICES ASSUME ~(n.depth <= j) PROVE FALSE
              OBVIOUS
          <6>1. n.depth - 1 \in 0 .. Far /\ j <= n.depth - 1
              BY <1>0, <5>2, <5>5
          <6>2. Near[j] \subseteq Near[n.depth - 1]
              BY <2>1, <6>1, NearGrows
          <6> QED
              BY <5>6, <6>2
        <5> QED
            BY <5>2, <5>4, <5>7
      <4> QED
          BY <4>1, <4>2
    <3>4. e < D /\ WithinLimit(e)
        BY <2>1, <3>3
    <3>5. ~ \E i \in DOMAIN queue : queue[i].at = x /\ queue[i].depth = e
        BY <3>3, <3>4
    <3>6. Expanded(x, e)
        BY <3>2, <3>3, <3>4, <3>5 DEF Layered
    <3>7. ~ (y \in todo /\ current.at = x)
      <4> SUFFICES ASSUME y \in todo, current.at = x PROVE FALSE
          OBVIOUS
      <4>1. Found(x, current.depth)
          BY DEF Layered
      <4>2. current.depth = e
          BY <3>3, <4>1, NearIs, OneDistance
      <4> QED
          BY <3>3, <3>4, <4>2
    <3> QED
        BY <3>1, <3>6, <3>7 DEF Expanded
  <2> QED
      BY <2>4, <2>5
<1>3. Nat \subseteq S
  <2> HIDE DEF S
  <2> QED
      BY <1>1, <1>2, Induction
<1> QED
    BY <1>0, <1>3

\* While the goal is the same, so are the distances.
LEMMA FixedNear ==
    ASSUME UNCHANGED <<project, recording, goal>>
    PROVE  Near' = Near /\ Far' = Far /\ FqnsAreUnique' = FqnsAreUnique
<1>1. Anchors' = Anchors /\ FqnsAreUnique' = FqnsAreUnique
    BY Fixed
<1>2. Step' = Step
    BY <1>1 DEF Step, Neighbours, OutgoingAt, IncomingAt
<1> QED
    BY <1>1, <1>2 DEF Near, Far, Hops

\* Nothing is found at first.
LEMMA NearestFirst == Init => NearestInv
BY NoneIsNoVerb DEF Init, NearestInv, Closures, Verbs

\* A new row is no nearer than its depth: all that is nearer was met.
LEMMA NearestLook ==
    ASSUME Given, IInv, Shape, Layered, Nearest, verb \in Closures, Walk, Look
    PROVE  Nearest'
<1>0. UNCHANGED <<project, recording, goal, verb>> /\ goal.walk = "closure"
    BY Walking DEF Given, Closures
<1>1. PICK a \in todo :
        \/ nodes' = nodes
        \/ Fqn(a) \notin visited /\ nodes' = nodes \cup {[at |-> a, depth |-> current.depth + 1, via |-> Fqn(current.at)]}
    BY <1>0 DEF Look
<1> SUFFICES ASSUME FqnsAreUnique, NEW n \in nodes', n \notin nodes PROVE n.at \notin Near[n.depth - 1]
    BY <1>0, FixedNear DEF Nearest
<1>2. Fqn(a) \notin visited /\ n.at = a /\ n.depth = current.depth + 1
    BY <1>1
<1>3. current \in Item
    BY DEF Shape
<1>4. current.depth \in Nat /\ n.depth - 1 = current.depth
    BY <1>2, <1>3 DEF Item
<1>5. /\ Found(current.at, current.depth) /\ WithinLimit(current.depth) /\ seeds = {}
      /\ \A i \in DOMAIN queue : InLine(queue[i].depth, current.depth)
    BY DEF Layered
<1>6. current.depth \in 0 .. Far
    BY <1>5, FoundIsNear
<1>7. goal.limit \in Nat \/ goal.limit = Unbounded
    BY LimitsAreNat DEF Given, Closures
<1>8. \A d \in Nat : d < current.depth => WithinLimit(d)
    BY <1>4, <1>5, <1>7 DEF WithinLimit
<1>9. \A i \in DOMAIN queue : current.depth <= queue[i].depth
    BY <1>5 DEF InLine
<1>10. current.depth <= current.depth
    BY <1>4
<1> HIDE DEF Nearest, Layered
<1>11. \A x \in Near[current.depth] : Fqn(x) \in visited
    BY <1>5, <1>6, <1>8, <1>9, <1>10, AllNearerIsMet
<1> QED
    BY <1>2, <1>4, <1>11

\* It is inductive.
LEMMA NearestNext == Given /\ IInv /\ Shape /\ LayerInv /\ NearestInv /\ [Next]_vars => NearestInv'
<1> SUFFICES ASSUME Given, IInv, Shape, LayerInv, NearestInv, [Next]_vars PROVE NearestInv'
    OBVIOUS
<1>1. CASE Ask
  <2>1. nodes = {}
      BY <1>1, NoneIsNoVerb DEF Ask, Shape, Closures, Verbs
  <2>2. nodes' = nodes
      BY <1>1 DEF Ask, AskGraph, AskTests, AskDeadcode, AskCanonical, AskCycles, AskSweep,
         BeginClosure, BeginReachable, walkVars
  <2> QED
      BY <2>1, <2>2 DEF NearestInv, Nearest
<1>2. CASE Walk
  <2>1. UNCHANGED <<verb, project, recording, goal>>
      BY <1>2, Walking
  <2>2. CASE Look
      BY <1>2, <2>1, <2>2, NearestLook DEF NearestInv, LayerInv
  <2>3. CASE Seed \/ Expand
    <3>1. nodes' = nodes
        BY <2>3 DEF Seed, Expand
    <3> QED
        BY <2>1, <3>1, FixedNear DEF NearestInv, Nearest
  <2> QED
      BY <1>2, <2>2, <2>3 DEF Walk
<1>3. CASE FindComponents
    BY <1>3 DEF FindComponents, NearestInv, Closures
<1>4. CASE Exit
    BY <1>4, NoneIsNoVerb DEF Exit, NearestInv, Closures, Verbs
<1>5. CASE UNCHANGED vars
  <2>1. UNCHANGED <<verb, project, recording, goal, nodes>>
      BY <1>5 DEF vars, walkVars
  <2> QED
      BY <2>1, FixedNear DEF NearestInv, Nearest
<1> QED
    BY <1>1, <1>2, <1>3, <1>4, <1>5 DEF Next

-----------------------------------------------------------------------------

\* The invariant of the queries, all its parts.
QInv == Given /\ IInv /\ Shape /\ LayerInv /\ NearestInv

\* What is asked, what waits and what is found stay as they must at any moment of any query.
THEOREM QueryInvariance == Spec => []QInv
<1>1. Init => QInv
    BY GivenFirst, InitInv, ShapeFirst, LayersFirst, NearestFirst DEF QInv
<1>2. QInv /\ [Next]_vars => QInv'
    BY GivenNext, NextInv, ShapeNext, LayersNext, NearestNext DEF QInv
<1> QED
    BY <1>1, <1>2, PTL DEF Spec

\* When "pyq graph" has its answer, its rows are the distances.
LEMMA GraphAnswer == QInv => ClosureIsExact
<1> SUFFICES ASSUME QInv, verb = "graph", Finished PROVE ClosureIsExact
    BY DEF ClosureIsExact
<1> DEFINE limit == IF goal.limit = Unbounded \/ goal.limit > Far THEN Far ELSE goal.limit
<1>0. verb \in Closures /\ Given /\ Layered /\ Nearest
    BY DEF QInv, Closures, LayerInv, NearestInv
<1>1. Far \in Nat /\ IsFiniteSet(Anchors) /\ goal.from \subseteq Anchors
    BY <1>0, NearIs
<1>2. goal.limit \in Nat \/ goal.limit = Unbounded
    BY <1>0, LimitsAreNat DEF Given, Closures
<1>3. limit \in 0 .. Far
    BY <1>1, <1>2
<1>4. \A n \in nodes : FoundByAnEdge(n) /\ Found(n.at, n.depth)
    BY <1>0 DEF Layered, Found
<1>5. ASSUME NEW n \in nodes
      PROVE  /\ n.depth <= limit /\ n.at \in Near[n.depth]
             /\ Fqn(n.at) \notin Roots
             /\ \E a \in Near[n.depth - 1] : Fqn(a) = n.via /\ n.at \in Neighbours(a, goal.dir)
  <2>1. n.depth \in 0 .. Far /\ n.at \in Near[n.depth]
      BY <1>0, <1>4, FoundIsNear
  <2>2. n.depth <= limit
      BY <1>1, <1>2, <1>4, <2>1 DEF FoundByAnEdge
  <2>3. PICK a \in Anchors : Found(a, n.depth - 1) /\ Fqn(a) = n.via /\ n.at \in Successors(a)
      BY <1>4 DEF FoundByAnEdge
  <2>4. a \in Near[n.depth - 1]
      BY <1>0, <2>3, FoundIsNear
  <2>5. n.at \in Neighbours(a, goal.dir)
      BY <1>0, <2>3 DEF Successors, Given, Closures
  <2> QED
      BY <1>4, <2>1, <2>2, <2>3, <2>4, <2>5 DEF FoundByAnEdge
<1>6. \A m, n \in nodes : Fqn(m.at) = Fqn(n.at) => m = n
    BY <1>0 DEF Layered
<1>7. ASSUME FqnsAreUnique, NEW a \in Near[limit] \ goal.from
      PROVE  \E n \in nodes : n.at = a /\ a \notin Near[n.depth - 1]
  <2>1. seeds = {} /\ todo = {} /\ DOMAIN queue = {}
      BY DEF Finished
  <2>2. \A d \in Nat : d < limit => WithinLimit(d)
      BY <1>1, <1>2 DEF WithinLimit
  <2> HIDE DEF limit
  <2>3. \A x \in Near[limit] : Fqn(x) \in visited
      BY <1>0, <1>3, <1>7, <2>1, <2>2, AllNearerIsMet
  <2>4. a \in Anchors
      BY <1>0, <1>3, NearIs
  <2>5. Fqn(a) \notin Roots
      BY <1>1, <1>7, <2>4 DEF Roots, FqnsOf, FqnsAreUnique
  <2>6. PICK n \in nodes : Fqn(n.at) = Fqn(a)
      BY <1>0, <2>3, <2>5 DEF Layered
  <2>7. n.at = a
      BY <1>4, <1>7, <2>4, <2>6 DEF FqnsAreUnique, FoundByAnEdge
  <2> QED
      BY <1>0, <1>7, <2>7 DEF Nearest
<1>8. Near = Hops([a \in Anchors |-> Neighbours(a, goal.dir)], goal.from)
    BY DEF Near, Step
<1> QED
    BY <1>5, <1>6, <1>7, <1>8 DEF ClosureIsExact, Far

\* closure of graph.rs for "pyq graph": just what is within --depth calls, each FQN
\* once, at its distance and with an edge of a nearer node.
THEOREM ClosuresAreExact == Spec => []ClosureIsExact
<1> QED
    BY QueryInvariance, GraphAnswer, PTL

-----------------------------------------------------------------------------
(* "pyq tests" *)

\* Whom a call leads to, and on.
Calls == [a \in Anchors |-> OutgoingAt(a)]

\* The recorded calls are a graph of the anchors.
LEMMA CallsAre ==
    ASSUME Given
    PROVE  /\ IsGraph(Calls) /\ DOMAIN Calls = Anchors
           /\ \A a \in Anchors : Calls[a] = OutgoingAt(a)
<1>1. /\ IsFiniteSet(Anchors) /\ Recorded \subseteq Anchors
      /\ \A a \in Anchors : OutgoingAt(a) \subseteq Recorded
    BY Indexes, Dual DEF Given
<1> QED
    BY <1>1 DEF IsGraph, Calls

\* What a walk that is not cut short has met, and all there is to it.
LEMMA WalkIsExact ==
    ASSUME QInv, verb \in Walks, Finished, FqnsAreUnique, goal.limit = Unbounded
    PROVE  /\ StaysIn(Anchors)
           /\ \A S \in SUBSET Anchors : StaysIn(S) => visited \subseteq FqnsOf(S)
           /\ \A a \in goal.from : Fqn(a) \in visited
           /\ \A a \in Anchors : Fqn(a) \in visited => \A b \in Successors(a) : Fqn(b) \in visited
<1>1. StaysIn(Anchors) /\ Sound /\ Complete
    BY WithinIndex DEF QInv, IInv, Plain
<1>2. seeds = {} /\ todo = {} /\ Waiting = {}
    BY DEF Finished, Waiting, AnchorsIn
<1> QED
    BY <1>1, <1>2 DEF Sound, Complete, FqnsOf

\* Backwards from the symbol is met just what leads to it forwards.
LEMMA TestsFound ==
    ASSUME QInv, verb = "tests", Finished, FqnsAreUnique
    PROVE  \A a \in Defs : Fqn(a) \in visited <=> Reached(Calls, {a}) \cap goal.from # {}
<1>1. /\ verb \in Walks /\ verb \in Closures /\ Given /\ goal.limit = Unbounded
      /\ goal.dir = "reverse" /\ goal.extra = {} /\ goal.from \subseteq Defs
    BY DEF QInv, Given, Walks, Closures
<1>2. \A a : Successors(a) = IncomingAt(a)
    BY <1>1 DEF Successors, Neighbours
<1>3. /\ Defs \subseteq Recorded /\ Recorded \subseteq Anchors
      /\ \A a \in Recorded : Node(a).kind # "module"
      /\ \A a \in Anchors : OutgoingAt(a) \subseteq Recorded /\ IncomingAt(a) \subseteq Anchors
      /\ \A a, b \in Anchors : b \in OutgoingAt(a) => a \in IncomingAt(b)
      /\ \A a \in Recorded, b \in Anchors :
            b \in IncomingAt(a) =>
               (b \in Recorded /\ a \in OutgoingAt(b)) \/ Node(b).kind = "module"
      /\ \A a \in Anchors : Node(a).kind = "module" => IncomingAt(a) = {}
    BY <1>1, Dual DEF Given
<1>4. ASSUME NEW a \in Anchors
      PROVE  /\ a \in Reached(Calls, {a}) /\ Reached(Calls, {a}) \subseteq Anchors
             /\ \A x \in Reached(Calls, {a}) : OutgoingAt(x) \subseteq Reached(Calls, {a})
             /\ \A C \in SUBSET Anchors :
                   a \in C /\ (\A x \in C : OutgoingAt(x) \subseteq C) => Reached(Calls, {a}) \subseteq C
  <2>1. IsGraph(Calls) /\ DOMAIN Calls = Anchors /\ {a} \in SUBSET DOMAIN Calls
        /\ \A x \in Anchors : Calls[x] = OutgoingAt(x)
      BY <1>1, CallsAre
  <2>2. /\ {a} \subseteq Reached(Calls, {a}) /\ Reached(Calls, {a}) \subseteq DOMAIN Calls
        /\ \A x \in Reached(Calls, {a}) : Calls[x] \subseteq Reached(Calls, {a})
        /\ \A C : {a} \subseteq C /\ (\A x \in C \cap DOMAIN Calls : Calls[x] \subseteq C) => Reached(Calls, {a}) \subseteq C
      BY <2>1, ReachedIs
  <2>3. ASSUME NEW C \in SUBSET Anchors, a \in C, \A x \in C : OutgoingAt(x) \subseteq C
        PROVE  Reached(Calls, {a}) \subseteq C
    <3>1. {a} \subseteq C /\ \A x \in C \cap DOMAIN Calls : Calls[x] \subseteq C
        BY <2>1, <2>3
    <3> QED
        BY <2>2, <3>1
  <2> QED
      BY <2>1, <2>2, <2>3
<1>5. /\ StaysIn(Anchors)
      /\ \A S \in SUBSET Anchors : StaysIn(S) => visited \subseteq FqnsOf(S)
      /\ \A x \in goal.from : Fqn(x) \in visited
      /\ \A x \in Anchors : Fqn(x) \in visited => \A b \in Successors(x) : Fqn(b) \in visited
    BY <1>1, WalkIsExact
<1> DEFINE W == {b \in Anchors : Node(b).kind = "module" \/ (b \in Recorded /\ Reached(Calls, {b}) \cap goal.from # {})}
<1>6. StaysIn(W)
  <2>1. goal.from \subseteq W
      BY <1>1, <1>3, <1>4
  <2>2. ASSUME NEW a \in W, NEW b \in IncomingAt(a) PROVE b \in W
    <3>1. a \in Recorded /\ Reached(Calls, {a}) \cap goal.from # {} /\ b \in Anchors
        BY <1>3, <2>2
    <3>2. CASE Node(b).kind = "module"
        BY <3>1, <3>2
    <3>3. CASE Node(b).kind # "module"
      <4>1. b \in Recorded /\ a \in OutgoingAt(b)
          BY <1>3, <3>1, <3>3
      <4>2. a \in Reached(Calls, {b}) /\ a \in Anchors
          BY <1>3, <1>4, <3>1, <4>1
      <4>3. Reached(Calls, {a}) \subseteq Reached(Calls, {b})
          BY <1>4, <3>1, <4>2
      <4> QED
          BY <3>1, <4>1, <4>3
    <3> QED
        BY <3>2, <3>3
  <2> QED
      BY <1>2, <2>1, <2>2 DEF StaysIn, Closed
<1> DEFINE V == {a \in Anchors : Fqn(a) \notin visited}
<1>7. \A b \in V : OutgoingAt(b) \subseteq V
    BY <1>2, <1>3, <1>5
<1> SUFFICES ASSUME NEW a \in Defs
             PROVE  Fqn(a) \in visited <=> Reached(Calls, {a}) \cap goal.from # {}
    OBVIOUS
<1>8. a \in Anchors /\ a \in Recorded
    BY <1>3
<1>9. ASSUME Fqn(a) \in visited PROVE Reached(Calls, {a}) \cap goal.from # {}
  <2>1. Fqn(a) \in FqnsOf(W)
      BY <1>5, <1>6, <1>9
  <2>2. a \in W
      BY <1>8, <2>1 DEF FqnsOf, FqnsAreUnique
  <2> QED
      BY <1>3, <1>8, <2>2
<1>10. ASSUME Fqn(a) \notin visited PROVE Reached(Calls, {a}) \cap goal.from = {}
  <2>1. a \in V /\ V \in SUBSET Anchors
      BY <1>8, <1>10
  <2> HIDE DEF V
  <2>2. Reached(Calls, {a}) \subseteq V
      BY <1>4, <1>7, <1>8, <2>1
  <2> QED
      BY <1>5, <2>2 DEF V
<1> QED
    BY <1>9, <1>10

\* What is nested in a definition is within it.
LEMMA DirectlyWithin ==
    ASSUME project \in Projects, NEW a \in Defs, NEW d \in Defs, d[1] = a[1], DefScope(d) = Node(a).container
    PROVE  IsWithin(a, d)
<1> DEFINE T == STRING
<1>1. Node(a).container \in Seq(T) /\ Node(a).name \in T
    BY FqnOfDef, Indexes
<1> HIDE DEF T
<1>2. /\ SubSeq(DefScope(a), 1, Len(DefScope(a)) - 1) = Node(a).container
    BY <1>1, Appended DEF DefScope
<1>3. Len(DefScope(a)) = Len(Node(a).container) + 1 /\ Len(Node(a).container) \in Nat
    BY <1>1 DEF DefScope
<1>4. Len(DefScope(a)) - 1 = Len(Node(a).container)
    BY <1>3
<1> QED
    BY <1>2, <1>3, <1>4 DEF IsWithin

\* ty's kinds, for the callables.
LEMMA TyKinds ==
    ASSUME project \in Projects, NEW a \in Anchors
    PROVE  /\ TyKind(a) = "method" <=> a \in Functions /\ \E c \in Classes : c[1] = a[1] /\ DefScope(c) = Node(a).container
           /\ TyKind(a) \in {"function", "method"} <=> a \in Functions
<1>1. Node(a).kind \in Kinds
    BY Indexes
<1>2. a \in Functions <=> Node(a).kind = "function"
    BY DEF Functions, OfKind
<1>3. CASE a \in Functions /\ \E c \in Classes : c[1] = a[1] /\ DefScope(c) = Node(a).container
  <2>1. TyKind(a) = "method"
      BY <1>3 DEF TyKind
  <2> QED
      BY <1>3, <2>1
<1>4. CASE ~(a \in Functions /\ \E c \in Classes : c[1] = a[1] /\ DefScope(c) = Node(a).container)
  <2>1. TyKind(a) = Node(a).kind
      BY <1>4 DEF TyKind
  <2> QED
      BY <1>1, <1>2, <1>4, <2>1 DEF Kinds
<1> QED
    BY <1>3, <1>4

\* The two notions of a test: by ty's kinds and by the index.
LEMMA TestNodes ==
    ASSUME project \in Projects
    PROVE  /\ CollectedTests \subseteq Defs
           /\ \A t \in CollectedTests : IsTestNode(t)
           /\ \A t \in Anchors : IsTestNode(t) /\ t \notin CollectedTests => \E f \in Functions : IsWithin(t, f)
<1>1. CollectedTests = {a \in Defs : IsCollectedTestDef(a, TestClasses)}
    BY DEF CollectedTests
<1>2. /\ Functions \subseteq Defs /\ Classes \subseteq Defs /\ Defs \subseteq Anchors
      /\ \A a \in Anchors : Node(a).kind = "function" <=> a \in Functions
      /\ \A a \in Defs : a \in Functions \/ a \in Classes
    BY DEF Functions, Classes, Defs, OfKind
<1>3. ASSUME NEW t \in CollectedTests PROVE IsTestNode(t)
  <2>1. t \in Defs /\ t \in Functions /\ IsTestFile(t[1]) /\ Node(t).name \in TestFunctionNames
        /\ (Node(t).container # <<>> => ScopeFqn(t[1], Node(t).container) \in TestClasses)
      BY <1>1, <1>2 DEF IsCollectedTestDef
  <2>2. Leaf(Fqn(t)) = Node(t).name /\ Owner(Fqn(t)) = ScopeFqn(t[1], Node(t).container)
      BY <2>1, FqnOfDef
  <2>3. TyKind(t) \in {"function", "method"}
      BY <1>2, <2>1, TyKinds
  <2>4. TyKind(t) = "method" => Node(t).container # <<>>
    <3>1. \A c \in Classes : DefScope(c) # <<>>
        BY <1>2, FqnOfDef
    <3> QED
        BY <1>2, <2>1, <3>1, TyKinds
  <2> QED
      BY <2>1, <2>2, <2>3, <2>4 DEF IsTestNode
<1>4. ASSUME NEW t \in Anchors, IsTestNode(t), t \notin CollectedTests PROVE \E f \in Functions : IsWithin(t, f)
  <2>1. IsTestFile(t[1]) /\ TyKind(t) \in {"function", "method"} /\ Leaf(Fqn(t)) \in TestFunctionNames
        /\ (TyKind(t) = "method" => Owner(Fqn(t)) \in TestClasses)
      BY <1>4 DEF IsTestNode
  <2>2. t \in Functions /\ t \in Defs
      BY <1>2, <2>1, TyKinds
  <2>3. Leaf(Fqn(t)) = Node(t).name /\ Owner(Fqn(t)) = ScopeFqn(t[1], Node(t).container)
      BY <2>2, FqnOfDef
  <2>4. Node(t).container # <<>> /\ ScopeFqn(t[1], Node(t).container) \notin TestClasses
      BY <1>1, <1>2, <1>4, <2>1, <2>2, <2>3 DEF IsCollectedTestDef
  <2>5. TyKind(t) # "method"
      BY <2>1, <2>3, <2>4
  <2>6. PICK d \in Defs : d[1] = t[1] /\ DefScope(d) = Node(t).container
      BY <2>2, <2>4, Indexes
  <2>7. d \in Functions
      BY <1>2, <2>2, <2>5, <2>6, TyKinds
  <2> QED
      BY <2>2, <2>6, <2>7, DirectlyWithin
<1> QED
    BY <1>1, <1>3, <1>4

\* The direct signs of dispatch are all of them signs of a framework's entry.
LEMMA CaveatIsEntry ==
    ASSUME NEW roots
    PROVE  Caveat(roots) <=> roots \cap FrameworkEntries # {}
<1>1. ASSUME DirectCaveat(roots) PROVE roots \cap FrameworkEntries # {}
  <2>1. PICK a \in Defs :
          /\ Fqn(a) \in roots
          /\ Node(a).decorated \/ InEntryClass(a, EntryClasses) \/ IsEntrypointFile(a[1])
      BY <1>1 DEF DirectCaveat
  <2>2. IsFrameworkEntry(a, EntryClasses)
      BY <2>1 DEF IsFrameworkEntry
  <2>3. Fqn(a) \in FrameworkEntries
      BY <2>2 DEF FrameworkEntries, FqnsOf
  <2> QED
      BY <2>1, <2>3
<1> QED
    BY <1>1 DEF Caveat

\* When "pyq tests" has its answer.
LEMMA TestsAnswer == QInv => TestsAreDual
<1> SUFFICES ASSUME QInv, verb = "tests", Finished PROVE TestsAreDual
    BY DEF TestsAreDual
<1>1. /\ Given /\ verb \in Closures /\ Layered
      /\ project \in Projects /\ goal.dir = "reverse" /\ goal.from \subseteq Defs
    BY DEF QInv, Given, Closures, LayerInv
<1>2. Defs \subseteq Anchors
    BY DEF Defs, OfKind
<1>3. \A n \in nodes : n.at \in Anchors /\ Fqn(n.at) \notin Roots /\ Fqn(n.at) \in visited
    BY <1>1 DEF Layered, FoundByAnEdge
<1>4. ASSUME FqnsAreUnique, NEW t
      PROVE  t \in TestRows \cap CollectedTests <=>
                t \in CollectedTests \ goal.from /\ Reached(Calls, {t}) \cap goal.from # {}
  <2> SUFFICES ASSUME t \in CollectedTests
               PROVE  t \in TestRows <=> t \notin goal.from /\ Reached(Calls, {t}) \cap goal.from # {}
      OBVIOUS
  <2>1. t \in Defs /\ t \in Anchors /\ IsTestNode(t)
      BY <1>1, <1>2, TestNodes
  <2>2. Fqn(t) \in visited <=> Reached(Calls, {t}) \cap goal.from # {}
      BY <1>4, <2>1, TestsFound
  <2>3. t \in goal.from <=> Fqn(t) \in Roots
      BY <1>1, <1>2, <1>4, <2>1 DEF Roots, FqnsOf, FqnsAreUnique
  <2>4. t \in TestRows => Fqn(t) \in visited /\ Fqn(t) \notin Roots
      BY <1>3 DEF TestRows
  <2>5. ASSUME Fqn(t) \in visited, Fqn(t) \notin Roots PROVE t \in TestRows
    <3>1. PICK n \in nodes : Fqn(n.at) = Fqn(t)
        BY <1>1, <2>5 DEF Layered
    <3>2. n.at = t
        BY <1>3, <1>4, <2>1, <3>1 DEF FqnsAreUnique
    <3> QED
        BY <2>1, <3>2 DEF TestRows
  <2> QED
      BY <2>2, <2>3, <2>4, <2>5
<1>5. \A t \in TestRows \ CollectedTests : \E f \in Functions : IsWithin(t, f)
    BY <1>1, <1>3, TestNodes DEF TestRows
<1>6. Exhaustive <=> goal.from # {} /\ Roots \cap FrameworkEntries = {}
    BY <1>1, CaveatIsEntry DEF Exhaustive
<1>7. FqnsAreUnique =>
        TestRows \cap CollectedTests =
          {t \in CollectedTests \ goal.from : Reached([a \in Anchors |-> OutgoingAt(a)], {t}) \cap goal.from # {}}
    BY <1>4 DEF Calls
<1> QED
    BY <1>5, <1>6, <1>7 DEF TestsAreDual

\* tests_map.rs: backwards and forwards agree, and "exhaustive" is said just when it is so.
THEOREM TestsAreTheDual == Spec => []TestsAreDual
<1> QED
    BY QueryInvariance, TestsAnswer, PTL

-----------------------------------------------------------------------------
(* The class hierarchy, by FQNs and by classes *)

\* The bases of a class.
ClassStep == [k \in Classes |-> BaseClasses(k)]

\* Their FQNs, as class_hierarchy.rs has them.
BaseStep == [fqn \in ClassFqns |-> Bases(fqn)]

\* What the kinds have in common.
LEMMA OfKinds ==
    /\ Functions \subseteq Defs /\ Classes \subseteq Defs /\ Defs \subseteq Anchors
    /\ \A a \in Anchors : Node(a).kind = "function" <=> a \in Functions
    /\ \A a \in Anchors : Node(a).kind = "class" <=> a \in Classes
    /\ \A a \in Defs : a \in Functions \/ a \in Classes
BY DEF Functions, Classes, Defs, OfKind

\* There are no more FQNs than definitions.
LEMMA FqnsFinite ==
    ASSUME NEW S, IsFiniteSet(S)
    PROVE  IsFiniteSet(FqnsOf(S))
<1> DEFINE f == [a \in S |-> Fqn(a)]
<1>1. f \in Surjection(S, FqnsOf(S))
    BY DEF Surjection, FqnsOf
<1> HIDE DEF f
<1> QED
    BY <1>1, FS_Surjection

\* Where FQNs are unique, the bases by FQN are the bases.
LEMMA BasesAre ==
    ASSUME project \in Projects, FqnsAreUnique
    PROVE  /\ \A c \in Classes : BaseClasses(c) \subseteq Classes
           /\ \A c \in Classes : Bases(Fqn(c)) = FqnsOf(BaseClasses(c))
<1>1. ASSUME NEW c \in Classes PROVE BaseClasses(c) \subseteq Classes
    BY DEF BaseClasses, ProjectBases
<1>2. ASSUME NEW c \in Classes PROVE Bases(Fqn(c)) = FqnsOf(BaseClasses(c))
  <2>1. Fqn(c) \in ClassFqns
      BY DEF ClassFqns, FqnsOf
  <2>2. {d \in Classes : Fqn(d) = Fqn(c)} = {c}
      BY OfKinds DEF FqnsAreUnique
  <2>3. ClassOf(Fqn(c)) = c
      BY <2>2 DEF ClassOf, LastOf
  <2> QED
      BY <2>1, <2>3 DEF Bases, BaseClasses, FqnsOf
<1> QED
    BY <1>1, <1>2

\* Both are graphs.
LEMMA ClassGraphs ==
    ASSUME project \in Projects, FqnsAreUnique
    PROVE  /\ IsGraph(ClassStep) /\ DOMAIN ClassStep = Classes
           /\ \A c \in Classes : ClassStep[c] = BaseClasses(c)
           /\ IsGraph(BaseStep) /\ DOMAIN BaseStep = ClassFqns
           /\ \A c \in Classes : Fqn(c) \in ClassFqns /\ BaseStep[Fqn(c)] = FqnsOf(BaseClasses(c))
<1>1. IsFiniteSet(Anchors) /\ Classes \subseteq Anchors
    BY Indexes, OfKinds
<1>2. IsFiniteSet(Classes) /\ IsFiniteSet(ClassFqns)
    BY <1>1, FS_Subset, FqnsFinite DEF ClassFqns
<1>3. \A fqn \in ClassFqns : \E c \in Classes : Fqn(c) = fqn
    BY DEF ClassFqns, FqnsOf
<1>4. \A c \in Classes : Fqn(c) \in ClassFqns
    BY DEF ClassFqns, FqnsOf
<1>5. \A fqn \in ClassFqns : Bases(fqn) \subseteq ClassFqns
  <2> SUFFICES ASSUME NEW c \in Classes PROVE FqnsOf(BaseClasses(c)) \subseteq ClassFqns
      BY <1>3, BasesAre
  <2> QED
      BY <1>4, BasesAre DEF FqnsOf
<1>6. IsGraph(ClassStep) /\ DOMAIN ClassStep = Classes
    BY <1>2, BasesAre DEF IsGraph, ClassStep
<1>7. IsGraph(BaseStep) /\ DOMAIN BaseStep = ClassFqns
    BY <1>2, <1>5 DEF IsGraph, BaseStep
<1>8. \A c \in Classes : BaseStep[Fqn(c)] = FqnsOf(BaseClasses(c))
    BY <1>4, BasesAre DEF BaseStep
<1> QED
    BY <1>4, <1>6, <1>7, <1>8 DEF ClassStep

\* Where each has an FQN of its own the ancestors are the same in either.
LEMMA SupersAre ==
    ASSUME project \in Projects, FqnsAreUnique, NEW d \in Classes
    PROVE  /\ Reached(ClassStep, BaseClasses(d)) \subseteq Classes
           /\ Supers(Fqn(d)) = FqnsOf(Reached(ClassStep, BaseClasses(d)))
<1> DEFINE S == BaseClasses(d)
           R == Reached(ClassStep, S)
           Q == Reached(BaseStep, FqnsOf(S))
<1>1. /\ IsGraph(ClassStep) /\ DOMAIN ClassStep = Classes
      /\ \A c \in Classes : ClassStep[c] = BaseClasses(c)
      /\ IsGraph(BaseStep) /\ DOMAIN BaseStep = ClassFqns
      /\ \A c \in Classes : Fqn(c) \in ClassFqns /\ BaseStep[Fqn(c)] = FqnsOf(BaseClasses(c))
    BY ClassGraphs
<1>2. S \subseteq Classes /\ \A c \in Classes : BaseClasses(c) \subseteq Classes
    BY BasesAre
<1>3. FqnsOf(S) \subseteq ClassFqns
    BY <1>1, <1>2 DEF FqnsOf
<1> HIDE DEF S
<1>4. /\ S \subseteq R /\ R \subseteq Classes
      /\ \A x \in R : ClassStep[x] \subseteq R
      /\ \A C : S \subseteq C /\ (\A x \in C \cap DOMAIN ClassStep : ClassStep[x] \subseteq C) => R \subseteq C
    BY <1>1, <1>2, ReachedIs
<1>5. /\ FqnsOf(S) \subseteq Q /\ Q \subseteq ClassFqns
      /\ \A x \in Q : BaseStep[x] \subseteq Q
      /\ \A C : FqnsOf(S) \subseteq C /\ (\A x \in C \cap DOMAIN BaseStep : BaseStep[x] \subseteq C) => Q \subseteq C
    BY <1>1, <1>3, ReachedIs
<1>6. Supers(Fqn(d)) = Q
    BY BasesAre DEF Supers, BaseStep, S
<1> HIDE DEF R, Q
<1>7. Q \subseteq FqnsOf(R)
  <2>1. FqnsOf(S) \subseteq FqnsOf(R)
      BY <1>4 DEF FqnsOf
  <2>2. ASSUME NEW x \in FqnsOf(R) \cap DOMAIN BaseStep PROVE BaseStep[x] \subseteq FqnsOf(R)
    <3>1. PICK c \in R : x = Fqn(c)
        BY DEF FqnsOf
    <3>2. c \in Classes /\ BaseClasses(c) \subseteq R
        BY <1>1, <1>4
    <3> QED
        BY <1>1, <3>1, <3>2 DEF FqnsOf
  <2> QED
      BY <1>5, <2>1, <2>2
<1>8. FqnsOf(R) \subseteq Q
  <2> DEFINE P == {c \in Classes : Fqn(c) \in Q}
  <2>1. S \subseteq P
      BY <1>2, <1>5 DEF FqnsOf, S
  <2>2. ASSUME NEW c \in P \cap DOMAIN ClassStep PROVE ClassStep[c] \subseteq P
    <3>1. c \in Classes /\ Fqn(c) \in Q
        OBVIOUS
    <3>2. FqnsOf(BaseClasses(c)) \subseteq Q /\ BaseClasses(c) \subseteq Classes
        BY <1>1, <1>2, <1>5, <3>1
    <3> QED
        BY <1>1, <3>1, <3>2 DEF FqnsOf
  <2>3. R \subseteq P
    <3> HIDE DEF P
    <3> QED
        BY <1>4, <2>1, <2>2
  <2> QED
      BY <2>3 DEF FqnsOf
<1> QED
    BY <1>4, <1>6, <1>7, <1>8 DEF R, S

-----------------------------------------------------------------------------
(* What may run when it is called *)

\* A function of a scope that a class has the name of is a method of the class.
LEMMA MethodsAre ==
    ASSUME project \in Projects, FqnsAreUnique, NEW c \in Classes, NEW m
    PROVE  m \in Methods(Fqn(c)) <=> \E b \in Functions : c \in ClassAround(b) /\ Node(b).name = m
<1>1. ASSUME m \in Methods(Fqn(c)) PROVE \E b \in Functions : c \in ClassAround(b) /\ Node(b).name = m
  <2>1. PICK b \in Functions : Node(b).container # <<>> /\ ScopeFqn(b[1], Node(b).container) = Fqn(c) /\ Node(b).name = m
      BY <1>1 DEF Methods
  <2>2. PICK d \in Defs : d[1] = b[1] /\ DefScope(d) = Node(b).container
      BY <2>1, OfKinds, Indexes
  <2>3. Fqn(d) = Fqn(c)
      BY <2>1, <2>2, FqnOfDef
  <2>4. d = c
      BY <2>3, OfKinds DEF FqnsAreUnique
  <2> QED
      BY <2>1, <2>2, <2>4 DEF ClassAround
<1>2. ASSUME NEW b \in Functions, c \in ClassAround(b), Node(b).name = m PROVE m \in Methods(Fqn(c))
  <2>1. c[1] = b[1] /\ DefScope(c) = Node(b).container
      BY <1>2 DEF ClassAround
  <2>2. DefScope(c) # <<>> /\ Fqn(c) = ScopeFqn(b[1], Node(b).container)
      BY <2>1, OfKinds, FqnOfDef
  <2> QED
      BY <1>2, <2>1, <2>2 DEF Methods
<1> QED
    BY <1>1, <1>2

\* The FQN of a method and its definition.
LEMMA MethodFqn ==
    ASSUME project \in Projects, FqnsAreUnique, NEW c \in Classes, NEW b \in Functions, c \in ClassAround(b)
    PROVE  /\ Fqn(b) = Append(Fqn(c), Node(b).name)
           /\ DefAnchor(Fqn(b)) = b
<1>1. c[1] = b[1] /\ DefScope(c) = Node(b).container
    BY DEF ClassAround
<1>2. Fqn(c) = ScopeFqn(b[1], Node(b).container) /\ b \in Defs /\ b \in Anchors
    BY <1>1, OfKinds, FqnOfDef
<1>3. Fqn(b) = Append(Fqn(c), Node(b).name)
    BY <1>2, FqnOfDef
<1>4. b \in DefsNamed(Fqn(b))
    BY <1>2 DEF DefsNamed
<1>5. DefAnchor(Fqn(b)) \in Defs /\ Fqn(DefAnchor(Fqn(b))) = Fqn(b)
    BY <1>4, FirstOfItsName
<1>6. DefAnchor(Fqn(b)) = b
    BY <1>2, <1>5, OfKinds DEF FqnsAreUnique
<1> QED
    BY <1>3, <1>6

\* ... is by which the call graph follows the overrides.
LEMMA OverridesAre ==
    ASSUME project \in Projects, FqnsAreUnique, NEW a \in Anchors
    PROVE  {e.to : e \in {x \in OverrideEdges : x.from = Fqn(a)}} = OverridesOf(a)
<1> DEFINE O == OverridesOf(a)
<1>1. ASSUME NEW e \in OverrideEdges, e.from = Fqn(a) PROVE e.to \in OverridesOf(a)
  <2>1. PICK C \in ClassFqns : e \in UNION {{[from |-> Append(base, m), to |-> DefAnchor(Append(C, m))] :
                      base \in Overrides(C, m)} : m \in Methods(C)}
      BY DEF OverrideEdges
  <2>0. PICK m \in Methods(C) :
            e \in {[from |-> Append(base, m), to |-> DefAnchor(Append(C, m))] : base \in Overrides(C, m)}
      BY <2>1
  <2>2. PICK base \in Overrides(C, m) :
            e = [from |-> Append(base, m), to |-> DefAnchor(Append(C, m))]
      BY <2>0
  <2>3. PICK d \in Classes : C = Fqn(d)
      BY DEF ClassFqns, FqnsOf
  <2>4. base \in Supers(C) /\ m \in Methods(base)
      BY <2>2 DEF Overrides
  <2>5. PICK c \in Reached(ClassStep, BaseClasses(d)) : base = Fqn(c)
      BY <2>3, <2>4, SupersAre DEF FqnsOf
  <2>6. c \in Classes
      BY <2>5, SupersAre
  <2>7. PICK f \in Functions : c \in ClassAround(f) /\ Node(f).name = m
      BY <2>4, <2>5, <2>6, MethodsAre
  <2>8. PICK b \in Functions : d \in ClassAround(b) /\ Node(b).name = m
      BY <2>2, <2>3, MethodsAre
  <2>9. Fqn(f) = Append(base, m) /\ Fqn(b) = Append(C, m) /\ DefAnchor(Fqn(b)) = b
      BY <2>3, <2>5, <2>6, <2>7, <2>8, MethodFqn
  <2>10. f = a
    <3>1. Fqn(f) = Fqn(a) /\ f \in Anchors
        BY <1>1, <2>2, <2>9, OfKinds
    <3> QED
        BY <3>1 DEF FqnsAreUnique
  <2>11. e.to = b
      BY <2>2, <2>9
  <2> QED
      BY <2>5, <2>7, <2>8, <2>10, <2>11 DEF OverridesOf, ClassStep
<1>2. ASSUME NEW b \in OverridesOf(a) PROVE \E e \in OverrideEdges : e.from = Fqn(a) /\ e.to = b
  <2>1. a \in Functions /\ b \in Functions /\ Node(b).name = Node(a).name
      BY DEF OverridesOf
  <2>2. PICK d \in ClassAround(b), c \in ClassAround(a) : c \in Reached(ClassStep, BaseClasses(d))
      BY DEF OverridesOf, ClassStep
  <2>3. d \in Classes /\ c \in Classes
      BY DEF ClassAround
  <2> DEFINE m == Node(b).name
             C == Fqn(d)
             e == [from |-> Append(Fqn(c), m), to |-> DefAnchor(Append(C, m))]
  <2>4. C \in ClassFqns /\ m \in Methods(C) /\ m \in Methods(Fqn(c))
      BY <2>1, <2>2, <2>3, MethodsAre DEF ClassFqns, FqnsOf
  <2>5. Fqn(c) \in Supers(C)
      BY <2>2, <2>3, SupersAre DEF FqnsOf
  <2>6. Fqn(c) \in Overrides(C, m)
      BY <2>4, <2>5 DEF Overrides
  <2>7. e \in OverrideEdges
    <3> DEFINE Of(k, n) == {[from |-> Append(base, n), to |-> DefAnchor(Append(k, n))] : base \in Overrides(k, n)}
    <3>1. e \in Of(C, m)
        BY <2>6
    <3>2. OverrideEdges = UNION {UNION {Of(k, n) : n \in Methods(k)} : k \in ClassFqns}
        BY DEF OverrideEdges
    <3> HIDE DEF Of, e, C, m
    <3>3. e \in UNION {Of(C, n) : n \in Methods(C)}
        BY <2>4, <3>1
    <3> QED
        BY <2>4, <3>2, <3>3
  <2>8. e.from = Fqn(a) /\ e.to = b
      BY <2>1, <2>2, <2>3, MethodFqn
  <2> QED
      BY <2>7, <2>8
<1> QED
    BY <1>1, <1>2

-----------------------------------------------------------------------------
(* "pyq deadcode" and "pyq canonical" *)

\* What may run when a is called is what the walk takes for its successors.
LEMMA MayRunIs ==
    ASSUME Given, FqnsAreUnique, verb \in {"deadcode", "canonical"}
    PROVE  /\ \A a \in Anchors : MayRun[a] = Successors(a)
           /\ IsGraph(MayRun) /\ DOMAIN MayRun = Anchors
<1>1. goal.dir = "forward" /\ goal.extra = OverrideEdges /\ project \in Projects
    BY DEF Given
<1>2. \A a \in Anchors : MayRun[a] = Successors(a)
    BY <1>1, OverridesAre DEF MayRun, Successors, Neighbours
<1>3. StaysIn(Anchors) /\ IsFiniteSet(Anchors)
    BY <1>1, WithinIndex, Indexes DEF Walks
<1> QED
    BY <1>2, <1>3 DEF IsGraph, MayRun, StaysIn, Closed

\* A walk by calls and overrides has met just what may run.
LEMMA VisitedIsLive ==
    ASSUME QInv, verb \in {"deadcode", "canonical"}, Finished, FqnsAreUnique
    PROVE  /\ Live(goal.from) \subseteq Anchors /\ goal.from \subseteq Live(goal.from)
           /\ \A a \in Live(goal.from) : Successors(a) \subseteq Live(goal.from)
           /\ visited = FqnsOf(Live(goal.from))
           /\ \A a \in Anchors : Fqn(a) \in visited <=> a \in Live(goal.from)
           /\ \A S \in SUBSET Anchors : StaysIn(S) => Live(goal.from) \subseteq S
<1> DEFINE L == Live(goal.from)
<1>1. Given /\ verb \in Walks /\ goal.limit = Unbounded
    BY DEF QInv, Given, Walks
<1>2. /\ StaysIn(Anchors)
      /\ \A S \in SUBSET Anchors : StaysIn(S) => visited \subseteq FqnsOf(S)
      /\ \A a \in goal.from : Fqn(a) \in visited
      /\ \A a \in Anchors : Fqn(a) \in visited => \A b \in Successors(a) : Fqn(b) \in visited
    BY <1>1, WalkIsExact
<1>3. /\ \A a \in Anchors : MayRun[a] = Successors(a)
      /\ IsGraph(MayRun) /\ DOMAIN MayRun = Anchors
      /\ goal.from \in SUBSET DOMAIN MayRun
    BY <1>1, <1>2, MayRunIs DEF StaysIn
<1>4. /\ goal.from \subseteq L /\ L \subseteq DOMAIN MayRun
      /\ \A x \in L : MayRun[x] \subseteq L
      /\ \A C : goal.from \subseteq C /\ (\A x \in C \cap DOMAIN MayRun : MayRun[x] \subseteq C) => L \subseteq C
    BY <1>3, ReachedIs DEF Live
<1> HIDE DEF L
<1>5. ASSUME NEW S \in SUBSET Anchors, StaysIn(S) PROVE L \subseteq S
  <2>1. goal.from \subseteq S /\ \A x \in S \cap DOMAIN MayRun : MayRun[x] \subseteq S
      BY <1>3, <1>5 DEF StaysIn, Closed
  <2> QED
      BY <1>4, <2>1
<1>6. L \subseteq Anchors /\ \A a \in L : Successors(a) \subseteq L
    BY <1>3, <1>4
<1>7. StaysIn(L)
    BY <1>4, <1>6 DEF StaysIn, Closed
<1>8. visited \subseteq FqnsOf(L)
    BY <1>2, <1>6, <1>7
<1> DEFINE V == {a \in Anchors : Fqn(a) \in visited}
<1>9. StaysIn(V)
    BY <1>2 DEF StaysIn, Closed
<1>10. L \subseteq V
    BY <1>5, <1>9
<1>11. \A a \in Anchors : Fqn(a) \in visited <=> a \in L
    BY <1>6, <1>8, <1>10 DEF FqnsOf, FqnsAreUnique
<1>12. visited = FqnsOf(L)
    BY <1>8, <1>10 DEF FqnsOf
<1> QED
    BY <1>4, <1>5, <1>6, <1>11, <1>12 DEF L

\* What is within a definition is within what that is in.
LEMMA WithinIsTransitive ==
    ASSUME project \in Projects, NEW a \in Defs, NEW b \in Defs, NEW c \in Defs,
           IsWithin(a, b), IsWithin(b, c)
    PROVE  IsWithin(a, c)
<1> DEFINE T == STRING
           r == DefScope(a)
           s == DefScope(b)
           t == DefScope(c)
<1>1. r \in Seq(T) /\ s \in Seq(T) /\ t \in Seq(T)
    BY FqnOfDef
<1>2. a[1] = c[1] /\ Len(s) < Len(r) /\ Len(t) < Len(s) /\ SubSeq(r, 1, Len(s)) = s /\ SubSeq(s, 1, Len(t)) = t
    BY DEF IsWithin
<1> HIDE DEF T, r, s, t
<1>3. Len(r) \in Nat /\ Len(s) \in Nat /\ Len(t) \in Nat
    BY <1>1
<1>4. SubSeq(r, 1, Len(t)) = t
  <2>1. \A i \in 1 .. Len(s) : s[i] = r[i]
      BY <1>1, <1>2, <1>3
  <2>2. \A i \in 1 .. Len(t) : t[i] = s[i]
      BY <1>1, <1>2, <1>3
  <2>3. \A i \in 1 .. Len(t) : t[i] = r[i]
      BY <1>2, <1>3, <2>1, <2>2
  <2>4. SubSeq(r, 1, Len(t)) \in Seq(T) /\ Len(SubSeq(r, 1, Len(t))) = Len(t)
        /\ \A i \in 1 .. Len(t) : SubSeq(r, 1, Len(t))[i] = r[i]
      BY <1>1, <1>2, <1>3
  <2> QED
      BY <1>1, <2>3, <2>4, SeqEqual
<1>5. Len(t) < Len(r)
    BY <1>2, <1>3
<1> QED
    BY <1>2, <1>4, <1>5 DEF IsWithin, r, t

\* When "pyq deadcode" has its answer.
LEMMA DeadAnswer == QInv => DeadIsExact
<1> SUFFICES ASSUME QInv, verb = "deadcode", Finished, FqnsAreUnique PROVE DeadIsExact
    BY DEF DeadIsExact
<1> DEFINE L == Live(goal.from)
<1>1. /\ visited = FqnsOf(L)
      /\ \A a \in Anchors : Fqn(a) \in visited <=> a \in L
    BY VisitedIsLive
<1>2. project \in Projects
    BY DEF QInv, Given
<1> HIDE DEF L
<1>3. \A a \in Defs : a \in Anchors /\ (a \in Unreached(visited) <=> a \notin L)
    BY <1>1, OfKinds DEF Unreached
<1>4. Dead(visited) \subseteq Unreached(visited) /\ Unreached(visited) \subseteq Defs
    BY DEF Dead, Unreached
<1>5. ASSUME NEW d \in Unreached(visited), d \notin Dead(visited)
      PROVE  \E e \in Unreached(visited) : IsWithin(d, e)
  <2>1. d \in Defs /\ Node(d).container # <<>> /\ Owner(Fqn(d)) \in FqnsOf(Unreached(visited))
      BY <1>4, <1>5 DEF Dead
  <2>2. PICK u \in Unreached(visited) : Fqn(u) = Owner(Fqn(d))
      BY <2>1 DEF FqnsOf
  <2>3. PICK e \in Defs : e[1] = d[1] /\ DefScope(e) = Node(d).container
      BY <1>2, <2>1, Indexes
  <2>4. Fqn(e) = Owner(Fqn(d))
      BY <1>2, <2>1, <2>3, FqnOfDef
  <2>5. e = u
      BY <1>3, <1>4, <2>2, <2>4 DEF FqnsAreUnique
  <2>6. IsWithin(d, e)
      BY <1>2, <2>1, <2>3, DirectlyWithin
  <2> QED
      BY <2>2, <2>5, <2>6
<1>6. ASSUME NEW a \in (Defs \ L) \ Dead(visited) PROVE \E d \in Dead(visited) : IsWithin(a, d)
  <2> DEFINE D == {d \in Unreached(visited) : IsWithin(a, d)}
             Lengths == {Len(DefScope(d)) : d \in D}
  <2>1. a \in Defs /\ D # {}
      BY <1>3, <1>5, <1>6
  <2>2. ASSUME NEW d \in Defs PROVE Len(DefScope(d)) \in Nat
    <3> DEFINE T == STRING
    <3>1. DefScope(d) \in Seq(T)
        BY <1>2, <2>2, FqnOfDef
    <3> HIDE DEF T
    <3> QED
        BY <3>1
  <2>3. Lengths \in SUBSET Nat /\ Lengths # {}
      BY <1>4, <2>1, <2>2
  <2>4. PICK n \in Lengths : \A m \in Lengths : n <= m
    <3> HIDE DEF Lengths
    <3> QED
        BY <2>3, Least
  <2>5. PICK d \in D : n = Len(DefScope(d))
      BY <2>4
  <2>6. d \in Unreached(visited) /\ d \in Defs /\ IsWithin(a, d)
      BY <1>4, <2>5
  <2>7. d \in Dead(visited)
    <3> SUFFICES ASSUME d \notin Dead(visited) PROVE FALSE
        OBVIOUS
    <3>1. PICK e \in Unreached(visited) : IsWithin(d, e)
        BY <1>5, <2>6
    <3>2. e \in Defs /\ IsWithin(a, e)
        BY <1>2, <1>4, <2>1, <2>6, <3>1, WithinIsTransitive
    <3>3. Len(DefScope(e)) < n
        BY <2>5, <3>1 DEF IsWithin
    <3>4. Len(DefScope(e)) \in Lengths
        BY <3>1, <3>2
    <3> QED
        BY <2>2, <2>3, <2>4, <3>2, <3>3, <3>4
  <2> QED
      BY <2>6, <2>7
<1>7. Dead(visited) \cap L = {}
    BY <1>3, <1>4
<1> QED
    BY <1>1, <1>6, <1>7 DEF DeadIsExact, L

\* deadcode.rs reports just what nothing runs, though not each with what is around it.
THEOREM DeadReportsAreExact == Spec => []DeadIsExact
<1> QED
    BY QueryInvariance, DeadAnswer, PTL

\* The owner of the FQN of anything but a method or a nested definition is no class.
LEMMA OwnersAre ==
    ASSUME project \in Projects, FqnsAreUnique, NEW a \in Classes, NEW b \in Anchors,
           Node(b).kind # "module", Owner(Fqn(b)) = Fqn(a)
    PROVE  b \in Defs /\ a \in ClassAround(b)
<1> DEFINE T == STRING
<1>0. a \in Defs /\ a \in Anchors /\ Node(a).kind = "class"
    BY OfKinds
<1>1. PICK m \in Anchors : m[1] = b[1] /\ Node(m).kind = "module"
    BY Indexes
<1>2. Fqn(m) = ScopeFqn(b[1], <<>>) /\ m # a
    BY <1>0, <1>1 DEF Fqn
<1>3. b[1] \in DOMAIN Files /\ Node(b).name \in T /\ Files[b[1]].module \in Seq(T)
    BY Indexes
<1>4. CASE b \in Defs
  <2>1. Owner(Fqn(b)) = ScopeFqn(b[1], Node(b).container)
      BY <1>4, FqnOfDef
  <2>2. Node(b).container # <<>>
      BY <1>0, <1>1, <1>2, <2>1 DEF FqnsAreUnique
  <2>3. PICK d \in Defs : d[1] = b[1] /\ DefScope(d) = Node(b).container
      BY <1>4, <2>2, Indexes
  <2>4. Fqn(d) = Fqn(a)
      BY <2>1, <2>3, FqnOfDef
  <2>5. d = a
      BY <1>0, <2>4, OfKinds DEF FqnsAreUnique
  <2> QED
      BY <1>4, <2>3, <2>5 DEF ClassAround
<1>5. CASE b \notin Defs
  <2>1. Node(b).kind \in {"lambda", "variable"}
      BY <1>5, Indexes DEF Defs, OfKind, Kinds
  <2>2. CASE Node(b).kind = "variable"
    <3>1. Fqn(b) = ScopeFqn(b[1], <<>>)
        BY <2>2 DEF Fqn
    <3>2. b = m
        BY <1>1, <1>2, <3>1 DEF FqnsAreUnique
    <3> QED
        BY <1>1, <2>2, <3>2
  <2>3. CASE Node(b).kind = "lambda"
    <3>1. Fqn(b) = ScopeFqn(b[1], <<Node(b).name>>)
        BY <2>3 DEF Fqn
    <3> DEFINE s == Files[b[1]].module
               n == Node(b).name
    <3>2. s \in Seq(T) /\ n \in T
        BY <1>3
    <3>3. Fqn(b) = s \o <<n>> /\ Fqn(m) = s \o <<>>
        BY <1>2, <3>1 DEF ScopeFqn
    <3> HIDE DEF s, n, T
    <3>4. s \o <<>> = s
        BY <3>2
    <3>5. s \o <<n>> = Append(s, n)
        BY <3>2
    <3>6. Owner(Fqn(b)) = s
        BY <3>2, <3>3, <3>5, Appended DEF Owner
    <3>7. Fqn(a) = Fqn(m)
        BY <3>3, <3>4, <3>6
    <3> QED
        BY <1>0, <1>1, <1>2, <3>7 DEF FqnsAreUnique
  <2> QED
      BY <2>1, <2>2, <2>3
<1> QED
    BY <1>4, <1>5

\* When "pyq canonical" has its answer.
LEMMA UntestedAnswer == QInv => UntestedIsExact
<1> SUFFICES ASSUME QInv, verb = "canonical", Finished, FqnsAreUnique PROVE UntestedIsExact
    BY DEF UntestedIsExact
<1> DEFINE run == Live(CollectedTests)
           listed == UntestedPublic(visited)
           Covered(a) == a \in run \/ (a \in Classes /\ \E b \in run \cap Defs : a \in ClassAround(b))
<1>1. Given /\ project \in Projects /\ recording = Record /\ goal.from = CollectedTests /\ goal.dir = "forward"
    BY DEF QInv, Given
<1>2. /\ run \subseteq Anchors /\ CollectedTests \subseteq run
      /\ \A a \in run : Successors(a) \subseteq run
      /\ visited = FqnsOf(run)
      /\ \A a \in Anchors : Fqn(a) \in visited <=> a \in run
      /\ \A S \in SUBSET Anchors : StaysIn(S) => run \subseteq S
    BY <1>1, VisitedIsLive
<1>3. /\ \A a \in Anchors : OutgoingAt(a) \subseteq Recorded
      /\ Recorded \subseteq Anchors /\ Defs \subseteq Recorded
      /\ \A a \in Recorded : Node(a).kind # "module" /\ OutgoingAt(a) = TyOutgoing(a)
    BY <1>1, Dual
<1>4. \A a : OutgoingAt(a) \subseteq Successors(a)
    BY <1>1 DEF Successors, Neighbours
<1> HIDE DEF run
<1>5. \A a \in run : Node(a).kind # "module"
  <2> DEFINE S == {a \in Anchors : Node(a).kind # "module"}
  <2>1. goal.from \subseteq S
      BY <1>1, <1>3, TestNodes
  <2>2. ASSUME NEW a \in S PROVE Successors(a) \subseteq S
    <3>1. Successors(a) = OutgoingAt(a) \cup OverridesOf(a)
        BY <1>1, OverridesAre DEF Successors, Neighbours, Given
    <3>2. OverridesOf(a) \subseteq Functions /\ Functions \subseteq Defs
        BY OfKinds DEF OverridesOf
    <3> QED
        BY <1>3, <3>1, <3>2
  <2>3. StaysIn(S)
      BY <2>1, <2>2 DEF StaysIn, Closed
  <2> QED
      BY <1>2, <2>3
<1>6. ASSUME NEW a \in Defs PROVE Tested(a, visited) <=> Covered(a)
  <2>1. a \in Anchors /\ (Fqn(a) \in visited <=> a \in run)
      BY <1>2, OfKinds
  <2>2. ASSUME a \in Classes, NEW fqn \in visited, Owner(fqn) = Fqn(a)
        PROVE  \E b \in run \cap Defs : a \in ClassAround(b)
    <3>1. PICK b \in run : Fqn(b) = fqn
        BY <1>2 DEF FqnsOf
    <3>2. b \in Anchors /\ Node(b).kind # "module"
        BY <1>2, <1>5
    <3> QED
        BY <1>1, <2>2, <3>1, <3>2, OwnersAre
  <2>3. ASSUME a \in Classes, NEW b \in run \cap Defs, a \in ClassAround(b)
        PROVE  Fqn(a) \in {Owner(fqn) : fqn \in visited}
    <3>1. Fqn(b) \in visited
        BY <1>2
    <3>2. Owner(Fqn(b)) = ScopeFqn(b[1], Node(b).container)
        BY <1>1, FqnOfDef
    <3>3. Fqn(a) = ScopeFqn(b[1], Node(b).container)
        BY <1>1, <2>3, FqnOfDef DEF ClassAround
    <3> QED
        BY <3>1, <3>2, <3>3
  <2> QED
      BY <2>1, <2>2, <2>3 DEF Tested
<1>7. listed = {a \in Defs : /\ IsPublicSurface(a) /\ ~InTestTree(a[1])
                             /\ ~Covered(a) /\ Fqn(a) \notin FrameworkEntries}
  <2> HIDE DEF Covered
  <2> QED
      BY <1>6 DEF UntestedPublic
<1>8. ASSUME NEW a \in listed PROVE CallerIndex(Fqn(a)) \cap visited = {}
  <2> SUFFICES ASSUME NEW fqn \in CallerIndex(Fqn(a)), fqn \in visited PROVE FALSE
      OBVIOUS
  <2>1. a \in Defs /\ ~Covered(a)
      BY <1>6 DEF UntestedPublic
  <2>2. PICK c \in project.calls : c.from \in Defs /\ c.to \in Defs /\ Fqn(c.to) = Fqn(a) /\ fqn = Fqn(c.from)
      BY DEF CallerIndex
  <2>3. c.to = a
      BY <2>1, <2>2, OfKinds DEF FqnsAreUnique
  <2>4. c.from \in run
      BY <1>2, <2>2, OfKinds
  <2>5. a \in OutgoingAt(c.from)
      BY <1>3, <2>2, <2>3 DEF TyOutgoing
  <2>6. a \in run
      BY <1>2, <1>4, <2>4, <2>5
  <2> QED
      BY <2>1, <2>6
<1>9. \A r \in Inventory : r.fqn \in visited
    BY <1>2, TestNodes, OfKinds DEF Inventory, FqnsOf
<1> QED
    BY <1>7, <1>8, <1>9 DEF UntestedIsExact, run

\* canonical.rs lists as untested just what no collected test may run, classes by their methods.
THEOREM UntestedReportsAreExact == Spec => []UntestedIsExact
<1> QED
    BY QueryInvariance, UntestedAnswer, PTL

-----------------------------------------------------------------------------
(* The order of the sweep *)

\* The order of the walk is a total one.
LEMMA BeforeIsAnOrder ==
    ASSUME project \in Projects
    PROVE  /\ \A a \in Anchors : ~Before(a, a)
           /\ \A a, b \in Anchors : a # b => Before(a, b) \/ Before(b, a)
           /\ \A a, b, c \in Anchors : Before(a, b) /\ Before(b, c) => Before(a, c)
<1>1. \A a \in Anchors : a = <<a[1], a[2]>> /\ a[1] \in Nat /\ a[2] \in Nat
    BY Indexes
<1>2. \A a \in Anchors : ~Before(a, a)
    BY <1>1 DEF Before
<1>3. \A a, b, c \in Anchors : Before(a, b) /\ Before(b, c) => Before(a, c)
    BY <1>1 DEF Before
<1>4. ASSUME NEW a \in Anchors, NEW b \in Anchors, a # b PROVE Before(a, b) \/ Before(b, a)
  <2>1. a[1] # b[1] \/ a[2] # b[2]
      BY <1>1, <1>4
  <2> QED
      BY <1>1, <2>1 DEF Before
<1> QED
    BY <1>2, <1>3, <1>4

\* As many numbers as members, and no two alike.
LEMMA Ranks ==
    ASSUME NEW S, IsFiniteSet(S), NEW rank \in [S -> Nat],
           \A a \in S : rank[a] < Cardinality(S),
           \A a, b \in S : rank[a] = rank[b] => a = b
    PROVE  /\ Cardinality(S) \in Nat
           /\ \A i \in 1 .. Cardinality(S) : \E a \in S : rank[a] = i - 1
<1> DEFINE n == Cardinality(S)
           m == n - 1
           R == 0 .. m
<1>1. n \in Nat
    BY FS_CardinalityType
<1>2. rank \in [S -> R]
    BY <1>1
<1>3. rank \in Injection(S, R)
    BY <1>2 DEF Injection, IsInjective
<1>4. IsFiniteSet(R) /\ Cardinality(R) = n
  <2>1. 0 \in Int /\ m \in Int
      BY <1>1
  <2>2. IsFiniteSet(R) /\ Cardinality(R) = IF 0 > m THEN 0 ELSE m - 0 + 1
      BY <2>1, FS_Interval
  <2> QED
      BY <1>1, <2>2
<1>5. rank \in Surjection(S, R)
  <2> HIDE DEF R
  <2> QED
      BY <1>3, <1>4, FS_Injection
<1>6. \A r \in R : \E a \in S : rank[a] = r
    BY <1>5 DEF Surjection
<1>7. \A i \in 1 .. n : i - 1 \in R
    BY <1>1
<1> QED
    BY <1>1, <1>6, <1>7

\* In that order each definition has one place.
LEMMA InOrderIs ==
    ASSUME project \in Projects, NEW S \in SUBSET Anchors
    PROVE  /\ IsFiniteSet(S) /\ Cardinality(S) \in Nat
           /\ DOMAIN InOrder(S) = 1 .. Cardinality(S)
           /\ \A i \in 1 .. Cardinality(S) : InOrder(S)[i] \in S
           /\ \A a \in S : \E i \in 1 .. Cardinality(S) : InOrder(S)[i] = a
<1>0. IsFiniteSet(S) /\ Cardinality(S) \in Nat
    BY Indexes, FS_Subset, FS_CardinalityType
<1> DEFINE Less(a) == {b \in S : Before(b, a)}
           rank == [a \in S |-> Cardinality(Less(a))]
<1>1. ASSUME NEW a \in S
      PROVE  IsFiniteSet(Less(a)) /\ Cardinality(Less(a)) \in Nat /\ Cardinality(Less(a)) < Cardinality(S)
  <2>1. Less(a) \in SUBSET S /\ a \notin Less(a)
      BY BeforeIsAnOrder
  <2> HIDE DEF Less
  <2>2. IsFiniteSet(Less(a)) /\ Cardinality(Less(a)) <= Cardinality(S)
        /\ (Cardinality(S) = Cardinality(Less(a)) => S = Less(a))
      BY <1>0, <2>1, FS_Subset
  <2>3. Cardinality(Less(a)) \in Nat
      BY <2>2, FS_CardinalityType
  <2> QED
      BY <1>0, <2>1, <2>2, <2>3
<1>2. ASSUME NEW a \in S, NEW b \in S, Before(a, b) PROVE Cardinality(Less(a)) < Cardinality(Less(b))
  <2>1. Less(a) \in SUBSET Less(b) /\ a \in Less(b) /\ a \notin Less(a)
      BY <1>2, BeforeIsAnOrder
  <2>2. IsFiniteSet(Less(b)) /\ Cardinality(Less(b)) \in Nat /\ Cardinality(Less(a)) \in Nat
      BY <1>1
  <2> HIDE DEF Less
  <2>3. Cardinality(Less(a)) <= Cardinality(Less(b))
        /\ (Cardinality(Less(b)) = Cardinality(Less(a)) => Less(b) = Less(a))
      BY <2>1, <2>2, FS_Subset
  <2> QED
      BY <2>1, <2>2, <2>3
<1>3. \A a, b \in S : rank[a] = rank[b] => a = b
  <2> SUFFICES ASSUME NEW a \in S, NEW b \in S, a # b PROVE Cardinality(Less(a)) # Cardinality(Less(b))
      OBVIOUS
  <2>1. Before(a, b) \/ Before(b, a)
      BY BeforeIsAnOrder
  <2>2. Cardinality(Less(a)) \in Nat /\ Cardinality(Less(b)) \in Nat
      BY <1>1
  <2> HIDE DEF Less
  <2> QED
      BY <1>2, <2>1, <2>2
<1>4. rank \in [S -> Nat] /\ \A a \in S : rank[a] < Cardinality(S)
  <2> HIDE DEF Less
  <2> QED
      BY <1>1
<1>5. \A a \in S : rank[a] = Cardinality({b \in S : Before(b, a)})
    OBVIOUS
<1> HIDE DEF rank
<1>6. \A i \in 1 .. Cardinality(S) : \E a \in S : rank[a] = i - 1
    BY <1>0, <1>3, <1>4, Ranks
<1>7. DOMAIN InOrder(S) = 1 .. Cardinality(S)
    BY DEF InOrder
<1>8. ASSUME NEW i \in 1 .. Cardinality(S) PROVE InOrder(S)[i] \in S /\ rank[InOrder(S)[i]] = i - 1
  <2>1. \E a \in S : Cardinality({b \in S : Before(b, a)}) = i - 1
      BY <1>5, <1>6
  <2>2. InOrder(S)[i] = CHOOSE a \in S : Cardinality({b \in S : Before(b, a)}) = i - 1
      BY DEF InOrder
  <2>3. InOrder(S)[i] \in S /\ Cardinality({b \in S : Before(b, InOrder(S)[i])}) = i - 1
      BY <2>1, <2>2
  <2> QED
      BY <1>5, <2>3
<1>9. ASSUME NEW a \in S PROVE \E i \in 1 .. Cardinality(S) : InOrder(S)[i] = a
  <2>1. rank[a] \in Nat /\ rank[a] < Cardinality(S)
      BY <1>4
  <2>2. rank[a] + 1 \in 1 .. Cardinality(S) /\ (rank[a] + 1) - 1 = rank[a]
      BY <1>0, <2>1
  <2>3. InOrder(S)[rank[a] + 1] = a
      BY <1>3, <1>8, <2>2
  <2> QED
      BY <2>2, <2>3
<1> QED
    BY <1>0, <1>7, <1>8, <1>9

\* A set as a sequence has all of its members.
LEMMA SetToSeqIs ==
    ASSUME NEW S, IsFiniteSet(S)
    PROVE  /\ SetToSeq(S) \in Seq(S)
           /\ DOMAIN SetToSeq(S) = 1 .. Len(SetToSeq(S))
           /\ \A a \in S : \E i \in DOMAIN SetToSeq(S) : SetToSeq(S)[i] = a
<1> DEFINE n == Cardinality(S)
           s == SetToSeq(S)
<1>1. n \in Nat /\ ExistsBijection(1 .. n, S)
    BY FS_CardinalityType
<1>2. \E f \in [1 .. n -> S] : IsInjective(f)
    BY <1>1 DEF ExistsBijection, Bijection, Injection
<1>3. s \in [1 .. n -> S] /\ IsInjective(s)
    BY <1>2 DEF SetToSeq
<1> HIDE DEF s
<1>4. s \in Injection(1 .. n, S)
    BY <1>3 DEF Injection
<1>5. Cardinality(1 .. n) = n
  <2>1. 1 \in Int /\ n \in Int
      BY <1>1
  <2>2. Cardinality(1 .. n) = IF 1 > n THEN 0 ELSE n - 1 + 1
      BY <2>1, FS_Interval
  <2> QED
      BY <1>1, <2>2
<1>6. s \in Surjection(1 .. n, S)
    BY <1>4, <1>5, FS_Injection
<1>7. \A a \in S : \E i \in 1 .. n : s[i] = a
    BY <1>6 DEF Surjection
<1>8. s \in Seq(S) /\ DOMAIN s = 1 .. n /\ Len(s) = n
    BY <1>1, <1>3
<1> QED
    BY <1>7, <1>8 DEF s

-----------------------------------------------------------------------------
(* The sweep *)

\* The places that the sweep goes to, in no order.
Places(symbol) ==
    {DefPlace(a) : a \in Named(symbol)}
    \cup {ImportPlace(b) : b \in NamedBindings(symbol)}
    \cup {UsePlace(u) : u \in NamedUses(symbol)}

\* There are finitely many imports and uses.
LEMMA PlacesFinite ==
    ASSUME project \in Projects, NEW symbol
    PROVE  IsFiniteSet({ImportPlace(b) : b \in NamedBindings(symbol)}
                       \cup {UsePlace(u) : u \in NamedUses(symbol)})
<1>1. IsFiniteSet(UsesOfNames)
    BY Indexes, FS_Union DEF UsesOfNames
<1> DEFINE X == {x \in UsesOfNames : x.by \in {"name", "alias"}}
           f == [u \in X |-> [file |-> u.from[1], to |-> u.to, by |-> u.by]]
           B == NamedBindings(symbol)
           g == [b \in B |-> ImportPlace(b)]
           U == NamedUses(symbol)
           h == [u \in U |-> UsePlace(u)]
<1>2. IsFiniteSet(X) /\ IsFiniteSet(U)
  <2>1. X \in SUBSET UsesOfNames /\ U \in SUBSET UsesOfNames
      BY DEF NamedUses
  <2> HIDE DEF X, U
  <2> QED
      BY <1>1, <2>1, FS_Subset
<1>3. IsFiniteSet(Bindings)
  <2>1. f \in Surjection(X, Bindings)
      BY DEF Surjection, Bindings
  <2> HIDE DEF f, X
  <2> QED
      BY <1>2, <2>1, FS_Surjection
<1>4. IsFiniteSet(B)
  <2>1. B \in SUBSET Bindings
      BY DEF NamedBindings
  <2> HIDE DEF B
  <2> QED
      BY <1>3, <2>1, FS_Subset
<1>5. IsFiniteSet({ImportPlace(b) : b \in B})
  <2> HIDE DEF B
  <2>1. g \in Surjection(B, {ImportPlace(b) : b \in B})
      BY DEF Surjection
  <2> HIDE DEF g
  <2> QED
      BY <1>4, <2>1, FS_Surjection
<1>6. IsFiniteSet({UsePlace(u) : u \in U})
  <2> HIDE DEF U
  <2>1. h \in Surjection(U, {UsePlace(u) : u \in U})
      BY DEF Surjection
  <2> HIDE DEF h
  <2> QED
      BY <1>2, <2>1, FS_Surjection
<1> QED
    BY <1>5, <1>6, FS_Union

\* Two sequences on end.
LEMMA OnEnd ==
    ASSUME NEW T, NEW s \in Seq(T), NEW t \in Seq(T)
    PROVE  /\ s \o t \in Seq(T) /\ Len(s \o t) \in Nat
           /\ \A i \in 1 .. Len(s \o t) : (s \o t)[i] \in T
           /\ \A i \in 1 .. Len(s) : \E j \in 1 .. Len(s \o t) : (s \o t)[j] = s[i]
           /\ \A i \in 1 .. Len(t) : \E j \in 1 .. Len(s \o t) : (s \o t)[j] = t[i]
<1>1. /\ s \o t \in Seq(T) /\ Len(s \o t) = Len(s) + Len(t)
      /\ Len(s) \in Nat /\ Len(t) \in Nat
      /\ \A i \in 1 .. Len(s) : (s \o t)[i] = s[i]
      /\ \A i \in 1 .. Len(t) : (s \o t)[Len(s) + i] = t[i]
    OBVIOUS
<1>2. \A i \in 1 .. Len(s \o t) : (s \o t)[i] \in T
    BY <1>1
<1>3. \A i \in 1 .. Len(s) : i \in 1 .. Len(s \o t)
    BY <1>1
<1>4. \A i \in 1 .. Len(t) : Len(s) + i \in 1 .. Len(s \o t)
    BY <1>1
<1> QED
    BY SMTT(30), <1>1, <1>2, <1>3, <1>4

\* It goes to each of them, and to nothing else.
LEMMA OccurrencesAre ==
    ASSUME project \in Projects, NEW symbol
    PROVE  /\ Len(Occurrences(symbol)) \in Nat
           /\ \A i \in 1 .. Len(Occurrences(symbol)) : Occurrences(symbol)[i] \in Places(symbol)
           /\ \A p \in Places(symbol) : \E i \in 1 .. Len(Occurrences(symbol)) : Occurrences(symbol)[i] = p
<1> DEFINE N == Named(symbol)
           defs == InOrder(N)
           d == [i \in DOMAIN defs |-> DefPlace(defs[i])]
           S == {ImportPlace(b) : b \in NamedBindings(symbol)}
                    \cup {UsePlace(u) : u \in NamedUses(symbol)}
           u == SetToSeq(S)
           P == Places(symbol)
<1>1. N \in SUBSET Anchors
    BY DEF Named, Bindable, OfKind
<1>2. /\ Cardinality(N) \in Nat
      /\ DOMAIN defs = 1 .. Cardinality(N)
      /\ \A i \in 1 .. Cardinality(N) : defs[i] \in N
      /\ \A a \in N : \E i \in 1 .. Cardinality(N) : defs[i] = a
  <2> HIDE DEF N
  <2> QED
      BY <1>1, InOrderIs
<1>3. /\ u \in Seq(S) /\ DOMAIN u = 1 .. Len(u)
      /\ \A a \in S : \E i \in DOMAIN u : u[i] = a
  <2>1. IsFiniteSet(S)
      BY PlacesFinite
  <2> HIDE DEF S
  <2> QED
      BY <2>1, SetToSeqIs
<1>4. Occurrences(symbol) = d \o u
    BY DEF Occurrences
<1>5. P = {DefPlace(a) : a \in N} \cup S
    BY DEF Places
<1> HIDE DEF N, defs, S, u, P
<1>6. d \in Seq(P) /\ Len(d) = Cardinality(N) /\ \A i \in 1 .. Len(d) : d[i] = DefPlace(defs[i])
  <2>1. d \in [1 .. Cardinality(N) -> P]
      BY <1>2, <1>5
  <2>2. d \in Seq(P) /\ Len(d) = Cardinality(N)
    <3> HIDE DEF d
    <3> QED
        BY <1>2, <2>1
  <2> QED
      BY <1>2, <2>2
<1>7. u \in Seq(P)
  <2>1. \A i \in 1 .. Len(u) : u[i] \in P
      BY <1>3, <1>5
  <2>2. Len(u) \in Nat /\ u = [i \in 1 .. Len(u) |-> u[i]]
      BY <1>3
  <2> QED
      BY <2>1, <2>2
<1> HIDE DEF d
<1>8. /\ Len(d \o u) \in Nat
      /\ \A i \in 1 .. Len(d \o u) : (d \o u)[i] \in P
      /\ \A i \in 1 .. Len(d) : \E j \in 1 .. Len(d \o u) : (d \o u)[j] = d[i]
      /\ \A i \in 1 .. Len(u) : \E j \in 1 .. Len(d \o u) : (d \o u)[j] = u[i]
    BY <1>6, <1>7, OnEnd
<1>9. ASSUME NEW p \in P PROVE \E i \in 1 .. Len(d \o u) : (d \o u)[i] = p
  <2>1. CASE p \in S
      BY <1>3, <1>8, <2>1
  <2>2. CASE p \notin S
    <3>1. PICK a \in N : p = DefPlace(a)
        BY <1>5, <2>2
    <3>2. PICK i \in 1 .. Cardinality(N) : defs[i] = a
        BY <1>2
    <3>3. d[i] = p /\ i \in 1 .. Len(d)
        BY <1>6, <3>1, <3>2
    <3> QED
        BY <1>8, <3>3
  <2> QED
      BY <2>1, <2>2
<1> QED
    BY <1>4, <1>8, <1>9 DEF P

\* What is covered.
KeysOf(rows) == {r.key : r \in rows}

\* What the sweep has after one place more.
After(symbol, v, sight, place, before) ==
    IF place.key \in KeysOf(before) THEN before
    ELSE before \cup {[key |-> k, resolves_to |-> OwnerOf(symbol, place)] :
                         k \in Resolved(v, place, sight) \ KeysOf(before)}

\* The rows after each place of the walk.
SweptInSteps(rows, symbol, v, sight) ==
    /\ Swept(symbol, v, sight) = rows[Len(Occurrences(symbol))]
    /\ rows[0] = {}
    /\ \A n \in 1 .. Len(Occurrences(symbol)) :
          rows[n] = After(symbol, v, sight, Occurrences(symbol)[n], rows[n - 1])

\* The recursion of the sweep has a solution.
LEMMA Sweeping ==
    ASSUME NEW symbol, NEW v, NEW sight, Len(Occurrences(symbol)) \in Nat
    PROVE  \E rows : SweptInSteps(rows, symbol, v, sight)
<1> DEFINE places == Occurrences(symbol)
           N == Len(places)
           D(g, i) == IF i = 0 THEN {} ELSE After(symbol, v, sight, places[i], g[i - 1])
           Ok == {m \in Nat : \E g : g = [i \in 0 .. m |-> D(g, i)]}
<1>0. N \in Nat
    OBVIOUS
<1>1. 0 \in Ok
  <2> DEFINE g == [i \in 0 .. 0 |-> {}]
  <2>1. g = [i \in 0 .. 0 |-> D(g, i)]
      OBVIOUS
  <2> HIDE DEF g, D
  <2> QED
      BY <2>1
<1>2. ASSUME NEW m \in Nat, m \in Ok PROVE m + 1 \in Ok
  <2>1. PICK g : g = [i \in 0 .. m |-> D(g, i)]
      BY <1>2
  <2> DEFINE h == [i \in 0 .. m + 1 |-> IF i = m + 1 THEN D(g, i) ELSE g[i]]
  <2>2. ASSUME NEW i \in 0 .. m + 1 PROVE h[i] = D(h, i)
    <3>1. i # 0 => i - 1 \in 0 .. m /\ h[i - 1] = g[i - 1]
        OBVIOUS
    <3>2. D(g, i) = D(h, i)
      <4> HIDE DEF h
      <4> QED
        BY <3>1
    <3>3. i # m + 1 => g[i] = D(g, i)
      <4> HIDE DEF D
      <4> QED
        BY <2>1
    <3>4. h[i] = IF i = m + 1 THEN D(g, i) ELSE g[i]
      <4> HIDE DEF D
      <4> QED
        OBVIOUS
    <3> HIDE DEF D, h
    <3> QED
        BY <3>2, <3>3, <3>4
  <2>3. h = [i \in 0 .. m + 1 |-> D(h, i)]
    <3>1. h = [i \in 0 .. m + 1 |-> h[i]]
      <4> HIDE DEF D
      <4> QED
        OBVIOUS
    <3> HIDE DEF D, h
    <3> QED
      BY <2>2, <3>1
  <2> HIDE DEF h, D
  <2> QED
      BY <2>3
<1> HIDE DEF Ok
<1>3. N \in Ok
    BY <1>0, <1>1, <1>2, Induction
<1>4. \E g : g = [i \in 0 .. N |-> D(g, i)]
    BY <1>3 DEF Ok
<1> DEFINE rows == CHOOSE g : g = [i \in 0 .. N |-> D(g, i)]
<1>5. Swept(symbol, v, sight) = rows[N]
    BY DEF Swept, After, KeysOf
<1>6. rows = [i \in 0 .. N |-> D(rows, i)]
  <2> HIDE DEF D
  <2> QED
      BY <1>4
<1> HIDE DEF rows
<1>7. \A i \in 0 .. N : rows[i] = D(rows, i)
  <2> HIDE DEF D
  <2> QED
      BY <1>6
<1>8. rows[0] = {}
    BY <1>0, <1>7
<1>9. ASSUME NEW n \in 1 .. N PROVE rows[n] = After(symbol, v, sight, places[n], rows[n - 1])
    BY <1>0, <1>7
<1>10. SweptInSteps(rows, symbol, v, sight)
  <2> HIDE DEF D
  <2> QED
      BY <1>5, <1>8, <1>9 DEF SweptInSteps
<1> QED
    BY <1>10

\* An answer counts for all that it covers.
Answered1(rows, symbol, v, sight) ==
    \A r \in rows : \E p \in Places(symbol) :
        /\ r.key \in Resolved(v, p, sight) /\ r.resolves_to = OwnerOf(symbol, p)
        /\ Resolved(v, p, sight) \subseteq KeysOf(rows)

\* A place is resolved unless an answer covers it.
Settled(rows, place, v, sight) ==
    Resolved(v, place, sight) \subseteq KeysOf(rows) \/ place.key \in KeysOf(rows)

\* One place more loses nothing and settles that place.
LEMMA OnePlace ==
    ASSUME NEW symbol, NEW v, NEW sight, NEW before, NEW place \in Places(symbol),
           Answered1(before, symbol, v, sight)
    PROVE  LET rows == After(symbol, v, sight, place, before) IN
           /\ before \subseteq rows
           /\ Answered1(rows, symbol, v, sight)
           /\ Settled(rows, place, v, sight)
<1> DEFINE rows == After(symbol, v, sight, place, before)
           R == Resolved(v, place, sight)
           new == {[key |-> k, resolves_to |-> OwnerOf(symbol, place)] : k \in R \ KeysOf(before)}
<1>1. CASE place.key \in KeysOf(before)
  <2>1. rows = before
      BY <1>1 DEF After
  <2> QED
      BY <1>1, <2>1 DEF Settled
<1>2. CASE place.key \notin KeysOf(before)
  <2>1. rows = before \cup new
      BY <1>2 DEF After
  <2>2. \A r \in new : r.key \in R /\ r.resolves_to = OwnerOf(symbol, place)
      OBVIOUS
  <2>3. ASSUME NEW k \in R \ KeysOf(before) PROVE \E r \in new : r.key = k
    <3> HIDE DEF R
    <3>1. [key |-> k, resolves_to |-> OwnerOf(symbol, place)] \in new
        OBVIOUS
    <3> QED
        BY <3>1
  <2> HIDE DEF new, rows, R
  <2>4. KeysOf(before) \subseteq KeysOf(rows) /\ R \subseteq KeysOf(rows)
      BY <2>1, <2>3 DEF KeysOf
  <2>5. ASSUME NEW r \in rows
        PROVE  \E p \in Places(symbol) :
                  /\ r.key \in Resolved(v, p, sight) /\ r.resolves_to = OwnerOf(symbol, p)
                  /\ Resolved(v, p, sight) \subseteq KeysOf(rows)
    <3>1. CASE r \in before
        BY <2>4, <3>1 DEF Answered1
    <3>2. CASE r \in new
        BY <2>2, <2>4, <3>2 DEF R
    <3> QED
        BY <2>1, <3>1, <3>2
  <2> QED
      BY <2>1, <2>4, <2>5 DEF Answered1, Settled, rows, R
<1> QED
    BY <1>1, <1>2

\* In the end every place is settled.
LEMMA SweptIs ==
    ASSUME project \in Projects, NEW symbol, NEW v, NEW sight
    PROVE  /\ Answered1(Swept(symbol, v, sight), symbol, v, sight)
           /\ \A p \in Places(symbol) : Settled(Swept(symbol, v, sight), p, v, sight)
<1>1. /\ Len(Occurrences(symbol)) \in Nat
      /\ \A i \in 1 .. Len(Occurrences(symbol)) : Occurrences(symbol)[i] \in Places(symbol)
      /\ \A p \in Places(symbol) : \E i \in 1 .. Len(Occurrences(symbol)) : Occurrences(symbol)[i] = p
    BY OccurrencesAre
<1>2. PICK rows : SweptInSteps(rows, symbol, v, sight)
    BY <1>1, Sweeping
<1> DEFINE places == Occurrences(symbol)
           N == Len(places)
<1>7. /\ N \in Nat
      /\ \A i \in 1 .. N : places[i] \in Places(symbol)
      /\ \A p \in Places(symbol) : \E i \in 1 .. N : places[i] = p
      /\ Swept(symbol, v, sight) = rows[N]
      /\ rows[0] = {}
      /\ \A n \in 1 .. N : rows[n] = After(symbol, v, sight, places[n], rows[n - 1])
    BY <1>1, <1>2 DEF SweptInSteps
<1> HIDE DEF N, places
<1> DEFINE S == {n \in Nat : n <= N =>
                    /\ Answered1(rows[n], symbol, v, sight)
                    /\ \A i \in 1 .. n : Settled(rows[n], places[i], v, sight)}
<1>3. 0 \in S
    BY <1>7 DEF Answered1
<1>4. ASSUME NEW n \in Nat, n \in S PROVE n + 1 \in S
  <2> SUFFICES ASSUME n + 1 <= N
               PROVE  /\ Answered1(rows[n + 1], symbol, v, sight)
                      /\ \A i \in 1 .. n + 1 : Settled(rows[n + 1], places[i], v, sight)
      OBVIOUS
  <2>1. n <= N /\ n + 1 \in 1 .. N /\ (n + 1) - 1 = n
      BY <1>7
  <2>2. Answered1(rows[n], symbol, v, sight) /\ \A i \in 1 .. n : Settled(rows[n], places[i], v, sight)
      BY <1>4, <2>1
  <2>3. rows[n + 1] = After(symbol, v, sight, places[n + 1], rows[n]) /\ places[n + 1] \in Places(symbol)
      BY <1>7, <2>1
  <2>4. /\ rows[n] \subseteq rows[n + 1]
        /\ Answered1(rows[n + 1], symbol, v, sight)
        /\ Settled(rows[n + 1], places[n + 1], v, sight)
      BY <2>2, <2>3, OnePlace
  <2>5. KeysOf(rows[n]) \subseteq KeysOf(rows[n + 1])
      BY <2>4 DEF KeysOf
  <2>6. \A i \in 1 .. n : Settled(rows[n + 1], places[i], v, sight)
      BY <2>2, <2>5 DEF Settled
  <2>7. \A i \in 1 .. n + 1 : i \in 1 .. n \/ i = n + 1
      OBVIOUS
  <2> QED
      BY <2>4, <2>6, <2>7
<1>5. Nat \subseteq S
  <2> HIDE DEF S
  <2> QED
      BY <1>3, <1>4, Induction
<1>6. N \in S /\ N <= N
    BY <1>5, <1>7
<1> QED
    BY <1>6, <1>7

\* What the places of a sweep are.
LEMMA PlacesAre ==
    ASSUME project \in Projects, NEW symbol
    PROVE  /\ \A p \in Places(symbol) :
                 \/ p.key = <<"def", p.to>> /\ p.to \in Named(symbol)
                 \/ \E b \in NamedBindings(symbol) : p.key = <<"import", b>> /\ p.to = b.to /\ p.file = b.file
                 \/ \E u \in NamedUses(symbol) : p.key = <<"use", u>> /\ p.to = u.to
           /\ \A p \in Places(symbol) : p.to \in Meant(symbol)
           /\ \A a \in Meant(symbol) : \E p \in Places(symbol) : p.to = a
           /\ \A a \in Meant(symbol) : Node(a).name = Leaf(symbol)
<1> DEFINE N == Named(symbol)
           B == NamedBindings(symbol)
           U == NamedUses(symbol)
           Def == {DefPlace(a) : a \in N}
           Imp == {ImportPlace(b) : b \in B}
           Use == {UsePlace(u) : u \in U}
<1>1. /\ Places(symbol) = Def \cup Imp \cup Use
      /\ Meant(symbol) = N \cup {b.to : b \in B} \cup {u.to : u \in U}
    BY DEF Places, Meant
<1>2. /\ \A a \in N : Node(a).name = Leaf(symbol)
      /\ \A b \in B : Node(b.to).name = Leaf(symbol)
      /\ \A u \in U : Node(u.to).name = Leaf(symbol)
    BY DEF Named, NamedBindings, NamedUses
<1> HIDE DEF N, B, U
<1>3. \A a \in N : DefPlace(a) \in Def /\ DefPlace(a).key = <<"def", a>> /\ DefPlace(a).to = a
    BY DEF DefPlace
<1>4. \A b \in B : /\ ImportPlace(b) \in Imp /\ ImportPlace(b).key = <<"import", b>>
                   /\ ImportPlace(b).to = b.to /\ ImportPlace(b).file = b.file
    BY DEF ImportPlace
<1>5. \A u \in U : UsePlace(u) \in Use /\ UsePlace(u).key = <<"use", u>> /\ UsePlace(u).to = u.to
    BY DEF UsePlace
<1>6. ASSUME NEW p \in Def PROVE p.key = <<"def", p.to>> /\ p.to \in N
  <2>1. PICK a \in N : p = DefPlace(a)
      OBVIOUS
  <2> QED
      BY <1>3, <2>1
<1>7. ASSUME NEW p \in Imp PROVE \E b \in B : p.key = <<"import", b>> /\ p.to = b.to /\ p.file = b.file
  <2>1. PICK b \in B : p = ImportPlace(b)
      OBVIOUS
  <2> QED
      BY <1>4, <2>1
<1>8. ASSUME NEW p \in Use PROVE \E u \in U : p.key = <<"use", u>> /\ p.to = u.to
  <2>1. PICK u \in U : p = UsePlace(u)
      OBVIOUS
  <2> QED
      BY <1>5, <2>1
<1> HIDE DEF Def, Imp, Use
<1>9. \A p \in Places(symbol) :
                 \/ p.key = <<"def", p.to>> /\ p.to \in N
                 \/ \E b \in B : p.key = <<"import", b>> /\ p.to = b.to /\ p.file = b.file
                 \/ \E u \in U : p.key = <<"use", u>> /\ p.to = u.to
    BY <1>1, <1>6, <1>7, <1>8
<1>10. \A p \in Places(symbol) : p.to \in Meant(symbol)
    BY <1>1, <1>9
<1>11. \A a \in Meant(symbol) : \E p \in Places(symbol) : p.to = a
    BY <1>1, <1>3, <1>4, <1>5
<1>12. \A a \in Meant(symbol) : Node(a).name = Leaf(symbol)
    BY <1>1, <1>2
<1> QED
    BY <1>9, <1>10, <1>11, <1>12 DEF N, B, U

\* What ty's incoming calls list.
LEMMA CallersAtIs ==
    ASSUME NEW place, NEW sight, NEW k
    PROVE  k \in CallersAt(place, sight) <=>
              \E d \in project.calls :
                 /\ k = <<"use", d>> /\ d.to = place.to
                 /\ d.by \in sight \/ (place.key[1] # "def" /\ d.by = "name" /\ d.from[1] = place.file)
<1> DEFINE C == {d \in CallsTo(place.to) :
        \/ d.by \in sight
        \/ place.key[1] # "def" /\ d.by = "name" /\ d.from[1] = place.file}
<1>1. CallersAt(place, sight) = {<<"use", c>> : c \in C}
    BY DEF CallersAt
<1>2. \A d : d \in C <=> /\ d \in project.calls /\ d.to = place.to
                         /\ d.by \in sight \/ (place.key[1] # "def" /\ d.by = "name" /\ d.from[1] = place.file)
    BY DEF CallsTo
<1> HIDE DEF C
<1> QED
    BY <1>1, <1>2

\* What its references list.
LEMMA ReferencesAtIs ==
    ASSUME NEW place, NEW sight, NEW k
    PROVE  k \in ReferencesAt(place, sight) <=>
              \/ k = <<"def", place.to>>
              \/ \E b \in Bindings : k = <<"import", b>> /\ b.to = place.to /\ b.by = "name"
              \/ \E u \in UsesOfNames : k = <<"use", u>> /\ u.to = place.to /\ u.by # "alias"
              \/ k \in CallersAt(place, sight)
BY DEF ReferencesAt

\* An answer is about the definition that its place is taken for.
LEMMA ResolvedIs ==
    ASSUME NEW v, NEW place, NEW sight, NEW k \in Resolved(v, place, sight)
    PROVE  \/ k = <<"def", place.to>>
           \/ \E x : k \in {<<"import", x>>, <<"use", x>>} /\ x.to = place.to
<1>1. k \in CallersAt(place, sight) \/ k \in ReferencesAt(place, sight)
    BY DEF Resolved
<1>2. k \in CallersAt(place, sight) => \E x : k = <<"use", x>> /\ x.to = place.to
    BY CallersAtIs
<1>3. k \in ReferencesAt(place, sight) /\ k \notin CallersAt(place, sight) =>
        \/ k = <<"def", place.to>>
        \/ \E x : k \in {<<"import", x>>, <<"use", x>>} /\ x.to = place.to
    BY ReferencesAtIs
<1> QED
    BY <1>1, <1>2, <1>3

\* The keys of a sweep: each comes from a place, and each place counts, by itself or
\* by another of the same definition.
LEMMA KeysAre ==
    ASSUME project \in Projects, NEW symbol, NEW v, NEW sight
    PROVE  LET K == KeysOf(Swept(symbol, v, sight)) IN
           /\ \A k \in K : \E p \in Places(symbol) : k \in Resolved(v, p, sight)
           /\ \A p \in Places(symbol) :
                 \/ Resolved(v, p, sight) \subseteq K
                 \/ \E q \in Places(symbol) :
                       /\ p.key \in Resolved(v, q, sight) /\ q.to = p.to
                       /\ Resolved(v, q, sight) \subseteq K
<1> DEFINE rows == Swept(symbol, v, sight)
           K == KeysOf(rows)
<1>1. Answered1(rows, symbol, v, sight) /\ \A p \in Places(symbol) : Settled(rows, p, v, sight)
    BY SweptIs
<1> HIDE DEF rows
<1>2. \A k : k \in K <=> \E r \in rows : r.key = k
    BY DEF KeysOf
<1>3. \A k \in K : \E p \in Places(symbol) : k \in Resolved(v, p, sight) /\ Resolved(v, p, sight) \subseteq K
    BY <1>1, <1>2 DEF Answered1
<1>4. ASSUME NEW p \in Places(symbol), ~ (Resolved(v, p, sight) \subseteq K)
      PROVE  \E q \in Places(symbol) :
                       /\ p.key \in Resolved(v, q, sight) /\ q.to = p.to
                       /\ Resolved(v, q, sight) \subseteq K
  <2>1. p.key \in K
      BY <1>1, <1>4 DEF Settled
  <2>2. PICK q \in Places(symbol) : p.key \in Resolved(v, q, sight) /\ Resolved(v, q, sight) \subseteq K
      BY <1>3, <2>1
  <2>3. \/ p.key = <<"def", q.to>>
        \/ \E x : p.key \in {<<"import", x>>, <<"use", x>>} /\ x.to = q.to
      BY <2>2, ResolvedIs
  <2>4. \/ p.key = <<"def", p.to>>
        \/ \E x : p.key \in {<<"import", x>>, <<"use", x>>} /\ p.to = x.to
    <3>1. \/ p.key = <<"def", p.to>>
          \/ \E b \in NamedBindings(symbol) : p.key = <<"import", b>> /\ p.to = b.to
          \/ \E u \in NamedUses(symbol) : p.key = <<"use", u>> /\ p.to = u.to
        BY PlacesAre
    <3> QED
        BY <3>1
  <2>5. q.to = p.to
      BY <2>3, <2>4
  <2> QED
      BY <2>2, <2>5
<1> HIDE DEF K
<1>5. (\A k \in K : \E p \in Places(symbol) : k \in Resolved(v, p, sight))
      /\ \A p \in Places(symbol) :
                 \/ Resolved(v, p, sight) \subseteq K
                 \/ \E q \in Places(symbol) :
                       /\ p.key \in Resolved(v, q, sight) /\ q.to = p.to
                       /\ Resolved(v, q, sight) \subseteq K
    BY <1>3, <1>4
<1> QED
    BY <1>5 DEF K, rows

\* The calls that "pyq callers" is to list.
SeenCalls(symbol, sight) ==
    {d \in project.calls :
        /\ d.to \in Meant(symbol)
        /\ \/ d.by \in sight
           \/ d.by = "name" /\ EndsWith(ScopeFqn(d.from[1], <<>>), Owner(symbol))}

\* Every file ends with nothing.
LEMMA EndsWithNothing ==
    ASSUME project \in Projects, NEW d \in project.calls
    PROVE  EndsWith(ScopeFqn(d.from[1], <<>>), <<>>)
<1>1. Files[d.from[1]].module \in Seq(STRING)
    BY Indexes
<1> DEFINE T == STRING
           s == ScopeFqn(d.from[1], <<>>)
<1>2. s \in Seq(T)
  <2> DEFINE m == Files[d.from[1]].module
  <2>1. m \in Seq(T) /\ s = m \o <<>>
      BY <1>1 DEF ScopeFqn
  <2> HIDE DEF m, s, T
  <2> QED
      BY <2>1
<1> HIDE DEF s, T
<1>3. Reverse(<<>>) = <<>> /\ Len(Reverse(s)) \in Nat
    BY <1>2 DEF Reverse
<1>4. Len(<<>>) <= Len(Reverse(s)) /\ SubSeq(Reverse(<<>>), 1, 0) = SubSeq(Reverse(s), 1, 0)
    BY <1>2, <1>3 DEF Reverse
<1> QED
    BY <1>3, <1>4 DEF EndsWith, IsSuffix, IsPrefix, s

\* What ty sees from a place is among them.
LEMMA SeenIsSeen ==
    ASSUME project \in Projects, NEW symbol, NEW sight, NEW p \in Places(symbol),
           NEW k \in CallersAt(p, sight)
    PROVE  \E d \in SeenCalls(symbol, sight) : k = <<"use", d>>
<1>1. PICK d \in project.calls :
          /\ k = <<"use", d>> /\ d.to = p.to
          /\ d.by \in sight \/ (p.key[1] # "def" /\ d.by = "name" /\ d.from[1] = p.file)
    BY CallersAtIs
<1>2. d.to \in Meant(symbol)
    BY <1>1, PlacesAre
<1>3. ASSUME p.key[1] # "def", d.by = "name", d.from[1] = p.file
      PROVE  EndsWith(ScopeFqn(d.from[1], <<>>), Owner(symbol))
  <2>1. \/ p.key = <<"def", p.to>>
        \/ \E b \in NamedBindings(symbol) : p.key = <<"import", b>> /\ p.file = b.file
        \/ \E u \in NamedUses(symbol) : p.key = <<"use", u>>
      BY PlacesAre
  <2>2. CASE p.key = <<"def", p.to>>
      BY <1>3, <2>2
  <2>3. CASE \E b \in NamedBindings(symbol) : p.key = <<"import", b>> /\ p.file = b.file
      BY <1>3, <2>3 DEF NamedBindings
  <2>4. CASE \E u \in NamedUses(symbol) : p.key = <<"use", u>>
      BY <2>4, EndsWithNothing DEF NamedUses
  <2> QED
      BY <2>1, <2>2, <2>3, <2>4
<1> QED
    BY <1>1, <1>2, <1>3 DEF SeenCalls

\* An import of a name that is meant, where the sweep looks, is a place of it.
LEMMA ImportIsAPlace ==
    ASSUME project \in Projects, NEW symbol, NEW d \in project.calls, d.to \in Meant(symbol), d.by = "name",
           EndsWith(ScopeFqn(d.from[1], <<>>), Owner(symbol))
    PROVE  \E p \in Places(symbol) : \E b \in Bindings :
              /\ p.key = <<"import", b>> /\ p.to = d.to /\ p.file = d.from[1]
              /\ b.to = d.to /\ b.by = "name"
<1> DEFINE b == [file |-> d.from[1], to |-> d.to, by |-> d.by]
<1>1. b \in Bindings
    BY DEF Bindings, UsesOfNames
<1>2. b.by = "name" /\ b.to = d.to /\ b.file = d.from[1]
    OBVIOUS
<1>3. Node(d.to).name = Leaf(symbol)
    BY PlacesAre
<1> HIDE DEF b
<1>4. b \in NamedBindings(symbol)
    BY <1>1, <1>2, <1>3 DEF NamedBindings
<1>5. ImportPlace(b) \in Places(symbol)
    BY <1>4 DEF Places
<1>6. ImportPlace(b).key = <<"import", b>> /\ ImportPlace(b).to = d.to /\ ImportPlace(b).file = d.from[1]
    BY <1>2 DEF ImportPlace
<1> QED
    BY <1>1, <1>2, <1>5, <1>6

\* The calls that "pyq callers" lists.
LEMMA CallersListed ==
    ASSUME project \in Projects, NEW symbol, NEW sight
    PROVE  KeysOf(Swept(symbol, "callers", sight)) = {<<"use", d>> : d \in SeenCalls(symbol, sight)}
<1> DEFINE K == KeysOf(Swept(symbol, "callers", sight))
<1>1. \A p : Resolved("callers", p, sight) = CallersAt(p, sight)
    BY DEF Resolved
<1>2. /\ \A k \in K : \E p \in Places(symbol) : k \in CallersAt(p, sight)
      /\ \A p \in Places(symbol) :
            \/ CallersAt(p, sight) \subseteq K
            \/ \E q \in Places(symbol) :
                  /\ p.key \in CallersAt(q, sight) /\ q.to = p.to
                  /\ CallersAt(q, sight) \subseteq K
    BY <1>1, KeysAre
<1> HIDE DEF K
<1>3. ASSUME NEW k \in K PROVE k \in {<<"use", d>> : d \in SeenCalls(symbol, sight)}
    BY <1>2, SeenIsSeen
<1>4. ASSUME NEW d \in SeenCalls(symbol, sight) PROVE <<"use", d>> \in K
  <2>1. d \in project.calls /\ d.to \in Meant(symbol)
      BY DEF SeenCalls
  <2>2. CASE d.by \in sight
    <3>1. PICK p \in Places(symbol) : p.to = d.to
        BY <2>1, PlacesAre
    <3>2. \A q : q.to = d.to => <<"use", d>> \in CallersAt(q, sight)
        BY <2>1, <2>2, CallersAtIs
    <3> QED
        BY <1>2, <3>1, <3>2
  <2>3. CASE d.by \notin sight
    <3>1. d.by = "name" /\ EndsWith(ScopeFqn(d.from[1], <<>>), Owner(symbol))
        BY <2>3 DEF SeenCalls
    <3>2. PICK p \in Places(symbol), b \in Bindings :
              /\ p.key = <<"import", b>> /\ p.to = d.to /\ p.file = d.from[1]
        BY <2>1, <3>1, ImportIsAPlace
    <3>3. p.key[1] # "def"
        BY <3>2
    <3>4. <<"use", d>> \in CallersAt(p, sight)
        BY <2>1, <3>1, <3>2, <3>3, CallersAtIs
    <3>5. \A q : p.key \notin CallersAt(q, sight)
        BY <3>2, CallersAtIs
    <3> QED
        BY <1>2, <3>4, <3>5
  <2> QED
      BY <2>2, <2>3
<1> QED
    BY <1>3, <1>4 DEF K

\* What "pyq refs" lists.
LEMMA ReferencesListed ==
    ASSUME project \in Projects, NEW symbol, NEW sight
    PROVE  KeysOf(Swept(symbol, "refs", sight)) =
              {<<"def", a>> : a \in Meant(symbol)} \cup {<<"use", d>> : d \in SeenCalls(symbol, sight)}
              \cup {<<"import", b>> : b \in {x \in Bindings : x.to \in Meant(symbol) /\ x.by = "name"}}
              \cup {<<"use", u>> : u \in {x \in UsesOfNames : x.to \in Meant(symbol) /\ x.by # "alias"}}
<1> DEFINE K == KeysOf(Swept(symbol, "refs", sight))
           M == Meant(symbol)
           listed == {<<"def", a>> : a \in M} \cup {<<"use", d>> : d \in SeenCalls(symbol, sight)}
              \cup {<<"import", b>> : b \in {x \in Bindings : x.to \in M /\ x.by = "name"}}
              \cup {<<"use", u>> : u \in {x \in UsesOfNames : x.to \in M /\ x.by # "alias"}}
<1>1. \A p : Resolved("refs", p, sight) = ReferencesAt(p, sight)
    BY DEF Resolved
<1>2. /\ \A k \in K : \E p \in Places(symbol) : k \in ReferencesAt(p, sight)
      /\ \A p \in Places(symbol) : \E q \in Places(symbol) : q.to = p.to /\ ReferencesAt(q, sight) \subseteq K
    BY <1>1, KeysAre
<1>3. \A k : k \in listed <=>
        \/ \E a \in M : k = <<"def", a>>
        \/ \E d \in SeenCalls(symbol, sight) : k = <<"use", d>>
        \/ \E b \in Bindings : k = <<"import", b>> /\ b.to \in M /\ b.by = "name"
        \/ \E u \in UsesOfNames : k = <<"use", u>> /\ u.to \in M /\ u.by # "alias"
    OBVIOUS
<1> HIDE DEF K, M, listed
<1>4. \A a \in M : \E q \in Places(symbol) : q.to = a /\ ReferencesAt(q, sight) \subseteq K
    BY <1>2, PlacesAre DEF M
<1>5. ASSUME NEW k \in K PROVE k \in listed
  <2>1. PICK p \in Places(symbol) : k \in ReferencesAt(p, sight)
      BY <1>2
  <2>2. p.to \in M
      BY PlacesAre DEF M
  <2>3. CASE k \in CallersAt(p, sight)
      BY <1>3, <2>3, SeenIsSeen
  <2>4. CASE k \notin CallersAt(p, sight)
    <3>1. \/ k = <<"def", p.to>>
          \/ \E b \in Bindings : k = <<"import", b>> /\ b.to = p.to /\ b.by = "name"
          \/ \E u \in UsesOfNames : k = <<"use", u>> /\ u.to = p.to /\ u.by # "alias"
        BY <2>1, <2>4, ReferencesAtIs
    <3> QED
        BY <1>3, <2>2, <3>1
  <2> QED
      BY <2>3, <2>4
<1>6. ASSUME NEW k \in listed PROVE k \in K
  <2>1. CASE \E a \in M : k = <<"def", a>>
    <3>1. PICK a \in M : k = <<"def", a>>
        BY <2>1
    <3>2. PICK q \in Places(symbol) : q.to = a /\ ReferencesAt(q, sight) \subseteq K
        BY <1>4
    <3>3. k \in ReferencesAt(q, sight)
        BY <3>1, <3>2, ReferencesAtIs
    <3> QED
        BY <3>2, <3>3
  <2>2. CASE \E d \in SeenCalls(symbol, sight) : k = <<"use", d>>
    <3>1. PICK d \in SeenCalls(symbol, sight) : k = <<"use", d>>
        BY <2>2
    <3>2. d \in project.calls /\ d.to \in M /\ (d.by \in sight \/ d.by = "name")
        BY DEF SeenCalls, M
    <3>3. PICK q \in Places(symbol) : q.to = d.to /\ ReferencesAt(q, sight) \subseteq K
        BY <1>4, <3>2
    <3>4. d \in UsesOfNames
        BY <3>2 DEF UsesOfNames
    <3>5. d.by \in sight => k \in CallersAt(q, sight)
        BY <3>1, <3>2, <3>3, CallersAtIs
    <3>6. k \in ReferencesAt(q, sight)
        BY <3>1, <3>2, <3>3, <3>4, <3>5, ReferencesAtIs
    <3> QED
        BY <3>3, <3>6
  <2>3. CASE \E b \in Bindings : k = <<"import", b>> /\ b.to \in M /\ b.by = "name"
    <3>1. PICK b \in Bindings : k = <<"import", b>> /\ b.to \in M /\ b.by = "name"
        BY <2>3
    <3>2. PICK q \in Places(symbol) : q.to = b.to /\ ReferencesAt(q, sight) \subseteq K
        BY <1>4, <3>1
    <3>3. k \in ReferencesAt(q, sight)
        BY <3>1, <3>2, ReferencesAtIs
    <3> QED
        BY <3>2, <3>3
  <2>4. CASE \E u \in UsesOfNames : k = <<"use", u>> /\ u.to \in M /\ u.by # "alias"
    <3>1. PICK u \in UsesOfNames : k = <<"use", u>> /\ u.to \in M /\ u.by # "alias"
        BY <2>4
    <3>2. PICK q \in Places(symbol) : q.to = u.to /\ ReferencesAt(q, sight) \subseteq K
        BY <1>4, <3>1
    <3>3. k \in ReferencesAt(q, sight)
        BY <3>1, <3>2, ReferencesAtIs
    <3> QED
        BY <3>2, <3>3
  <2> QED
      BY <1>3, <2>1, <2>2, <2>3, <2>4
<1>7. K = listed
    BY <1>5, <1>6
<1> QED
    BY <1>7 DEF K, M, listed

\* The definition that a key is about.
About(key) == IF key[1] = "def" THEN key[2] ELSE key[2].to

\* A row of a sweep names no definition but that of the definition place it came from.
LEMMA OwnersAreRight ==
    ASSUME project \in Projects, NEW symbol, NEW v, NEW sight,
           NEW r \in Swept(symbol, v, sight), r.resolves_to # None
    PROVE  \E a \in Named(symbol) : r.resolves_to = <<"def", a>> /\ About(r.key) = a
<1>1. PICK p \in Places(symbol) : r.key \in Resolved(v, p, sight) /\ r.resolves_to = OwnerOf(symbol, p)
    BY SweptIs DEF Answered1
<1>2. p.key[1] = "def" /\ r.resolves_to = p.key
    BY <1>1 DEF OwnerOf
<1>3. p.key = <<"def", p.to>> /\ p.to \in Named(symbol)
  <2>1. \/ p.key = <<"def", p.to>> /\ p.to \in Named(symbol)
        \/ \E b \in NamedBindings(symbol) : p.key = <<"import", b>>
        \/ \E u \in NamedUses(symbol) : p.key = <<"use", u>>
      BY PlacesAre
  <2> QED
      BY <1>2, <2>1
<1>4. About(r.key) = p.to
  <2>1. \/ r.key = <<"def", p.to>>
        \/ \E x : r.key \in {<<"import", x>>, <<"use", x>>} /\ x.to = p.to
      BY <1>1, ResolvedIs
  <2>2. ASSUME NEW x, r.key \in {<<"import", x>>, <<"use", x>>} PROVE About(r.key) = x.to
      BY <2>2 DEF About
  <2>3. r.key = <<"def", p.to>> => About(r.key) = p.to
      BY DEF About
  <2> QED
      BY <2>1, <2>2, <2>3
<1> QED
    BY <1>2, <1>3, <1>4

\* "pyq defs" takes the only definition of the name for that of each import of it.
LEMMA DefinitionRowsAreRight ==
    ASSUME project \in Projects, NEW symbol, NEW r \in DefinitionRows(symbol), r.resolves_to # None
    PROVE  \E a \in Named(symbol) :
              r.resolves_to = <<"def", a>> /\ (About(r.key) = a \/ About(r.key) \notin Named(symbol))
<1> DEFINE N == Named(symbol)
           Owned == IF Cardinality(N) = 1 THEN <<"def", FirstOf(N)>> ELSE None
<1>1. PICK b \in NamedBindings(symbol) : r = [key |-> <<"import", b>>, resolves_to |-> Owned]
    BY DEF DefinitionRows
<1>2. N \in SUBSET Anchors
    BY DEF Named, Bindable, OfKind
<1>3. r.key = <<"import", b>> /\ r.resolves_to = Owned
  <2> HIDE DEF Owned
  <2> QED
      BY <1>1
<1>4. Cardinality(N) = 1 /\ r.resolves_to = <<"def", FirstOf(N)>>
    BY <1>3
<1> HIDE DEF N
<1>5. PICK a : N = {a}
  <2>1. IsFiniteSet(N)
      BY <1>2, Indexes, FS_Subset
  <2> QED
      BY <1>4, <2>1, FS_Singleton
<1>6. FirstOf(N) \in N
    BY <1>2, <1>5, FirstIs
<1> QED
    BY <1>4, <1>5, <1>6 DEF N

\* When a sweep has its answer.
LEMMA SweepAnswer == Given => SweepIsExact
<1> SUFFICES ASSUME Given, verb \in SweepVerbs, Finished PROVE SweepIsExact
    BY DEF SweepIsExact
<1> DEFINE symbol == goal.symbol
           sight == goal.sight
           keys == {r.key : r \in SweepRows}
           named == Named(goal.symbol)
           meant == Meant(goal.symbol)
           Target(key) == IF key[1] = "def" THEN key[2] ELSE key[2].to
           callers == {<<"use", c>> : c \in {d \in project.calls :
                /\ d.to \in meant
                /\ \/ d.by \in goal.sight
                   \/ d.by = "name" /\ EndsWith(ScopeFqn(d.from[1], <<>>), Owner(goal.symbol))}}
<1>1. project \in Projects /\ goal.from = StartAnchors(symbol)
    BY DEF Given
<1>2. callers = {<<"use", d>> : d \in SeenCalls(symbol, sight)}
    BY DEF SeenCalls
<1>3. ASSUME verb = "callers"
      PROVE  /\ keys = callers
             /\ CallersExhaustive <=> FqnsOf(StartAnchors(symbol)) \cap FrameworkEntries = {}
             /\ SweepRows = Swept(symbol, "callers", sight)
  <2>1. SweepRows = Swept(symbol, "callers", sight)
      BY <1>3 DEF SweepRows, CallerRows
  <2>2. keys = KeysOf(Swept(symbol, "callers", sight))
      BY <2>1 DEF KeysOf
  <2>3. keys = callers
    <3> HIDE DEF keys, callers
    <3> QED
        BY <1>1, <1>2, <2>2, CallersListed
  <2> QED
      BY <1>1, <2>1, <2>3, CaveatIsEntry DEF CallersExhaustive, Roots
<1>4. ASSUME verb = "refs"
      PROVE  /\ keys = {<<"def", a>> : a \in meant} \cup callers
                         \cup {<<"import", b>> : b \in {x \in Bindings : x.to \in meant /\ x.by = "name"}}
                         \cup {<<"use", u>> : u \in {x \in UsesOfNames : x.to \in meant /\ x.by # "alias"}}
             /\ SweepRows = Swept(symbol, "refs", sight)
  <2>1. SweepRows = Swept(symbol, "refs", sight)
      BY <1>4 DEF SweepRows, ReferenceRows
  <2>2. keys = KeysOf(Swept(symbol, "refs", sight))
      BY <2>1 DEF KeysOf
  <2> HIDE DEF keys, callers
  <2> QED
      BY <1>1, <1>2, <2>1, <2>2, ReferencesListed
<1>5. ASSUME NEW r \in SweepRows, r.resolves_to # None
      PROVE  \E a \in named : /\ r.resolves_to = <<"def", a>>
                              /\ Target(r.key) = a \/ (verb = "defs" /\ Target(r.key) \notin named)
  <2>1. Target(r.key) = About(r.key)
      BY DEF About
  <2>2. CASE verb \in {"refs", "callers"}
      BY <1>1, <1>3, <1>4, <1>5, <2>1, <2>2, OwnersAreRight
  <2>3. CASE verb = "defs"
    <3>1. SweepRows = DefinitionRows(symbol)
        BY <2>3 DEF SweepRows
    <3> QED
        BY <1>1, <1>5, <2>1, <2>3, <3>1, DefinitionRowsAreRight
  <2> QED
      BY <2>2, <2>3 DEF SweepVerbs
<1> HIDE DEF keys, callers
<1> QED
    BY <1>3, <1>4, <1>5 DEF SweepIsExact, keys, callers

\* unified.rs: wherever the sweep skips a place that an earlier answer covers, nothing
\* is lost; it lists what ty sees of each definition meant and nothing else, and a row
\* names no definition but its own.
THEOREM SweepsAreExact == Spec => []SweepIsExact
<1>1. QInv => Given
    BY DEF QInv
<1> QED
    BY <1>1, QueryInvariance, SweepAnswer, PTL

-----------------------------------------------------------------------------
(* The import graph *)

\* What runs when a module is imported.
Runs == [m \in Modules |-> Adjacent(m)]

\* What importing a leads to, a itself included.
Reach(a) == Reached(Runs, {a})

\* The graph of top-level imports is finite.
LEMMA RunsAre ==
    ASSUME project \in Projects
    PROVE  /\ IsGraph(Runs) /\ DOMAIN Runs = Modules /\ IsFiniteSet(Modules)
           /\ \A m \in Modules : Runs[m] = Adjacent(m) /\ Adjacent(m) \subseteq Modules
<1>1. IsFiniteSet(DOMAIN Files)
    BY EveryProjectIsIndexed DEF Indexed, Files
<1> DEFINE f == [n \in DOMAIN Files |-> Files[n].module]
<1>2. f \in Surjection(DOMAIN Files, Modules)
    BY DEF Surjection, Modules
<1>3. IsFiniteSet(Modules)
  <2> HIDE DEF f
  <2> QED
      BY <1>1, <1>2, FS_Surjection
<1>4. \A m : Adjacent(m) \subseteq Modules
    BY DEF Adjacent
<1> QED
    BY <1>3, <1>4 DEF IsGraph, Runs

\* What leads where: to itself, along an edge, and on; and not out of a closed set.
LEMMA Reaching ==
    ASSUME project \in Projects
    PROVE  /\ \A a \in Modules : a \in Reach(a) /\ Reach(a) \subseteq Modules
           /\ \A a \in Modules : \A b \in Reach(a) : Adjacent(b) \subseteq Reach(a)
           /\ \A a \in Modules : \A b \in Reach(a) : Reach(b) \subseteq Reach(a)
           /\ \A C : (\A x \in C : Adjacent(x) \subseteq C) => \A a \in C \cap Modules : Reach(a) \subseteq C
<1>1. /\ IsGraph(Runs) /\ DOMAIN Runs = Modules
      /\ \A m \in Modules : Runs[m] = Adjacent(m) /\ Adjacent(m) \subseteq Modules
    BY RunsAre
<1>2. ASSUME NEW a \in Modules
      PROVE  /\ a \in Reach(a) /\ Reach(a) \subseteq Modules
             /\ \A b \in Reach(a) : Adjacent(b) \subseteq Reach(a)
             /\ \A C : a \in C /\ (\A x \in C \cap Modules : Adjacent(x) \subseteq C) => Reach(a) \subseteq C
  <2>1. {a} \in SUBSET DOMAIN Runs
      BY <1>1
  <2>2. /\ {a} \subseteq Reached(Runs, {a}) /\ Reached(Runs, {a}) \subseteq DOMAIN Runs
        /\ \A x \in Reached(Runs, {a}) : Runs[x] \subseteq Reached(Runs, {a})
        /\ \A C : {a} \subseteq C /\ (\A x \in C \cap DOMAIN Runs : Runs[x] \subseteq C) => Reached(Runs, {a}) \subseteq C
      BY <1>1, <2>1, ReachedIs
  <2> QED
      BY ZenonT(40), <1>1, <2>2 DEF Reach
<1>3. ASSUME NEW a \in Modules, NEW b \in Reach(a) PROVE Reach(b) \subseteq Reach(a)
  <2>1. b \in Modules /\ \A x \in Reach(a) : Adjacent(x) \subseteq Reach(a)
      BY <1>2
  <2> QED
      BY <1>2, <2>1
<1> QED
    BY <1>2, <1>3

\* While the checkout is the same, so is its import graph.
LEMMA FixedImports ==
    ASSUME UNCHANGED project
    PROVE  /\ Modules' = Modules /\ Runs' = Runs
           /\ \A m : Adjacent(m)' = Adjacent(m)
           /\ \A m : Reach(m)' = Reach(m)
<1>1. Modules' = Modules
    BY DEF Modules, Files
<1>2. Edges' = Edges
    BY DEF Edges, EdgesOf, Edge, Canonical, IsInternal, Primary, Submodules, Base, Parts, IsPackage, Modules, Files
<1>3. \A m : Adjacent(m)' = Adjacent(m)
    BY <1>1, <1>2 DEF Adjacent
<1>4. Runs' = Runs
    BY <1>1, <1>3 DEF Runs
<1> QED
    BY <1>1, <1>3, <1>4 DEF Reach, Reached, Hops

-----------------------------------------------------------------------------
(* tarjan_scc *)

\* The modules that were met, those on the stack, those that left it, and that of a call.
Met == DOMAIN index
Held == {stack[i] : i \in DOMAIN stack}
Popped == Met \ Held
Of(i) == frames[i].node

\* An edge that is still to be looked at.
IsLeft(v, w) == \E i \in DOMAIN frames : Of(i) = v /\ w \in frames[i].todo

\* The module was met after that of the i-th call, and not within the next one.
InSegment(i, s) ==
    /\ s \in Held /\ index[Of(i)] <= index[s]
    /\ \A j \in DOMAIN frames : i < j => index[s] < index[Of(j)]

\* The modules are numbered as they are met.
Numbered ==
    /\ Met \subseteq Modules /\ DOMAIN low = Met
    /\ \A m \in Met : /\ index[m] \in Nat /\ index[m] < Cardinality(Met)
                      /\ low[m] \in Nat /\ low[m] <= index[m]

\* The stack is in that order.
Stacked ==
    /\ stack \in Seq(Modules) /\ Held \subseteq Met
    /\ \A i, j \in DOMAIN stack : i < j => index[stack[i]] < index[stack[j]]

\* So are the calls, each of a module on the stack by an edge from that of the one before.
Frame == [node : Modules, todo : SUBSET Modules]

\* The calls that are open follow edges, and go up in the order they were met.
Calling ==
    /\ frames \in Seq(Frame)
    /\ \A i \in DOMAIN frames : Of(i) \in Held /\ frames[i].todo \subseteq Adjacent(Of(i))
    /\ \A i, j \in DOMAIN frames : i < j => index[Of(i)] < index[Of(j)]
    /\ \A i \in DOMAIN frames : i + 1 \in DOMAIN frames => Of(i + 1) \in Adjacent(Of(i))

\* What an edge leads to has been met, unless it is still to be looked at.
EdgesAreMet == \A v \in Met : \A w \in Adjacent(v) : w \in Met \/ IsLeft(v, w)

\* No edge leads out of the finished components.
FinishedIsClosed == \A v \in Popped : Adjacent(v) \subseteq Popped

\* A call leads to all that is later on the stack, and that to a call before it.
CallsLeadUp ==
    \A i \in DOMAIN frames : \A s \in Held : index[Of(i)] <= index[s] => s \in Reach(Of(i))

\* Each module on the stack leads to that of an open call, met no later.
AllLeadsDown ==
    \A s \in Held : \E i \in DOMAIN frames : index[Of(i)] <= index[s] /\ Of(i) \in Reach(s)

\* A low link is the number of a module on the stack that the call leads to, and no edge
\* that was looked at within the call leads lower.
LowIsReached ==
    \A i \in DOMAIN frames : \E y \in Held : index[y] = low[Of(i)] /\ y \in Reach(Of(i))
LowIsLeast ==
    \A i \in DOMAIN frames : \A s, y \in Held :
        InSegment(i, s) /\ y \in Adjacent(s) /\ ~ IsLeft(s, y) => low[Of(i)] <= index[y]

\* The modules that m leads to and that lead back.
Component(m) == {n \in Reach(m) : m \in Reach(n)}

\* The components found are components, and what was popped is in one of them.
ComponentsAreFound ==
    /\ \A C \in sccs : C # {} /\ C \subseteq Popped /\ \A m \in C : C = Component(m)
    /\ \A v \in Popped : \E C \in sccs : v \in C

\* The invariant of tarjan_scc.
TarjanInv ==
    /\ verb # "cycles" => NoTarjan
    /\ Numbered /\ Stacked /\ Calling
    /\ EdgesAreMet /\ FinishedIsClosed /\ CallsLeadUp /\ AllLeadsDown
    /\ LowIsReached /\ LowIsLeast /\ ComponentsAreFound

\* Nothing is met before the search, nor after it.
LEMMA NothingMet ==
    ASSUME NoTarjan
    PROVE  /\ Numbered /\ Stacked /\ Calling
           /\ EdgesAreMet /\ FinishedIsClosed /\ CallsLeadUp /\ AllLeadsDown
           /\ LowIsReached /\ LowIsLeast /\ ComponentsAreFound
<1>1. frames = <<>> /\ stack = <<>> /\ index = <<>> /\ low = <<>> /\ sccs = {}
    BY DEF NoTarjan
<1>2. DOMAIN frames = {} /\ DOMAIN stack = {} /\ DOMAIN index = {} /\ DOMAIN low = {}
    BY <1>1
<1>3. Held = {} /\ Met = {} /\ Popped = {}
    BY <1>2 DEF Held, Met, Popped
<1>4. Numbered
    BY <1>2, <1>3 DEF Numbered
<1>5. Stacked
    BY <1>1, <1>2, <1>3 DEF Stacked
<1>6. Calling
    BY <1>1, <1>2 DEF Calling
<1>7. EdgesAreMet /\ FinishedIsClosed /\ CallsLeadUp /\ AllLeadsDown /\ LowIsReached /\ LowIsLeast
    BY <1>2, <1>3 DEF EdgesAreMet, FinishedIsClosed, CallsLeadUp, AllLeadsDown, LowIsReached, LowIsLeast
<1>8. ComponentsAreFound
    BY <1>1, <1>3 DEF ComponentsAreFound
<1> QED
    BY <1>4, <1>5, <1>6, <1>7, <1>8

\* What the stack holds when one is put on it.
LEMMA Pushing ==
    ASSUME NEW T, NEW s \in Seq(T), NEW x \in T
    PROVE  /\ Append(s, x) \in Seq(T)
           /\ \A i \in DOMAIN Append(s, x) :
                 \/ i \in DOMAIN s /\ Append(s, x)[i] = s[i]
                 \/ i = Len(s) + 1 /\ Append(s, x)[i] = x
           /\ \A i \in DOMAIN s : i \in DOMAIN Append(s, x) /\ Append(s, x)[i] = s[i] /\ i \in 1 .. Len(s)
           /\ Len(s) + 1 \in DOMAIN Append(s, x) /\ Append(s, x)[Len(s) + 1] = x /\ Len(s) \in Nat
<1>1. /\ Append(s, x) \in Seq(T)
      /\ Len(Append(s, x)) = Len(s) + 1 /\ Len(s) \in Nat
      /\ Append(s, x)[Len(s) + 1] = x
      /\ \A i \in 1 .. Len(s) : Append(s, x)[i] = s[i]
    OBVIOUS
<1>2. DOMAIN s = 1 .. Len(s) /\ DOMAIN Append(s, x) = 1 .. Len(s) + 1
    BY <1>1
<1> QED
    BY <1>1, <1>2

\* What strongconnect starts from: the calls, the innermost of which may be about to
\* follow an edge to v.
Entering(calls, v) ==
    /\ v \in Modules \ Met
    /\ calls \in Seq(Frame) /\ DOMAIN calls = DOMAIN frames /\ Len(calls) = Len(frames)
    /\ \A i \in DOMAIN frames :
          /\ calls[i].node = Of(i) /\ calls[i].todo \subseteq frames[i].todo
          /\ frames[i].todo \subseteq calls[i].todo \cup {v}
    /\ frames # <<>> => v \in Adjacent(Of(Len(frames)))

\* A module is met.
LEMMA Entered ==
    ASSUME project \in Projects, TarjanInv, NEW calls, NEW v, Entering(calls, v), Enter(v, calls),
           UNCHANGED <<project, verb>>, verb = "cycles"
    PROVE  TarjanInv'
<1>0. /\ Modules' = Modules /\ \A m : Adjacent(m)' = Adjacent(m) /\ Reach(m)' = Reach(m)
    BY FixedImports
<1>1. /\ Numbered /\ Stacked /\ Calling
      /\ EdgesAreMet /\ FinishedIsClosed /\ CallsLeadUp /\ AllLeadsDown
      /\ LowIsReached /\ LowIsLeast /\ ComponentsAreFound
    BY DEF TarjanInv
<1>2. v \in Modules /\ v \notin Met /\ v \notin Held
    BY <1>1 DEF Entering, Stacked
<1>3. IsFiniteSet(Met) /\ Cardinality(Met) \in Nat /\ Cardinality(Met \cup {v}) = Cardinality(Met) + 1
  <2>1. IsFiniteSet(Modules) /\ Met \in SUBSET Modules
      BY <1>1, RunsAre DEF Numbered
  <2>2. IsFiniteSet(Met)
      BY <2>1, FS_Subset
  <2> QED
      BY <1>2, <2>2, FS_AddElement, FS_CardinalityType
<1> DEFINE c == Cardinality(Met)
<1>4. /\ Met' = Met \cup {v} /\ DOMAIN low' = Met \cup {v}
      /\ \A m \in Met : index'[m] = index[m] /\ low'[m] = low[m]
      /\ index'[v] = c /\ low'[v] = c
  <2>1. /\ index' = [m \in Met \cup {v} |-> IF m = v THEN c ELSE index[m]]
        /\ low' = [m \in Met \cup {v} |-> IF m = v THEN c ELSE low[m]]
      BY DEF Enter, Met
  <2>2. Met' = DOMAIN index'
      BY DEF Met
  <2> QED
      BY <1>2, <2>1, <2>2
<1>5. \A m \in Met : index[m] \in Nat /\ index[m] < c /\ low[m] \in Nat /\ low[m] <= index[m]
    BY <1>1 DEF Numbered
<1>6. stack' = Append(stack, v) /\ stack \in Seq(Modules)
    BY <1>1 DEF Enter, Stacked
<1>7. /\ stack' \in Seq(Modules)
      /\ \A i \in DOMAIN stack' :
            \/ i \in DOMAIN stack /\ stack'[i] = stack[i]
            \/ i = Len(stack) + 1 /\ stack'[i] = v
      /\ \A i \in DOMAIN stack : i \in DOMAIN stack' /\ stack'[i] = stack[i] /\ i \in 1 .. Len(stack)
      /\ Len(stack) + 1 \in DOMAIN stack' /\ stack'[Len(stack) + 1] = v /\ Len(stack) \in Nat
  <2> DEFINE T == Modules
  <2> HIDE DEF T
  <2>1. stack \in Seq(T) /\ v \in T
      BY <1>2, <1>6 DEF T
  <2>2. stack' \in Seq(T)
      BY <1>6, <2>1, Pushing
  <2> QED
      BY <1>6, <2>1, <2>2, Pushing DEF T
<1>8. Held' = Held \cup {v}
  <2>1. Held' = {stack'[i] : i \in DOMAIN stack'}
      BY DEF Held
  <2>2. \A s : s \in Held <=> \E i \in DOMAIN stack : stack[i] = s
      BY DEF Held
  <2>3. \A s : s \in Held' <=> \E i \in DOMAIN stack' : stack'[i] = s
      BY <2>1
  <2> QED
      BY <1>7, <2>2, <2>3
<1>9. Popped' = Popped
    BY <1>2, <1>4, <1>8 DEF Popped
<1>30. PICK k : k = Len(frames) + 1
    OBVIOUS
<1> DEFINE f == [node |-> v, todo |-> Adjacent(v)]
<1>10. /\ frames' \in Seq(Frame)
       /\ \A i \in DOMAIN frames' :
             \/ i \in DOMAIN frames /\ Of(i)' = Of(i) /\ frames'[i].todo = calls[i].todo
             \/ i = k /\ Of(i)' = v /\ frames'[i].todo = Adjacent(v)
       /\ \A i \in DOMAIN frames : i \in DOMAIN frames' /\ i \in 1 .. Len(frames) /\ Of(i)' = Of(i) /\ i < k
       /\ k \in DOMAIN frames' /\ Of(k)' = v /\ Len(frames) \in Nat
       /\ \A i \in DOMAIN frames : frames'[i].todo = calls[i].todo
  <2>1. frames' = Append(calls, f)
      BY DEF Enter
  <2>2. calls \in Seq(Frame) /\ f \in Frame
    <3>1. Adjacent(v) \in SUBSET Modules
        BY <1>2, RunsAre
    <3> QED
        BY <1>2, <3>1 DEF Entering, Frame
  <2>3. \A i : Of(i)' = frames'[i].node
      BY DEF Of
  <2>4. /\ DOMAIN calls = DOMAIN frames /\ Len(calls) = Len(frames)
        /\ \A i \in DOMAIN frames : calls[i].node = Of(i)
      BY DEF Entering
  <2>5. f.node = v /\ f.todo = Adjacent(v)
      OBVIOUS
  <2> HIDE DEF f
  <2>6. /\ frames' \in Seq(Frame)
        /\ \A i \in DOMAIN frames' :
                 \/ i \in DOMAIN calls /\ frames'[i] = calls[i]
                 \/ i = Len(calls) + 1 /\ frames'[i] = f
        /\ \A i \in DOMAIN calls : i \in DOMAIN frames' /\ frames'[i] = calls[i] /\ i \in 1 .. Len(calls)
        /\ Len(calls) + 1 \in DOMAIN frames' /\ frames'[Len(calls) + 1] = f /\ Len(calls) \in Nat
      BY <2>1, <2>2, Pushing
  <2>7. Len(calls) + 1 = k /\ Len(frames) \in Nat
      BY <1>30, <2>4, <2>6
  <2>8. k \in DOMAIN frames' /\ Of(k)' = v /\ frames'[k].todo = Adjacent(v)
      BY <2>3, <2>5, <2>6, <2>7
  <2>9. ASSUME NEW i \in DOMAIN frames
        PROVE  /\ i \in DOMAIN frames' /\ i \in 1 .. Len(frames) /\ Of(i)' = Of(i) /\ i < k
               /\ frames'[i].todo = calls[i].todo
    <3>1. i \in DOMAIN frames' /\ frames'[i] = calls[i] /\ i \in 1 .. Len(frames)
        BY <2>4, <2>6
    <3>2. Of(i)' = Of(i)
        BY <2>3, <2>4, <3>1
    <3>3. i < k
        BY <1>30, <2>7, <3>1
    <3> QED
        BY <3>1, <3>2, <3>3
  <2>10. \A i \in DOMAIN frames' : i \in DOMAIN frames \/ i = k
      BY <2>4, <2>6, <2>7
  <2>11. \A i \in DOMAIN frames' :
             \/ i \in DOMAIN frames /\ Of(i)' = Of(i) /\ frames'[i].todo = calls[i].todo
             \/ i = k /\ Of(i)' = v /\ frames'[i].todo = Adjacent(v)
    <3> SUFFICES ASSUME NEW i \in DOMAIN frames', i \notin DOMAIN frames
                 PROVE  i = k /\ Of(i)' = v /\ frames'[i].todo = Adjacent(v)
        BY <2>9
    <3> QED
        BY <2>8, <2>10
  <2> QED
      BY <2>6, <2>7, <2>8, <2>9, <2>11
<1>11. \A i \in DOMAIN frames : Of(i) \in Held /\ Of(i) \in Met
    BY <1>1 DEF Calling, Stacked
<1>12. Numbered'
    BY <1>1, <1>0, <1>2, <1>3, <1>4, <1>5 DEF Numbered
<1>13. Stacked'
  <2>1. \A i \in DOMAIN stack : stack[i] \in Held /\ stack[i] \in Met
      BY <1>1 DEF Held, Stacked
  <2>2. \A i, j \in DOMAIN stack' : i < j => index'[stack'[i]] < index'[stack'[j]]
      BY <1>1, <1>4, <1>5, <1>7, <2>1 DEF Stacked
  <2>3. Held' \subseteq Met'
      BY <1>1, <1>4, <1>8 DEF Stacked
  <2> QED
      BY <1>0, <1>7, <2>2, <2>3 DEF Stacked
<1> HIDE DEF c, f
<1>14. \A i \in DOMAIN frames : Of(i)' = Of(i) /\ index'[Of(i)'] = index[Of(i)] /\ low'[Of(i)'] = low[Of(i)]
                                /\ index[Of(i)] < c /\ index[Of(i)] \in Nat /\ low[Of(i)] <= index[Of(i)] /\ low[Of(i)] \in Nat
    BY <1>4, <1>5, <1>10, <1>11
<1>15. \A w : Adjacent(w)' = Adjacent(w)
    BY <1>0
<1>16. ASSUME frames # <<>> PROVE Len(frames) \in DOMAIN frames /\ v \in Adjacent(Of(Len(frames)))
  <2>1. frames \in Seq(Frame)
      BY <1>1 DEF Calling
  <2> QED
      BY <1>16, <2>1 DEF Entering
<1>17. Calling'
  <2>1. \A i \in DOMAIN frames' : Of(i)' \in Held'
      BY <1>8, <1>10, <1>11
  <2>2. \A i \in DOMAIN frames' : frames'[i].todo \subseteq Adjacent(Of(i)')
      BY <1>1, <1>10 DEF Calling, Entering
  <2>3. \A i, j \in DOMAIN frames' : i < j => index'[Of(i)'] < index'[Of(j)']
      BY <1>1, <1>4, <1>10, <1>14 DEF Calling
  <2>4. ASSUME NEW i \in DOMAIN frames', i + 1 \in DOMAIN frames' PROVE Of(i + 1)' \in Adjacent(Of(i)')
    <3>1. i \in DOMAIN frames /\ i \in 1 .. Len(frames)
        BY <1>10, <2>4
    <3>2. CASE i + 1 \in DOMAIN frames
        BY <1>1, <1>10, <3>1, <3>2 DEF Calling
    <3>3. CASE i + 1 \notin DOMAIN frames
      <4>1. i + 1 = k /\ i = Len(frames) /\ frames # <<>>
          BY <1>10, <1>30, <2>4, <3>1, <3>3
      <4> QED
          BY <1>10, <1>16, <3>1, <4>1
    <3> QED
        BY <3>2, <3>3
  <2> QED
      BY <1>0, <1>10, <2>1, <2>2, <2>3, <2>4 DEF Calling, Frame

<1>18. \A s \in Met : \A w : w # v \/ s \notin Held => (IsLeft(s, w)' <=> IsLeft(s, w))
  <2>1. \A i \in DOMAIN frames : \A w : w # v => (w \in calls[i].todo <=> w \in frames[i].todo)
      BY DEF Entering
  <2> QED
      BY <1>2, <1>10, <1>11, <2>1 DEF IsLeft
<1>19. \A w : w \in Adjacent(v) => IsLeft(v, w)'
    BY <1>10 DEF IsLeft
<1>20. EdgesAreMet'
  <2>1. ASSUME NEW s \in Met, NEW w \in Adjacent(s) PROVE w \in Met' \/ IsLeft(s, w)'
      BY <1>1, <1>4, <1>18 DEF EdgesAreMet
  <2> QED
      BY <1>4, <1>15, <1>19, <2>1 DEF EdgesAreMet
<1>21. FinishedIsClosed'
    BY <1>1, <1>9, <1>15 DEF FinishedIsClosed
<1>22. /\ \A m \in Met : index'[m] = index[m] /\ index[m] < c
       /\ Held \subseteq Met /\ c \in Nat /\ index'[v] = c
    BY <1>1, <1>3, <1>4, <1>5 DEF Stacked, c
<1>23. \A i \in DOMAIN frames : v \in Reach(Of(i))
  <2> SUFFICES ASSUME NEW i \in DOMAIN frames PROVE v \in Reach(Of(i))
      OBVIOUS
  <2>1. /\ Len(frames) \in DOMAIN frames /\ v \in Adjacent(Of(Len(frames)))
        /\ i \in 1 .. Len(frames) /\ Len(frames) \in Nat
      BY <1>10, <1>16
  <2>2. index[Of(i)] <= index[Of(Len(frames))]
      BY <1>1, <1>14, <2>1 DEF Calling
  <2>3. Of(Len(frames)) \in Reach(Of(i)) /\ Of(i) \in Modules
      BY <1>1, <1>11, <2>1, <2>2 DEF CallsLeadUp, Numbered
  <2> QED
      BY <2>1, <2>3, Reaching
<1>24. v \in Reach(v)
    BY <1>2, Reaching
<1>25. CallsLeadUp'
  <2> SUFFICES ASSUME NEW i \in DOMAIN frames', NEW s \in Held', index'[Of(i)'] <= index'[s]
               PROVE  s \in Reach(Of(i)')
      BY <1>0 DEF CallsLeadUp
  <2>1. CASE i \in DOMAIN frames
      BY <1>1, <1>8, <1>14, <1>22, <1>23, <2>1 DEF CallsLeadUp
  <2>2. CASE i \notin DOMAIN frames
    <3>1. Of(i)' = v
        BY <1>10, <2>2
    <3>2. s = v
        BY <1>3, <1>8, <1>22, <3>1, <1>5
    <3> QED
        BY <1>24, <3>1, <3>2
  <2> QED
      BY <2>1, <2>2
<1>26. AllLeadsDown'
  <2> SUFFICES ASSUME NEW s \in Held'
               PROVE  \E i \in DOMAIN frames' : index'[Of(i)'] <= index'[s] /\ Of(i)' \in Reach(s)
      BY <1>0 DEF AllLeadsDown
  <2>1. CASE s = v
      BY <1>10, <1>22, <1>24, <2>1
  <2>2. CASE s \in Held
      BY <1>1, <1>10, <1>14, <1>22, <2>2 DEF AllLeadsDown
  <2> QED
      BY <1>8, <2>1, <2>2
<1>27. LowIsReached'
  <2> SUFFICES ASSUME NEW i \in DOMAIN frames'
               PROVE  \E y \in Held' : index'[y] = low'[Of(i)'] /\ y \in Reach(Of(i)')
      BY <1>0 DEF LowIsReached
  <2>1. CASE i \in DOMAIN frames
      BY <1>1, <1>8, <1>14, <1>22, <2>1 DEF LowIsReached
  <2>2. CASE i \notin DOMAIN frames
      BY <1>4, <1>8, <1>10, <1>24, <2>2
  <2> QED
      BY <2>1, <2>2
<1>28. LowIsLeast'
  <2> SUFFICES ASSUME NEW i \in DOMAIN frames', NEW s \in Held', NEW y \in Held',
                      InSegment(i, s)', y \in Adjacent(s), ~ IsLeft(s, y)'
               PROVE  low'[Of(i)'] <= index'[y]
      BY <1>15 DEF LowIsLeast
  <2>1. s # v
      BY <1>19
  <2>2. s \in Held /\ s \in Met
      BY <1>8, <1>22, <2>1
  <2>3. i \in DOMAIN frames
    <3> SUFFICES ASSUME i \notin DOMAIN frames PROVE FALSE
        OBVIOUS
    <3>1. Of(i)' = v
        BY <1>10
    <3>2. c <= index[s]
        BY <1>22, <2>2, <3>1 DEF InSegment
    <3> QED
        BY <1>5, <1>22, <2>2, <3>2
  <2>4. CASE y = v
      BY <1>14, <1>22, <2>3, <2>4
  <2>5. CASE y # v
    <3>1. y \in Held
        BY <1>8, <2>5
    <3>2. InSegment(i, s)
        BY <1>10, <1>14, <1>22, <2>2, <2>3 DEF InSegment
    <3>3. ~ IsLeft(s, y)
        BY <1>18, <2>2, <2>5
    <3> QED
        BY <1>1, <1>14, <1>22, <2>2, <2>3, <3>1, <3>2, <3>3 DEF LowIsLeast
  <2> QED
      BY <2>4, <2>5
<1>29. ComponentsAreFound'
  <2>1. sccs' = sccs
      BY DEF Enter
  <2>2. \A m : Component(m)' = Component(m)
      BY <1>0 DEF Component
  <2> QED
      BY <1>1, <1>9, <2>1, <2>2 DEF ComponentsAreFound
<1> QED
    BY <1>12, <1>13, <1>17, <1>20, <1>21, <1>25, <1>26, <1>27, <1>28, <1>29 DEF TarjanInv

\* The innermost call.
LEMMA Innermost ==
    ASSUME Calling, frames # <<>>
    PROVE  /\ Len(frames) \in DOMAIN frames /\ Len(frames) \in Nat /\ DOMAIN frames = 1 .. Len(frames)
           /\ \A i \in DOMAIN frames : i \in Nat /\ 1 <= i /\ i <= Len(frames) /\ frames[i] \in Frame
           /\ \A i \in DOMAIN frames : index[Of(i)] \in Nat => i = Len(frames) \/ index[Of(i)] < index[Of(Len(frames))]
<1>1. frames \in Seq(Frame)
    BY DEF Calling
<1>2. Len(frames) \in Nat \ {0} /\ DOMAIN frames = 1 .. Len(frames)
    BY <1>1, EmptySeq
<1>3. \A i \in DOMAIN frames : i \in Nat /\ 1 <= i /\ i <= Len(frames) /\ frames[i] \in Frame
    BY <1>1, <1>2
<1>4. \A i \in DOMAIN frames : i = Len(frames) \/ i < Len(frames)
    BY <1>2, <1>3
<1> QED
    BY <1>2, <1>3, <1>4 DEF Calling

\* The innermost call with one successor less to look at.
LEMMA OneLess ==
    ASSUME Calling, frames # <<>>, NEW w
    PROVE  LET calls == [frames EXCEPT ![Len(frames)].todo = @ \ {w}] IN
           /\ calls \in Seq(Frame) /\ DOMAIN calls = DOMAIN frames /\ Len(calls) = Len(frames)
           /\ \A i \in DOMAIN frames :
                 /\ calls[i].node = frames[i].node
                 /\ calls[i].todo = IF i = Len(frames) THEN frames[i].todo \ {w} ELSE frames[i].todo
<1> DEFINE n == Len(frames)
           calls == [frames EXCEPT ![n].todo = @ \ {w}]
<1>1. /\ frames \in Seq(Frame) /\ n \in DOMAIN frames /\ n \in Nat /\ DOMAIN frames = 1 .. n
      /\ \A i \in DOMAIN frames : frames[i] \in Frame
    BY Innermost DEF Calling
<1>2. DOMAIN calls = DOMAIN frames
    OBVIOUS
<1>3. ASSUME NEW i \in DOMAIN frames
      PROVE  /\ calls[i].node = frames[i].node
             /\ calls[i].todo = IF i = n THEN frames[i].todo \ {w} ELSE frames[i].todo
             /\ calls[i] \in Frame
  <2>1. CASE i # n
      BY <1>1, <2>1
  <2>2. CASE i = n
    <3>1. calls[i] = [frames[i] EXCEPT !.todo = @ \ {w}]
        BY <1>1, <2>2
    <3> HIDE DEF calls
    <3> QED
        BY <1>1, <2>2, <3>1 DEF Frame
  <2> QED
      BY <2>1, <2>2
<1>4. calls = [i \in 1 .. n |-> calls[i]]
    BY <1>1
<1> HIDE DEF calls
<1>5. calls \in Seq(Frame)
  <2>1. calls \in [1 .. n -> Frame]
      BY <1>1, <1>3, <1>4
  <2> QED
      BY <1>1, <2>1
<1>6. Len(calls) = n
    BY <1>1, <1>2, <1>5
<1> QED
    BY <1>2, <1>3, <1>5, <1>6 DEF calls

\* An edge to a module that has been met is looked at.
LooksAt(w) ==
    /\ frames # <<>> /\ w \in frames[Len(frames)].todo /\ w \in Met
    /\ frames' = [frames EXCEPT ![Len(frames)].todo = @ \ {w}]
    /\ low' = IF OnStack(w)
              THEN [low EXCEPT ![frames[Len(frames)].node] = Min({@, index[w]})] ELSE low
    /\ UNCHANGED <<index, stack, sccs>>

\* It lowers no link of another call.
LEMMA Looked ==
    ASSUME project \in Projects, TarjanInv, verb = "cycles", UNCHANGED <<project, verb>>, NEW w, LooksAt(w)
    PROVE  TarjanInv'
<1>0. /\ Modules' = Modules /\ \A m : Adjacent(m)' = Adjacent(m) /\ Reach(m)' = Reach(m)
    BY FixedImports
<1>1. /\ Numbered /\ Stacked /\ Calling
      /\ EdgesAreMet /\ FinishedIsClosed /\ CallsLeadUp /\ AllLeadsDown
      /\ LowIsReached /\ LowIsLeast /\ ComponentsAreFound
    BY DEF TarjanInv
<1>2. PICK k : k = Len(frames)
    OBVIOUS
<1>3. PICK v : v = Of(k)
    OBVIOUS
<1>4. /\ k \in DOMAIN frames /\ v \in Held /\ v \in Met /\ v \in Modules /\ w \in Adjacent(v) /\ w \in Met
      /\ \A i \in DOMAIN frames : i \in Nat /\ i <= k /\ Of(i) \in Held /\ Of(i) \in Met
      /\ \A i \in DOMAIN frames : i = k \/ index[Of(i)] < index[v]
    BY <1>1, <1>2, <1>3, Innermost DEF Calling, Stacked, Numbered, Of, LooksAt
<1>5. Met' = Met /\ Held' = Held /\ Popped' = Popped /\ UNCHANGED <<index, stack, sccs>>
    BY DEF Met, Held, Popped, LooksAt
<1>6. /\ frames' \in Seq(Frame) /\ DOMAIN frames' = DOMAIN frames
      /\ \A i \in DOMAIN frames :
            /\ Of(i)' = Of(i)
            /\ frames'[i].todo = IF i = k THEN frames[i].todo \ {w} ELSE frames[i].todo
    BY <1>1, <1>2, OneLess DEF Of, LooksAt
<1>7. \A s, y : IsLeft(s, y)' <=> IsLeft(s, y) /\ ~ (s = v /\ y = w)
  <2>1. \A i \in DOMAIN frames : Of(i) = v => i = k
      BY <1>1, <1>4 DEF Numbered
  <2> SUFFICES ASSUME NEW s, NEW y PROVE IsLeft(s, y)' <=> IsLeft(s, y) /\ ~ (s = v /\ y = w)
      OBVIOUS
  <2>2. IsLeft(s, y) <=> \E i \in DOMAIN frames : Of(i) = s /\ y \in frames[i].todo
      BY DEF IsLeft
  <2>3. IsLeft(s, y)' <=> \E i \in DOMAIN frames : Of(i) = s /\ y \in frames'[i].todo
      BY <1>6 DEF IsLeft
  <2>4. ASSUME NEW i \in DOMAIN frames
        PROVE  y \in frames'[i].todo <=> y \in frames[i].todo /\ ~ (i = k /\ y = w)
    <3>1. CASE i = k
      <4>1. frames'[i].todo = frames[i].todo \ {w}
          BY <1>6, <3>1
      <4> QED
          BY <3>1, <4>1
    <3>2. CASE i # k
      <4>1. frames'[i].todo = frames[i].todo
          BY <1>6, <3>2
      <4> QED
          BY <3>2, <4>1
    <3> QED
        BY <3>1, <3>2
  <2> QED
      BY <1>3, <2>1, <2>2, <2>3, <2>4
<1>8. /\ DOMAIN low' = Met
      /\ \A m \in Met : m # v => low'[m] = low[m]
      /\ low'[v] \in Nat /\ low'[v] <= low[v]
      /\ w \in Held => low'[v] <= index[w]
      /\ low'[v] = low[v] \/ (w \in Held /\ low'[v] = index[w])
  <2>1. DOMAIN low = Met /\ low[v] \in Nat /\ index[w] \in Nat
      BY <1>1, <1>4 DEF Numbered
  <2>2. OnStack(w) <=> w \in Held
      BY DEF OnStack, Member, Held
  <2>3. CASE ~ OnStack(w)
    <3>1. low' = low
        BY <2>3 DEF LooksAt
    <3> QED
        BY <2>1, <2>2, <2>3, <3>1
  <2>4. CASE OnStack(w)
    <3>1. Min({low[v], index[w]}) = IF low[v] <= index[w] THEN low[v] ELSE index[w]
        BY <2>1 DEF Min
    <3>2. low' = [low EXCEPT ![v] = Min({low[v], index[w]})]
        BY <1>2, <1>3, <2>4 DEF Of, LooksAt
    <3> HIDE DEF Min
    <3>3. low'[v] = Min({low[v], index[w]}) /\ DOMAIN low' = Met /\ \A m \in Met : m # v => low'[m] = low[m]
        BY <1>4, <2>1, <3>2
    <3>4. w \in Held
        BY <2>2, <2>4
    <3>5. CASE low[v] <= index[w]
        BY <2>1, <3>1, <3>3, <3>4, <3>5
    <3>6. CASE ~ (low[v] <= index[w])
      <4>1. low'[v] = index[w]
          BY <3>1, <3>3, <3>6
      <4>2. index[w] <= low[v] /\ index[w] <= index[w]
          BY <2>1, <3>6
      <4> QED
          BY <2>1, <3>3, <3>4, <4>1, <4>2
    <3> QED
        BY <3>5, <3>6
  <2> QED
      BY <2>3, <2>4
<1>19. \A m \in Met : /\ index[m] \in Nat /\ index[m] < Cardinality(Met) /\ low[m] \in Nat /\ low[m] <= index[m]
                     /\ low'[m] \in Nat /\ low'[m] <= low[m]
  <2> SUFFICES ASSUME NEW m \in Met
               PROVE  /\ index[m] \in Nat /\ index[m] < Cardinality(Met) /\ low[m] \in Nat /\ low[m] <= index[m]
                      /\ low'[m] \in Nat /\ low'[m] <= low[m]
      OBVIOUS
  <2>1. index[m] \in Nat /\ index[m] < Cardinality(Met) /\ low[m] \in Nat /\ low[m] <= index[m]
      BY <1>1 DEF Numbered
  <2>2. CASE m = v
      BY <1>8, <2>1, <2>2
  <2>3. CASE m # v
      BY <1>8, <2>1, <2>3
  <2> QED
      BY <2>1, <2>2, <2>3
<1>20. ASSUME NEW m \in Met PROVE low'[m] <= index[m]
  <2>1. /\ low'[m] \in Nat /\ low[m] \in Nat /\ index[m] \in Nat
        /\ low'[m] <= low[m] /\ low[m] <= index[m]
      BY <1>19
  <2> QED
      BY <2>1
<1>9. Numbered'
    BY <1>0, <1>1, <1>5, <1>8, <1>19, <1>20 DEF Numbered
<1>10. Stacked'
    BY <1>0, <1>1, <1>5 DEF Stacked
<1>11. Calling'
  <2>1. \A i \in DOMAIN frames : frames'[i].todo \subseteq Adjacent(Of(i))
      BY <1>1, <1>6 DEF Calling
  <2> QED
      BY <1>0, <1>1, <1>5, <1>6, <2>1 DEF Calling, Frame
<1>12. EdgesAreMet'
    BY <1>0, <1>1, <1>4, <1>5, <1>7 DEF EdgesAreMet
<1>13. FinishedIsClosed'
    BY <1>0, <1>1, <1>5 DEF FinishedIsClosed
<1>14. CallsLeadUp'
    BY <1>0, <1>1, <1>5, <1>6 DEF CallsLeadUp
<1>15. AllLeadsDown'
    BY <1>0, <1>1, <1>5, <1>6 DEF AllLeadsDown
<1>16. LowIsReached'
  <2> SUFFICES ASSUME NEW i \in DOMAIN frames
               PROVE  \E y \in Held : index[y] = low'[Of(i)] /\ y \in Reach(Of(i))
      BY <1>0, <1>5, <1>6 DEF LowIsReached
  <2>1. CASE Of(i) # v \/ low'[v] = low[v]
      BY <1>1, <1>4, <1>8, <2>1 DEF LowIsReached
  <2>2. CASE Of(i) = v /\ low'[v] # low[v]
    <3>1. w \in Held /\ low'[v] = index[w]
        BY <1>8, <2>2
    <3>2. w \in Reach(v)
        BY <1>4, Reaching
    <3> QED
        BY <2>2, <3>1, <3>2
  <2> QED
      BY <2>1, <2>2
<1>17. LowIsLeast'
  <2> SUFFICES ASSUME NEW i \in DOMAIN frames, NEW s \in Held, NEW y \in Held,
                      InSegment(i, s), y \in Adjacent(s), ~ IsLeft(s, y) \/ (s = v /\ y = w)
               PROVE  low'[Of(i)] <= index[y]
    <3>1. \A i \in DOMAIN frames, s \in Held : InSegment(i, s)' <=> InSegment(i, s)
        BY <1>5, <1>6 DEF InSegment
    <3> QED
        BY <1>0, <1>5, <1>6, <1>7, <3>1 DEF LowIsLeast
  <2>1. /\ low'[Of(i)] \in Nat /\ low[Of(i)] \in Nat /\ index[y] \in Nat /\ low'[Of(i)] <= low[Of(i)]
      BY <1>1, <1>4, <1>19 DEF Stacked
  <2>2. CASE ~ IsLeft(s, y)
      BY <1>1, <2>1, <2>2 DEF LowIsLeast
  <2>3. CASE s = v /\ y = w
    <3>1. i = k
      <4>1. ASSUME i # k PROVE i < k
          BY <1>2, <1>4, <4>1, <1>1, Innermost
      <4>2. index[s] < index[v] \/ ~ (i < k)
          BY <1>3, <1>4 DEF InSegment
      <4> QED
          BY <1>4, <1>19, <2>3, <4>1, <4>2
    <3> QED
        BY <1>3, <1>8, <2>3, <3>1
  <2> QED
      BY <2>2, <2>3
<1>18. ComponentsAreFound'
  <2>1. \A m : Component(m)' = Component(m)
      BY <1>0 DEF Component
  <2> QED
      BY <1>1, <1>5, <2>1 DEF ComponentsAreFound
<1> QED
    BY <1>9, <1>10, <1>11, <1>12, <1>13, <1>14, <1>15, <1>16, <1>17, <1>18 DEF TarjanInv

\* A sequence without its last element.
LEMMA AllButTheLast ==
    ASSUME NEW T, NEW s \in Seq(T), s # <<>>
    PROVE  /\ Front(s) \in Seq(T) /\ DOMAIN Front(s) = 1 .. Len(s) - 1
           /\ DOMAIN s = 1 .. Len(s) /\ Len(s) \in Nat \ {0}
           /\ \A i \in 1 .. Len(s) - 1 : i \in DOMAIN s /\ Front(s)[i] = s[i]
<1>1. Len(s) \in Nat \ {0} /\ DOMAIN s = 1 .. Len(s)
    BY EmptySeq
<1>2. \A i \in 1 .. Len(s) - 1 : i \in DOMAIN s /\ s[i] \in T
    BY <1>1
<1>3. Front(s) = [i \in 1 .. Len(s) - 1 |-> s[i]]
    BY <1>1 DEF Front
<1>4. Front(s) \in [1 .. Len(s) - 1 -> T]
    BY <1>2, <1>3
<1> QED
    BY <1>1, <1>2, <1>3, <1>4

\* The calls that go on when the innermost returns, and their links.
LEMMA Returned ==
    ASSUME project \in Projects, Numbered, Stacked, Calling, frames # <<>>, Return
    PROVE  \E k, v :
              /\ k \in Nat \ {0} /\ k = Len(frames) /\ k \in DOMAIN frames /\ DOMAIN frames = 1 .. k
              /\ v = Of(k) /\ v \in Held /\ v \in Met /\ frames[k].todo = {}
              /\ frames' \in Seq(Frame) /\ DOMAIN frames' = 1 .. k - 1
              /\ \A i \in 1 .. k - 1 :
                    /\ i \in DOMAIN frames /\ Of(i)' = Of(i) /\ frames'[i] = frames[i]
                    /\ Of(i) \in Held /\ Of(i) \in Met /\ index[Of(i)] < index[v]
              /\ \A s, y : IsLeft(s, y)' <=> IsLeft(s, y)
              /\ \A y : ~ IsLeft(v, y)
              /\ DOMAIN low' = Met
              /\ \A m \in Met : /\ low'[m] \in Nat /\ low'[m] <= low[m]
                                /\ low'[m] = low[m] \/ (k # 1 /\ m = Of(k - 1) /\ low'[m] = low[v])
              /\ k # 1 => low'[Of(k - 1)] <= low[v]
<1>1. PICK k : k = Len(frames)
    OBVIOUS
<1>2. PICK v : v = Of(k)
    OBVIOUS
<1>3. /\ frames \in Seq(Frame) /\ k \in DOMAIN frames /\ DOMAIN frames = 1 .. k
      /\ \A i \in DOMAIN frames : i = k \/ index[Of(i)] < index[v]
      /\ \A i \in DOMAIN frames : Of(i) \in Held /\ Of(i) \in Met
      /\ \A m \in Met : index[m] \in Nat /\ low[m] \in Nat /\ DOMAIN low = Met
  <2>1. \A i \in DOMAIN frames : Of(i) \in Held /\ Of(i) \in Met
      BY DEF Calling, Stacked
  <2>2. \A m \in Met : index[m] \in Nat /\ low[m] \in Nat /\ DOMAIN low = Met
      BY DEF Numbered
  <2> QED
      BY <1>1, <1>2, <2>1, <2>2, Innermost DEF Calling
<1>4. k \in Nat \ {0}
    BY <1>3
<1>5. /\ frames' = Front(frames) /\ frames[k].todo = {}
      /\ low' = IF k = 1 THEN low ELSE [low EXCEPT ![frames[k - 1].node] = Min({@, low[v]})]
    BY <1>1, <1>2 DEF Return, Of
<1>6. /\ frames' \in Seq(Frame) /\ DOMAIN frames' = 1 .. k - 1
      /\ \A i \in 1 .. k - 1 : i \in DOMAIN frames /\ frames'[i] = frames[i]
    BY <1>1, <1>3, <1>5, AllButTheLast
<1>7. \A i \in 1 .. k - 1 : Of(i)' = Of(i)
    BY <1>6 DEF Of
<1>8. \A i \in 1 .. k - 1 : index[Of(i)] < index[v] /\ Of(i) \in Held /\ Of(i) \in Met
    BY <1>3, <1>4, <1>6
<1>9. \A s, y : IsLeft(s, y)' <=> IsLeft(s, y)
  <2> SUFFICES ASSUME NEW s, NEW y PROVE IsLeft(s, y)' <=> IsLeft(s, y)
      OBVIOUS
  <2>1. IsLeft(s, y)' <=> \E i \in 1 .. k - 1 : Of(i) = s /\ y \in frames[i].todo
      BY <1>6, <1>7 DEF IsLeft
  <2>2. IsLeft(s, y) <=> \E i \in 1 .. k : Of(i) = s /\ y \in frames[i].todo
      BY <1>3 DEF IsLeft
  <2>3. \A i \in 1 .. k : i \in 1 .. k - 1 \/ i = k
      BY <1>4
  <2>4. \A i \in 1 .. k - 1 : i \in 1 .. k
      BY <1>4
  <2> QED
      BY <1>5, <2>1, <2>2, <2>3, <2>4
<1>10. \A y : ~ IsLeft(v, y)
  <2>1. \A i \in DOMAIN frames : Of(i) = v => i = k
      BY <1>3
  <2> QED
      BY <1>5, <2>1 DEF IsLeft
<1>11. v \in Held /\ v \in Met
    BY <1>2, <1>3
<1>12. /\ DOMAIN low' = Met
       /\ \A m \in Met : /\ low'[m] \in Nat /\ low'[m] <= low[m]
                         /\ low'[m] = low[m] \/ (k # 1 /\ m = Of(k - 1) /\ low'[m] = low[v])
       /\ k # 1 => low'[Of(k - 1)] <= low[v]
  <2>1. CASE k = 1
    <3>1. low' = low
        BY <1>5, <2>1
    <3> QED
        BY <1>3, <2>1, <3>1, <1>11
  <2>2. CASE k # 1
    <3>1. PICK u : u = Of(k - 1)
        OBVIOUS
    <3>2. k - 1 \in 1 .. k - 1
        BY <1>4, <2>2
    <3>3. u \in Met /\ DOMAIN low = Met /\ low[u] \in Nat /\ low[v] \in Nat
        BY <1>3, <1>8, <1>11, <3>1, <3>2
    <3>4. Min({low[u], low[v]}) = IF low[u] <= low[v] THEN low[u] ELSE low[v]
        BY <3>3 DEF Min
    <3>5. low' = [low EXCEPT ![u] = Min({low[u], low[v]})]
        BY <1>5, <2>2, <3>1 DEF Of
    <3>6. low'[u] = Min({low[u], low[v]}) /\ DOMAIN low' = Met /\ \A m \in Met : m # u => low'[m] = low[m]
        BY <3>3, <3>5
    <3>7. low'[u] = low[u] \/ low'[u] = low[v]
        BY <3>4, <3>6
    <3>8. low'[u] <= low[u] /\ low'[u] <= low[v]
      <4>1. CASE low[u] <= low[v]
          BY <3>3, <3>4, <3>6, <4>1
      <4>2. CASE ~ (low[u] <= low[v])
        <5>1. low'[u] = low[v] /\ low[v] <= low[u] /\ low[v] <= low[v]
            BY <3>3, <3>4, <3>6, <4>2
        <5> QED
            BY <5>1
      <4> QED
          BY <4>1, <4>2
    <3>9. \A m \in Met : low[m] \in Nat /\ low[m] <= low[m]
        BY <1>3
    <3>10. ASSUME NEW m \in Met
           PROVE  /\ low'[m] \in Nat /\ low'[m] <= low[m]
                  /\ low'[m] = low[m] \/ (k # 1 /\ m = Of(k - 1) /\ low'[m] = low[v])
      <4>1. CASE m = u
          BY <2>2, <3>1, <3>3, <3>7, <3>8, <4>1
      <4>2. CASE m # u
          BY <3>6, <3>9, <4>2
      <4> QED
          BY <4>1, <4>2
    <3> QED
        BY <3>1, <3>6, <3>8, <3>10
  <2> QED
      BY <2>1, <2>2
<1> QED
    BY <1>1, <1>2, <1>3, <1>4, <1>5, <1>6, <1>7, <1>8, <1>9, <1>10, <1>11, <1>12

\* What is left of the stack, and what was above, is told by the numbers.
IsCut(below, v, at) ==
    /\ below \in Seq(Modules)
    /\ {below[i] : i \in DOMAIN below} = {s \in Held : index[s] < index[v]}
    /\ \A i, j \in DOMAIN below : i < j => index[below[i]] < index[below[j]]
    /\ {stack[i] : i \in at .. Len(stack)} = {s \in Held : index[v] <= index[s]}

\* The stack is cut where v is.
LEMMA Cut ==
    ASSUME Numbered, Stacked, NEW v \in Held, NEW at \in DOMAIN stack, stack[at] = v
    PROVE  IsCut(SubSeq(stack, 1, at - 1), v, at)
<1> DEFINE T == Modules
<1>2. PICK n : n = Len(stack)
    OBVIOUS
<1>3. stack \in Seq(T) /\ n \in Nat /\ DOMAIN stack = 1 .. n
    BY <1>2 DEF Stacked
<1>4. at \in 1 .. n /\ stack[at] = v
    BY <1>3
<1>5. \A s \in Held : index[s] \in Nat
    BY DEF Numbered, Stacked
<1>6. /\ \A i, j \in 1 .. n : i < j => index[stack[i]] < index[stack[j]]
      /\ \A i \in 1 .. n : stack[i] \in Held
      /\ \A s \in Held : \E i \in 1 .. n : stack[i] = s
    BY <1>3 DEF Stacked, Held
<1>7. PICK below : below = SubSeq(stack, 1, at - 1)
    OBVIOUS
<1> HIDE DEF T
<1>8. /\ below \in Seq(T) /\ DOMAIN below = 1 .. at - 1
      /\ \A i \in 1 .. at - 1 : below[i] = stack[i] /\ i \in 1 .. n
  <2>1. at - 1 \in Nat /\ at - 1 <= n
      BY <1>3, <1>4
  <2>2. \A i \in 1 .. at - 1 : stack[i] \in T /\ i \in 1 .. n
      BY <1>3, <2>1
  <2>3. below = [i \in 1 .. at - 1 |-> stack[i]]
      BY <1>7, <2>1
  <2>4. below \in [1 .. at - 1 -> T]
      BY <2>2, <2>3
  <2> QED
      BY <2>1, <2>2, <2>3, <2>4
<1>9. \A i \in 1 .. n : i < at => index[stack[i]] < index[v]
    BY <1>4, <1>6
<1>10. \A i \in 1 .. n : at <= i => index[v] <= index[stack[i]]
  <2> SUFFICES ASSUME NEW i \in 1 .. n, at <= i PROVE index[v] <= index[stack[i]]
      OBVIOUS
  <2>1. i = at \/ at < i
      BY <1>4
  <2>2. index[v] \in Nat /\ index[stack[i]] \in Nat
      BY <1>5, <1>6
  <2>3. at < i => index[v] < index[stack[i]]
      BY <1>4, <1>6
  <2> QED
      BY <1>4, <2>1, <2>2, <2>3
<1>11. \A s \in Held : ~ (index[s] < index[v] /\ index[v] <= index[s])
    BY <1>5
<1>12. {below[i] : i \in DOMAIN below} = {s \in Held : index[s] < index[v]}
  <2>1. ASSUME NEW i \in DOMAIN below PROVE below[i] \in Held /\ index[below[i]] < index[v]
    <3>1. i \in 1 .. n /\ i < at /\ below[i] = stack[i]
        BY <1>4, <1>8
    <3> QED
        BY <1>6, <1>9, <3>1
  <2>2. ASSUME NEW s \in Held, index[s] < index[v] PROVE \E i \in DOMAIN below : below[i] = s
    <3>1. PICK i \in 1 .. n : stack[i] = s
        BY <1>6
    <3>2. ~ (at <= i)
        BY <1>10, <1>11, <2>2, <3>1
    <3>3. i \in 1 .. at - 1
        BY <1>4, <3>2
    <3> QED
        BY <1>8, <3>1, <3>3
  <2> QED
      BY <2>1, <2>2
<1>13. {stack[i] : i \in at .. n} = {s \in Held : index[v] <= index[s]}
  <2>1. ASSUME NEW i \in at .. n PROVE stack[i] \in Held /\ index[v] <= index[stack[i]]
    <3>1. i \in 1 .. n /\ at <= i
        BY <1>4
    <3> QED
        BY <1>6, <1>10, <3>1
  <2>2. ASSUME NEW s \in Held, index[v] <= index[s] PROVE \E i \in at .. n : stack[i] = s
    <3>1. PICK i \in 1 .. n : stack[i] = s
        BY <1>6
    <3>2. ~ (i < at)
        BY <1>9, <1>11, <2>2, <3>1
    <3>3. i \in at .. n
        BY <1>4, <3>2
    <3> QED
        BY <3>1, <3>3
  <2> QED
      BY <2>1, <2>2
<1>14. \A i, j \in DOMAIN below : i < j => index[below[i]] < index[below[j]]
    BY <1>6, <1>8
<1>15. IsCut(below, v, at)
    BY <1>2, <1>8, <1>12, <1>13, <1>14 DEF T, IsCut
<1> QED
    BY <1>7, <1>15

\* A call that is the root of a component returns: it pops the component.
LEMMA Rooted ==
    ASSUME project \in Projects, TarjanInv, frames # <<>>, Return, UNCHANGED <<project, verb>>, verb = "cycles",
           low[Of(Len(frames))] = index[Of(Len(frames))]
    PROVE  TarjanInv'
<1>0. /\ Modules' = Modules /\ \A m : Adjacent(m)' = Adjacent(m) /\ Reach(m)' = Reach(m)
    BY FixedImports
<1>1. /\ Numbered /\ Stacked /\ Calling
      /\ EdgesAreMet /\ FinishedIsClosed /\ CallsLeadUp /\ AllLeadsDown
      /\ LowIsReached /\ LowIsLeast /\ ComponentsAreFound
    BY DEF TarjanInv
<1>2. PICK k, v :
              /\ k \in Nat \ {0} /\ k = Len(frames) /\ k \in DOMAIN frames /\ DOMAIN frames = 1 .. k
              /\ v = Of(k) /\ v \in Held /\ v \in Met /\ frames[k].todo = {}
              /\ frames' \in Seq(Frame) /\ DOMAIN frames' = 1 .. k - 1
              /\ \A i \in 1 .. k - 1 :
                    /\ i \in DOMAIN frames /\ Of(i)' = Of(i) /\ frames'[i] = frames[i]
                    /\ Of(i) \in Held /\ Of(i) \in Met /\ index[Of(i)] < index[v]
              /\ \A s, y : IsLeft(s, y)' <=> IsLeft(s, y)
              /\ \A y : ~ IsLeft(v, y)
              /\ DOMAIN low' = Met
              /\ \A m \in Met : /\ low'[m] \in Nat /\ low'[m] <= low[m]
                                /\ low'[m] = low[m] \/ (k # 1 /\ m = Of(k - 1) /\ low'[m] = low[v])
              /\ k # 1 => low'[Of(k - 1)] <= low[v]
    BY <1>1, Returned
<1>3. low[v] = index[v]
    BY <1>2
<1>4. \A m \in Met : index[m] \in Nat /\ low[m] \in Nat /\ low[m] <= index[m]
    BY <1>1 DEF Numbered
<1> DEFINE C == {s \in Held : index[v] <= index[s]}
           B == {s \in Held : index[s] < index[v]}
<1>5. /\ stack' \in Seq(Modules) /\ Held' = B
      /\ \A i, j \in DOMAIN stack' : i < j => index[stack'[i]] < index[stack'[j]]
      /\ sccs' = sccs \cup {C} /\ UNCHANGED index
  <2>1. PICK at : at = CHOOSE i \in DOMAIN stack : stack[i] = v
      OBVIOUS
  <2>2. /\ sccs' = sccs \cup {{stack[i] : i \in at .. Len(stack)}} /\ stack' = SubSeq(stack, 1, at - 1)
        /\ UNCHANGED index
      BY <1>2, <1>3, <2>1 DEF Return, Of
  <2>3. Held' = {stack'[i] : i \in DOMAIN stack'}
      BY DEF Held
  <2>4. at \in DOMAIN stack /\ stack[at] = v
    <3>1. \E i \in DOMAIN stack : stack[i] = v
        BY <1>2 DEF Held
    <3> QED
        BY <2>1, <3>1
  <2>5. IsCut(stack', v, at)
      BY <1>1, <1>2, <2>2, <2>4, Cut
  <2>6. /\ stack' \in Seq(Modules) /\ {stack'[i] : i \in DOMAIN stack'} = B
        /\ \A i, j \in DOMAIN stack' : i < j => index[stack'[i]] < index[stack'[j]]
        /\ {stack[i] : i \in at .. Len(stack)} = C
      BY <2>5 DEF IsCut
  <2> HIDE DEF B, C
  <2> QED
      BY <2>2, <2>3, <2>6
<1>6. /\ Met' = Met /\ C \subseteq Held /\ v \in C /\ Popped' = Popped \cup C
      /\ Held \subseteq Met /\ Met \subseteq Modules
  <2>1. Met' = Met
      BY <1>5 DEF Met
  <2>2. Held \subseteq Met /\ Met \subseteq Modules
      BY <1>1 DEF Stacked, Numbered
  <2>3. \A s \in Held : s \in C <=> s \notin B
      BY <1>2, <1>4, <2>2
  <2>4. C \subseteq Held /\ v \in C /\ B \subseteq Held
      BY <1>2, <1>4
  <2> HIDE DEF B, C
  <2> QED
      BY <1>5, <2>1, <2>2, <2>3, <2>4 DEF Popped
<1>7. \A m \in Met : low'[m] = low[m]
  <2> SUFFICES ASSUME NEW m \in Met, k # 1, m = Of(k - 1), low'[m] = low[v] PROVE FALSE
      BY <1>2
  <2>1. k - 1 \in 1 .. k - 1
      BY <1>2
  <2>2. index[m] < index[v] /\ low'[m] <= low[m] /\ low[m] <= index[m] /\ low'[m] = index[v]
      BY <1>2, <1>3, <1>4, <2>1
  <2> QED
      BY <1>2, <1>4, <2>2
<1>8. \A i \in 1 .. k : i = k \/ i \in 1 .. k - 1
    BY <1>2
<1>9. ASSUME NEW s \in C, NEW y \in Adjacent(s) PROVE y \in C \cup Popped
  <2>1. ~ IsLeft(s, y)
    <3>1. ASSUME NEW i \in DOMAIN frames, Of(i) = s PROVE i = k
        BY <1>2, <1>4, <1>6, <1>8, <3>1
    <3> QED
        BY <1>2, <3>1 DEF IsLeft
  <2>2. y \in Met
      BY <1>1, <1>6, <2>1 DEF EdgesAreMet
  <2>3. ASSUME y \in Held PROVE index[v] <= index[y]
    <3>1. InSegment(k, s)
      <4>1. \A j \in DOMAIN frames : ~ (k < j)
          BY <1>2
      <4> QED
          BY <1>2, <4>1 DEF InSegment
    <3> QED
        BY <1>1, <1>2, <1>3, <1>6, <2>1, <2>3, <3>1 DEF LowIsLeast
  <2> QED
      BY <2>2, <2>3 DEF Popped
<1> HIDE DEF C
<1>10. \A x \in C \cup Popped : Adjacent(x) \subseteq C \cup Popped
    BY <1>1, <1>9 DEF FinishedIsClosed
<1>11. \A a \in C : a \in Reach(v) /\ v \in Reach(a)
  <2> SUFFICES ASSUME NEW a \in C PROVE a \in Reach(v) /\ v \in Reach(a)
      OBVIOUS
  <2>1. a \in Held /\ index[v] <= index[a] /\ a \in Modules /\ a \in Met
      BY <1>6 DEF C
  <2>2. a \in Reach(v)
      BY <1>1, <1>2, <2>1 DEF CallsLeadUp
  <2>3. PICK i \in DOMAIN frames : index[Of(i)] <= index[a] /\ Of(i) \in Reach(a)
      BY <1>1, <2>1 DEF AllLeadsDown
  <2>4. index[Of(i)] <= index[v]
      BY <1>2, <1>4, <1>8
  <2>5. v \in Reach(Of(i))
      BY <1>1, <1>2, <2>4 DEF CallsLeadUp
  <2> QED
      BY <2>1, <2>2, <2>3, <2>5, Reaching
<1>12. \A m \in C : C = Component(m)
  <2> SUFFICES ASSUME NEW m \in C PROVE C = Component(m)
      OBVIOUS
  <2>1. m \in Modules /\ m \in Held /\ v \in Modules
      BY <1>2, <1>6
  <2>2. ASSUME NEW n \in C PROVE n \in Reach(m) /\ m \in Reach(n)
    <3>1. n \in Modules
        BY <1>6
    <3> QED
        BY <1>11, <2>1, <3>1, Reaching
  <2>3. ASSUME NEW n \in Reach(m), m \in Reach(n), n \notin C PROVE FALSE
    <3>1. Reach(m) \subseteq C \cup Popped
        BY <1>10, <2>1, Reaching
    <3>2. n \in Popped /\ n \in Modules
        BY <1>6, <2>3, <3>1 DEF Popped
    <3>3. Reach(n) \subseteq Popped
        BY <1>1, <3>2, Reaching DEF FinishedIsClosed
    <3> QED
        BY <2>1, <2>3, <3>3 DEF Popped
  <2> QED
      BY <2>2, <2>3 DEF Component
<1>13. Numbered'
    BY <1>0, <1>1, <1>2, <1>4, <1>5, <1>6, <1>7 DEF Numbered
<1>14. Stacked'
    BY <1>0, <1>5, <1>6 DEF Stacked
<1>15. \A i \in 1 .. k - 1 : Of(i) \in Held' /\ Of(i)' \in Held'
    BY <1>2, <1>5
<1>16. Calling'
  <2>4. \A i \in 1 .. k - 1 : i \in DOMAIN frames /\ Of(i)' = Of(i) /\ frames'[i] = frames[i]
      BY <1>2
  <2>5. /\ \A i \in DOMAIN frames : frames[i].todo \subseteq Adjacent(Of(i))
        /\ \A i, j \in DOMAIN frames : i < j => index[Of(i)] < index[Of(j)]
        /\ \A i \in DOMAIN frames : i + 1 \in DOMAIN frames => Of(i + 1) \in Adjacent(Of(i))
      BY <1>1 DEF Calling
  <2>1. \A i \in 1 .. k - 1 : frames'[i].todo \subseteq Adjacent(Of(i)')
      BY <2>4, <2>5
  <2>2. \A i, j \in 1 .. k - 1 : i < j => index[Of(i)'] < index[Of(j)']
      BY <2>4, <2>5
  <2>3. \A i \in 1 .. k - 1 : i + 1 \in 1 .. k - 1 => Of(i + 1)' \in Adjacent(Of(i)')
      BY <2>4, <2>5
  <2> QED
      BY <1>0, <1>2, <1>5, <1>15, <2>1, <2>2, <2>3 DEF Calling, Frame
<1>17. EdgesAreMet'
    BY <1>0, <1>1, <1>2, <1>6 DEF EdgesAreMet
<1>18. FinishedIsClosed'
    BY <1>0, <1>6, <1>10 DEF FinishedIsClosed
<1>19. CallsLeadUp'
    BY <1>0, <1>1, <1>2, <1>5 DEF CallsLeadUp
<1>24. \A i \in 1 .. k - 1 : Of(i)' = Of(i) /\ index'[Of(i)'] = index[Of(i)] /\ low'[Of(i)'] = low[Of(i)]
    BY <1>2, <1>5, <1>7
<1>20. AllLeadsDown'
  <2> SUFFICES ASSUME NEW s \in B
               PROVE  \E i \in 1 .. k - 1 : index[Of(i)] <= index[s] /\ Of(i) \in Reach(s)
    <3> HIDE DEF B
    <3>1. \A s \in B : \E i \in 1 .. k - 1 : index'[Of(i)'] <= index'[s] /\ Of(i)' \in Reach(s)'
        BY <1>0, <1>5, <1>24
    <3> QED
        BY <1>2, <1>5, <3>1 DEF AllLeadsDown
  <2>1. PICK i \in DOMAIN frames : index[Of(i)] <= index[s] /\ Of(i) \in Reach(s)
      BY <1>1 DEF AllLeadsDown
  <2>2. i # k
      BY <1>2, <1>4, <1>6, <2>1
  <2> QED
      BY <1>2, <1>8, <2>1, <2>2
<1>21. LowIsReached'
  <2> SUFFICES ASSUME NEW i \in 1 .. k - 1
               PROVE  \E y \in B : index[y] = low[Of(i)] /\ y \in Reach(Of(i))
    <3> HIDE DEF B
    <3>1. \A i \in 1 .. k - 1 : \E y \in B : index'[y] = low'[Of(i)'] /\ y \in Reach(Of(i)')
        BY <1>5, <1>24
    <3>2. \A m : Reach(m)' = Reach(m)
        BY <1>0
    <3> QED
        BY <1>2, <1>5, <1>24, <3>1, <3>2 DEF LowIsReached
  <2>1. PICK y \in Held : index[y] = low[Of(i)] /\ y \in Reach(Of(i))
      BY <1>1, <1>2 DEF LowIsReached
  <2>2. low[Of(i)] <= index[Of(i)] /\ index[Of(i)] < index[v] /\ Of(i) \in Met
      BY <1>2, <1>4
  <2>3. index[y] < index[v]
      BY <1>2, <1>4, <2>1, <2>2
  <2> QED
      BY <2>1, <2>3
<1>22. LowIsLeast'
  <2>1. ASSUME NEW i \in 1 .. k - 1, NEW s \in B, InSegment(i, s)' PROVE InSegment(i, s)
    <3>1. /\ index[Of(i)] <= index[s]
          /\ \A j \in 1 .. k - 1 : i < j => index[s] < index[Of(j)]
        BY <1>2, <1>5, <2>1 DEF InSegment
    <3>2. index[s] < index[Of(k)]
        BY <1>2
    <3>3. \A j \in 1 .. k : i < j => index[s] < index[Of(j)]
        BY <1>8, <3>1, <3>2
    <3> QED
        BY <1>2, <3>1, <3>3 DEF InSegment
  <2>2. ASSUME NEW i \in 1 .. k - 1, NEW s \in B, NEW y \in B,
               InSegment(i, s)', y \in Adjacent(s), ~ IsLeft(s, y)
        PROVE  low[Of(i)] <= index[y]
    <3>1. InSegment(i, s)
        BY <2>1, <2>2
    <3> QED
        BY <1>1, <1>2, <2>2, <3>1 DEF LowIsLeast
  <2>3. \A i \in 1 .. k - 1 : \A s, y \in B :
            InSegment(i, s)' /\ y \in Adjacent(s)' /\ ~ IsLeft(s, y)' => low'[Of(i)'] <= index'[y]
    <3>1. \A s : Adjacent(s)' = Adjacent(s)
        BY <1>0
    <3>2. \A s \in B : \A y : IsLeft(s, y)' <=> IsLeft(s, y)
        BY <1>2
    <3> HIDE DEF B
    <3> QED
        BY <1>5, <1>24, <2>2, <3>1, <3>2
  <2> HIDE DEF B
  <2> QED
      BY <1>2, <1>5, <2>3 DEF LowIsLeast
<1>23. ComponentsAreFound'
  <2>1. \A m : Component(m)' = Component(m)
      BY <1>0 DEF Component
  <2>2. \A D \in sccs : D # {} /\ D \subseteq Popped' /\ \A m \in D : D = Component(m)
      BY <1>1, <1>6 DEF ComponentsAreFound
  <2>3. C # {} /\ C \subseteq Popped' /\ \A m \in C : C = Component(m)
      BY <1>6, <1>12
  <2>4. \A x \in Popped' : \E D \in sccs' : x \in D
      BY <1>1, <1>5, <1>6 DEF ComponentsAreFound
  <2> QED
      BY <1>5, <2>1, <2>2, <2>3, <2>4 DEF ComponentsAreFound
<1> QED
    BY <1>13, <1>14, <1>16, <1>17, <1>18, <1>19, <1>20, <1>21, <1>22, <1>23 DEF TarjanInv

\* A call that is no root returns: what it leads to is its caller's.
LEMMA Backed ==
    ASSUME project \in Projects, TarjanInv, frames # <<>>, Return, UNCHANGED <<project, verb>>, verb = "cycles",
           low[Of(Len(frames))] # index[Of(Len(frames))]
    PROVE  TarjanInv'
<1>0. /\ Modules' = Modules /\ \A m : Adjacent(m)' = Adjacent(m) /\ Reach(m)' = Reach(m)
    BY FixedImports
<1>1. /\ Numbered /\ Stacked /\ Calling
      /\ EdgesAreMet /\ FinishedIsClosed /\ CallsLeadUp /\ AllLeadsDown
      /\ LowIsReached /\ LowIsLeast /\ ComponentsAreFound
    BY DEF TarjanInv
<1>2. PICK k, v :
              /\ k \in Nat \ {0} /\ k = Len(frames) /\ k \in DOMAIN frames /\ DOMAIN frames = 1 .. k
              /\ v = Of(k) /\ v \in Held /\ v \in Met /\ frames[k].todo = {}
              /\ frames' \in Seq(Frame) /\ DOMAIN frames' = 1 .. k - 1
              /\ \A i \in 1 .. k - 1 :
                    /\ i \in DOMAIN frames /\ Of(i)' = Of(i) /\ frames'[i] = frames[i]
                    /\ Of(i) \in Held /\ Of(i) \in Met /\ index[Of(i)] < index[v]
              /\ \A s, y : IsLeft(s, y)' <=> IsLeft(s, y)
              /\ \A y : ~ IsLeft(v, y)
              /\ DOMAIN low' = Met
              /\ \A m \in Met : /\ low'[m] \in Nat /\ low'[m] <= low[m]
                                /\ low'[m] = low[m] \/ (k # 1 /\ m = Of(k - 1) /\ low'[m] = low[v])
              /\ k # 1 => low'[Of(k - 1)] <= low[v]
    BY <1>1, Returned
<1>3. UNCHANGED <<index, stack, sccs>>
    BY <1>2 DEF Return, Of
<1>4. /\ \A m \in Met : index[m] \in Nat /\ low[m] \in Nat /\ low[m] <= index[m]
      /\ Held \subseteq Met /\ Met \subseteq Modules
    BY <1>1 DEF Numbered, Stacked
<1>5. Met' = Met /\ Held' = Held /\ Popped' = Popped
    BY <1>3 DEF Met, Held, Popped
<1>6. \A i \in 1 .. k : i = k \/ i \in 1 .. k - 1
    BY <1>2
<1>7. PICK y0 \in Held : index[y0] = low[v] /\ y0 \in Reach(v)
    BY <1>1, <1>2 DEF LowIsReached
<1>8. index[y0] < index[v] /\ low[v] < index[v] /\ v \in Modules
    BY <1>2, <1>4, <1>7
<1>9. PICK g \in 1 .. k - 1 : index[Of(g)] <= index[y0] /\ Of(g) \in Reach(y0)
  <2>1. PICK i \in DOMAIN frames : index[Of(i)] <= index[y0] /\ Of(i) \in Reach(y0)
      BY <1>1, <1>7 DEF AllLeadsDown
  <2>2. i # k
      BY <1>2, <1>4, <1>7, <1>8, <2>1
  <2> QED
      BY <1>2, <1>6, <2>1, <2>2
<1>10. k - 1 \in 1 .. k - 1 /\ k # 1 /\ (k - 1) + 1 = k /\ k - 1 \in Nat
  <2>1. k \in Nat \ {0} /\ g \in 1 .. k - 1
      BY <1>2
  <2>2. g \in Int /\ 1 <= g /\ g <= k - 1 /\ k \in Int
      BY <2>1
  <2>3. 1 <= k - 1
      BY <2>2
  <2> QED
      BY <2>2, <2>3
<1>11. PICK u : u = Of(k - 1)
    OBVIOUS
<1>12. u \in Held /\ u \in Met /\ u \in Modules /\ v \in Adjacent(u) /\ v \in Reach(u) /\ index[u] < index[v]
  <2>1. u \in Held /\ u \in Met /\ u \in Modules /\ index[u] < index[v]
      BY <1>2, <1>4, <1>10, <1>11
  <2>2. v \in Adjacent(u)
      BY <1>1, <1>2, <1>10, <1>11 DEF Calling
  <2> QED
      BY <2>1, <2>2, Reaching
<1>13. Of(g) \in Reach(v) /\ index[Of(g)] < index[v]
  <2>1. Of(g) \in Met
      BY <1>2
  <2> QED
      BY <1>2, <1>4, <1>7, <1>8, <1>9, <2>1, Reaching
<1>14. Numbered'
  <2>1. ASSUME NEW m \in Met PROVE low'[m] <= index[m]
    <3>1. low'[m] \in Nat /\ low[m] \in Nat /\ index[m] \in Nat /\ low'[m] <= low[m] /\ low[m] <= index[m]
        BY <1>2, <1>4
    <3> QED
        BY <3>1
  <2> QED
      BY <1>0, <1>1, <1>2, <1>3, <1>5, <2>1 DEF Numbered
<1>15. Stacked'
    BY <1>0, <1>1, <1>3, <1>5 DEF Stacked
<1>16. Calling'
  <2>4. \A i \in 1 .. k - 1 : i \in DOMAIN frames /\ Of(i)' = Of(i) /\ frames'[i] = frames[i]
      BY <1>2
  <2>5. /\ \A i \in DOMAIN frames : frames[i].todo \subseteq Adjacent(Of(i))
        /\ \A i, j \in DOMAIN frames : i < j => index[Of(i)] < index[Of(j)]
        /\ \A i \in DOMAIN frames : i + 1 \in DOMAIN frames => Of(i + 1) \in Adjacent(Of(i))
      BY <1>1 DEF Calling
  <2>1. \A i \in 1 .. k - 1 : frames'[i].todo \subseteq Adjacent(Of(i)')
      BY <2>4, <2>5
  <2>2. \A i, j \in 1 .. k - 1 : i < j => index[Of(i)'] < index[Of(j)']
      BY <2>4, <2>5
  <2>3. \A i \in 1 .. k - 1 : i + 1 \in 1 .. k - 1 => Of(i + 1)' \in Adjacent(Of(i)')
      BY <2>4, <2>5
  <2> QED
      BY ZenonT(40), <1>0, <1>2, <1>3, <1>5, <2>1, <2>2, <2>3 DEF Calling, Frame
<1>17. EdgesAreMet'
    BY <1>0, <1>1, <1>2, <1>5 DEF EdgesAreMet
<1>18. FinishedIsClosed'
    BY <1>0, <1>1, <1>5 DEF FinishedIsClosed
<1>19. CallsLeadUp'
    BY <1>0, <1>1, <1>2, <1>3, <1>5 DEF CallsLeadUp
<1>20. AllLeadsDown'
  <2>1. ASSUME NEW s \in Held
        PROVE  \E i \in 1 .. k - 1 : index[Of(i)] <= index[s] /\ Of(i) \in Reach(s)
    <3>1. PICK i \in DOMAIN frames : index[Of(i)] <= index[s] /\ Of(i) \in Reach(s)
        BY <1>1 DEF AllLeadsDown
    <3>2. CASE i # k
        BY <1>2, <1>6, <3>1, <3>2
    <3>3. CASE i = k
      <4>1. v \in Reach(s) /\ index[v] <= index[s] /\ s \in Modules /\ s \in Met
          BY <1>2, <1>4, <3>1, <3>3
      <4>2. Of(g) \in Reach(s)
          BY <1>13, <4>1, Reaching
      <4>3. index[Of(g)] <= index[s]
        <5>1. Of(g) \in Met
            BY <1>2
        <5> QED
            BY <1>2, <1>4, <1>13, <4>1, <5>1
      <4> QED
          BY <4>2, <4>3
    <3> QED
        BY <3>2, <3>3
  <2>2. \A s \in Held : \E i \in 1 .. k - 1 : index'[Of(i)'] <= index'[s] /\ Of(i)' \in Reach(s)'
      BY ZenonT(40), <1>0, <1>2, <1>3, <2>1
  <2> QED
      BY <1>2, <1>5, <2>2 DEF AllLeadsDown
<1>21. LowIsReached'
  <2>1. ASSUME NEW i \in 1 .. k - 1
        PROVE  \E y \in Held : index[y] = low'[Of(i)] /\ y \in Reach(Of(i))
    <3>1. CASE low'[Of(i)] = low[Of(i)]
        BY <1>1, <1>2, <3>1 DEF LowIsReached
    <3>2. CASE low'[Of(i)] # low[Of(i)]
      <4>1. Of(i) = u /\ low'[Of(i)] = low[v]
          BY <1>2, <1>11, <3>2
      <4>2. y0 \in Reach(u)
          BY <1>7, <1>12, Reaching
      <4> QED
          BY <1>7, <4>1, <4>2
    <3> QED
        BY <3>1, <3>2
  <2>2. \A i \in 1 .. k - 1 : \E y \in Held : index'[y] = low'[Of(i)'] /\ y \in Reach(Of(i)')
      BY <1>2, <1>3, <2>1
  <2>3. \A m : Reach(m)' = Reach(m)
      BY <1>0
  <2>4. \A i \in 1 .. k - 1 : Of(i)' = Of(i)
      BY <1>2
  <2> QED
      BY <1>2, <1>5, <2>2, <2>3, <2>4 DEF LowIsReached
<1>22. LowIsLeast'
  <2> SUFFICES ASSUME NEW i \in 1 .. k - 1, NEW s \in Held, NEW y \in Held,
                      InSegment(i, s)', y \in Adjacent(s), ~ IsLeft(s, y)
               PROVE  low'[Of(i)] <= index[y]
      BY <1>0, <1>2, <1>3, <1>5 DEF LowIsLeast
  <2>1. /\ index[Of(i)] <= index[s]
        /\ \A j \in 1 .. k - 1 : i < j => index[s] < index[Of(j)]
      BY <1>2, <1>3 DEF InSegment
  <2>2. Of(i) \in Met /\ y \in Met /\ s \in Met
      BY <1>2, <1>4
  <2>3. CASE index[s] < index[v]
    <3>1. \A j \in 1 .. k : i < j => index[s] < index[Of(j)]
        BY <1>2, <1>6, <2>1, <2>3
    <3>2. InSegment(i, s)
        BY <1>2, <2>1, <3>1 DEF InSegment
    <3>3. low[Of(i)] <= index[y]
        BY <1>1, <1>2, <3>2 DEF LowIsLeast
    <3>4. low'[Of(i)] <= low[Of(i)] /\ low'[Of(i)] \in Nat /\ low[Of(i)] \in Nat /\ index[y] \in Nat
        BY <1>2, <1>4, <2>2
    <3> QED
        BY <3>3, <3>4
  <2>4. CASE ~ (index[s] < index[v])
    <3>1. i = k - 1
      <4>1. ASSUME i < k - 1 PROVE FALSE
        <5>1. index[s] < index[u]
            BY <1>10, <1>11, <2>1, <4>1
        <5> QED
            BY <1>2, <1>4, <1>12, <2>2, <2>4, <5>1
      <4> QED
          BY <1>2, <1>10, <4>1
    <3>2. InSegment(k, s)
      <4>1. \A j \in DOMAIN frames : ~ (k < j)
          BY <1>2
      <4>2. index[v] <= index[s]
          BY <1>2, <1>4, <2>2, <2>4
      <4> QED
          BY <1>2, <4>1, <4>2 DEF InSegment
    <3>3. low[v] <= index[y]
        BY <1>1, <1>2, <3>2 DEF LowIsLeast
    <3>4. low'[Of(i)] <= low[v] /\ low'[Of(i)] \in Nat /\ low[v] \in Nat /\ index[y] \in Nat
        BY <1>2, <1>4, <1>10, <2>2, <3>1
    <3> QED
        BY <3>3, <3>4
  <2> QED
      BY <2>3, <2>4
<1>23. ComponentsAreFound'
  <2>1. \A m : Component(m)' = Component(m)
      BY <1>0 DEF Component
  <2> QED
      BY <1>1, <1>3, <1>5, <2>1 DEF ComponentsAreFound
<1> QED
    BY <1>14, <1>15, <1>16, <1>17, <1>18, <1>19, <1>20, <1>21, <1>22, <1>23 DEF TarjanInv

\* Nothing of the search changes.
LEMMA TarjanStays ==
    ASSUME TarjanInv, UNCHANGED <<project, tarjanVars>>, verb' = "cycles" \/ NoTarjan
    PROVE  TarjanInv'
<1>0. /\ Modules' = Modules /\ \A m : Adjacent(m)' = Adjacent(m) /\ Reach(m)' = Reach(m)
    BY FixedImports
<1>1. /\ UNCHANGED <<frames, index, low, stack, sccs>>
      /\ Met' = Met /\ Held' = Held /\ Popped' = Popped
      /\ \A i : Of(i)' = Of(i)
      /\ \A s, y : IsLeft(s, y)' <=> IsLeft(s, y)
      /\ \A i, s : InSegment(i, s)' <=> InSegment(i, s)
      /\ \A m : Component(m)' = Component(m)
    BY <1>0 DEF tarjanVars, Met, Held, Popped, Of, IsLeft, InSegment, Component
<1>2. /\ Numbered /\ Stacked /\ Calling
      /\ EdgesAreMet /\ FinishedIsClosed /\ CallsLeadUp /\ AllLeadsDown
      /\ LowIsReached /\ LowIsLeast /\ ComponentsAreFound
    BY DEF TarjanInv
<1>3. Numbered' /\ Stacked'
    BY <1>0, <1>1, <1>2 DEF Numbered, Stacked
<1>4. Calling'
    BY <1>0, <1>1, <1>2 DEF Calling, Frame
<1>5. EdgesAreMet' /\ FinishedIsClosed'
    BY <1>0, <1>1, <1>2 DEF EdgesAreMet, FinishedIsClosed
<1>6. CallsLeadUp'
    BY <1>0, <1>1, <1>2 DEF CallsLeadUp
<1>7. AllLeadsDown'
    BY <1>0, <1>1, <1>2 DEF AllLeadsDown
<1>8. LowIsReached'
    BY <1>0, <1>1, <1>2 DEF LowIsReached
<1>9. LowIsLeast'
    BY <1>0, <1>1, <1>2 DEF LowIsLeast
<1>10. ComponentsAreFound'
    BY <1>1, <1>2 DEF ComponentsAreFound
<1>11. verb' # "cycles" => NoTarjan'
    BY <1>1 DEF NoTarjan
<1> QED
    BY <1>3, <1>4, <1>5, <1>6, <1>7, <1>8, <1>9, <1>10, <1>11 DEF TarjanInv

\* No component is found at first.
LEMMA TarjanFirst == Init => TarjanInv
<1>1. Init => NoTarjan
    BY DEF Init
<1> QED
    BY <1>1, NothingMet DEF TarjanInv

\* It is inductive.
LEMMA TarjanNext == Given /\ TarjanInv /\ [Next]_vars => TarjanInv'
<1> SUFFICES ASSUME Given, TarjanInv, [Next]_vars PROVE TarjanInv'
    OBVIOUS
<1>0. project \in Projects
    BY DEF Given
<1>1. CASE Ask
  <2>1. verb # "cycles" /\ UNCHANGED <<project, tarjanVars>>
      BY <1>1, NoneIsNoVerb DEF Ask, Verbs
  <2>2. NoTarjan
      BY <2>1 DEF TarjanInv
  <2> QED
      BY <2>1, <2>2, TarjanStays
<1>2. CASE Walk
  <2>1. UNCHANGED <<project, verb, tarjanVars>>
      BY <1>2 DEF Walk
  <2> QED
      BY <2>1, TarjanStays DEF TarjanInv
<1>3. CASE FindComponents
  <2>1. verb = "cycles" /\ UNCHANGED <<project, verb>> /\ (Root \/ Edgewise \/ Return)
      BY <1>3 DEF FindComponents
  <2>2. Numbered /\ Stacked /\ Calling
      BY DEF TarjanInv
  <2>3. CASE Root
    <3>1. PICK v \in Modules \ DOMAIN index : frames = <<>> /\ Enter(v, frames)
        BY <2>3 DEF Root
    <3>2. Entering(frames, v)
        BY <2>2, <3>1 DEF Entering, Calling, Met, Of
    <3> QED
        BY <1>0, <2>1, <3>1, <3>2, Entered
  <2>4. CASE Edgewise
    <3>1. frames # <<>>
        BY <2>4 DEF Edgewise
    <3>2. PICK w \in frames[Len(frames)].todo :
            LET calls == [frames EXCEPT ![Len(frames)].todo = @ \ {w}] IN
            IF w \notin DOMAIN index THEN Enter(w, calls)
            ELSE /\ frames' = calls
                 /\ low' = IF OnStack(w)
                           THEN [low EXCEPT ![frames[Len(frames)].node] = Min({@, index[w]})] ELSE low
                 /\ UNCHANGED <<index, stack, sccs>>
        BY <2>4 DEF Edgewise
    <3>3. CASE w \in DOMAIN index
      <4>1. LooksAt(w)
          BY <3>1, <3>2, <3>3 DEF LooksAt, Met
      <4> QED
          BY <1>0, <2>1, <4>1, Looked
    <3>4. CASE w \notin DOMAIN index
      <4>1. PICK calls : calls = [frames EXCEPT ![Len(frames)].todo = @ \ {w}]
          OBVIOUS
      <4>2. /\ calls \in Seq(Frame) /\ DOMAIN calls = DOMAIN frames /\ Len(calls) = Len(frames)
            /\ \A i \in DOMAIN frames :
                 /\ calls[i].node = frames[i].node
                 /\ calls[i].todo = IF i = Len(frames) THEN frames[i].todo \ {w} ELSE frames[i].todo
          BY <2>2, <3>1, <4>1, OneLess
      <4>3. /\ Len(frames) \in DOMAIN frames /\ w \in Adjacent(Of(Len(frames)))
            /\ w \in Modules
        <5>1. Len(frames) \in DOMAIN frames /\ w \in Adjacent(Of(Len(frames)))
            BY <2>2, <3>1, Innermost DEF Calling
        <5> QED
            BY <5>1 DEF Adjacent
      <4>4. Enter(w, calls)
          BY <3>2, <3>4, <4>1
      <4>5. ASSUME NEW i \in DOMAIN frames
            PROVE  /\ calls[i].node = Of(i) /\ calls[i].todo \subseteq frames[i].todo
                   /\ frames[i].todo \subseteq calls[i].todo \cup {w}
        <5>1. calls[i].todo = frames[i].todo \ {w} \/ calls[i].todo = frames[i].todo
            BY <4>2
        <5> QED
            BY <4>2, <5>1 DEF Of
      <4>6. Entering(calls, w)
          BY <3>4, <4>2, <4>3, <4>5 DEF Entering, Met
      <4> QED
          BY <1>0, <2>1, <4>4, <4>6, Entered
    <3> QED
        BY <3>3, <3>4
  <2>5. CASE Return
    <3>1. frames # <<>>
        BY <2>5 DEF Return
    <3> QED
        BY <1>0, <2>1, <2>5, <3>1, Rooted, Backed
  <2> QED
      BY <2>1, <2>3, <2>4, <2>5
<1>4. CASE Exit
  <2>1. verb' = None /\ UNCHANGED project
      BY <1>4 DEF Exit
  <2>2. verb' # "cycles"
      BY <2>1, NoneIsNoVerb DEF Verbs
  <2>3. CASE verb = "cycles"
    <3>1. NoTarjan'
        BY <1>4, <2>3 DEF Exit, NoTarjan
    <3>2. /\ Numbered' /\ Stacked' /\ Calling'
          /\ EdgesAreMet' /\ FinishedIsClosed' /\ CallsLeadUp' /\ AllLeadsDown'
          /\ LowIsReached' /\ LowIsLeast' /\ ComponentsAreFound'
        BY <3>1, NothingMet, PTL
    <3> QED
        BY <3>1, <3>2 DEF TarjanInv
  <2>4. CASE verb # "cycles"
    <3>1. UNCHANGED tarjanVars /\ NoTarjan
        BY <1>4, <2>4 DEF Exit, TarjanInv
    <3> QED
        BY <2>1, <3>1, TarjanStays
  <2> QED
      BY <2>3, <2>4
<1>5. CASE UNCHANGED vars
    BY <1>5, TarjanStays DEF vars, TarjanInv
<1> QED
    BY <1>1, <1>2, <1>3, <1>4, <1>5 DEF Next

-----------------------------------------------------------------------------
(* All of the state, at any moment *)

\* So does what tarjan_scc keeps: the modules on the stack, the calls that are open, the low
\* links and the components found so far.
THEOREM ComponentsInvariance == Spec => [](QInv /\ TarjanInv)
<1>1. Init => QInv /\ TarjanInv
    BY GivenFirst, InitInv, ShapeFirst, LayersFirst, NearestFirst, TarjanFirst DEF QInv
<1>2. QInv /\ TarjanInv /\ [Next]_vars => QInv' /\ TarjanInv'
    BY GivenNext, NextInv, ShapeNext, LayersNext, NearestNext, TarjanNext DEF QInv
<1> QED
    BY <1>1, <1>2, PTL DEF Spec

\* Where definitions are asked about.
LEMMA GoalsInIndex ==
    ASSUME Given, verb \in Verbs \ {"cycles"}
    PROVE  goal.from \subseteq Anchors
<1>1. Defs \subseteq Anchors /\ StartAnchors(goal.symbol) \subseteq Defs
    BY DEF Defs, OfKind, StartAnchors
<1>2. verb \in {"graph", "tests", "deadcode", "canonical"} \cup SweepVerbs
    BY DEF Verbs
<1> QED
    BY <1>1, <1>2 DEF Given

\* The invariant says of every variable what its type says.
LEMMA TypesAnswer == QInv /\ TarjanInv => TypeOK
<1> SUFFICES ASSUME QInv, TarjanInv PROVE TypeOK
    OBVIOUS
<1>0. Given /\ IInv /\ Shape /\ LayerInv /\ project \in Projects /\ recording = Record
    BY DEF QInv, Given
<1>1. DOMAIN recording.outgoing = Anchors /\ DOMAIN recording.incoming = Anchors
    BY <1>0 DEF Record
<1>2. verb \in Verbs \cup {None}
    BY <1>0 DEF Given
<1>3. IF verb \in Verbs \ {"cycles"} THEN goal.from \subseteq Anchors ELSE goal = None
    BY <1>0, GoalsInIndex DEF Given
<1>4. seeds \subseteq Anchors /\ todo \subseteq Anchors /\ visited \subseteq FqnsOf(Anchors)
    BY <1>0, InIndex
<1>5. \A i \in DOMAIN queue : queue[i].at \in Anchors /\ Fqn(queue[i].at) \in visited
  <2>1. queue \in Seq(Item)
      BY <1>0 DEF Shape
  <2>2. \A i \in DOMAIN queue : queue[i] \in Item
      BY <2>1
  <2> QED
      BY <1>0, <2>2 DEF Shape, Item
<1>6. ASSUME NEW n \in nodes PROVE n.at \in Anchors /\ n.depth \in 1 .. Cardinality(Anchors)
  <2>1. verb \in Closures /\ Layered
      BY <1>0, <1>6 DEF Shape, LayerInv
  <2>2. goal.from \subseteq Anchors
      BY <1>0, <2>1, GoalsInIndex DEF Closures, Verbs
  <2>3. FoundByAnEdge(n) /\ Found(n.at, n.depth)
      BY <2>1 DEF Layered, Found
  <2>4. IsFiniteSet(Anchors)
      BY <1>0, EveryProjectIsIndexed DEF Indexed, Anchors, Nodes
  <2>5. Cardinality(Anchors) \in Nat /\ n.depth + 1 <= Cardinality(Anchors)
      BY <2>1, <2>2, <2>3, <2>4, DistanceBound
  <2>6. n.at \in Anchors /\ n.depth \in Nat \ {0}
      BY <2>3 DEF FoundByAnEdge
  <2> QED
      BY <2>5, <2>6
<1>7. DOMAIN low = DOMAIN index /\ DOMAIN index \subseteq Modules
    BY DEF TarjanInv, Numbered, Met
<1>8. ASSUME NEW m \in DOMAIN index PROVE low[m] <= index[m] /\ index[m] < Cardinality(Modules)
  <2>1. IsFiniteSet(Modules) /\ Met \in SUBSET Modules
      BY <1>0, <1>7, RunsAre DEF Met
  <2>2. Cardinality(Met) <= Cardinality(Modules) /\ Cardinality(Met) \in Nat /\ Cardinality(Modules) \in Nat
      BY <2>1, FS_Subset, FS_CardinalityType
  <2>3. index[m] \in Nat /\ index[m] < Cardinality(Met) /\ low[m] <= index[m]
      BY <1>8 DEF TarjanInv, Numbered, Met
  <2> QED
      BY <2>2, <2>3
<1>9. \A i \in DOMAIN frames : Member(stack, frames[i].node)
    BY DEF TarjanInv, Calling, Held, Of, Member
<1> QED
    BY <1>1, <1>2, <1>3, <1>4, <1>5, <1>6, <1>7, <1>8, <1>9 DEF TypeOK

\* At any moment of any query: the recording is of the definitions there are; what waits,
\* what was found and how far away is of the index and within its size, and nothing waits
\* whose name was not noted; each open call of tarjan_scc is of a module on the stack, and
\* its numbers are below that of the modules.
THEOREM QueriesTypeCorrect == Spec => []TypeOK
<1> QED
    BY ComponentsInvariance, TypesAnswer, PTL

-----------------------------------------------------------------------------
(* What imports what *)

\* What m imports leads to; m itself only if it leads back.
Leads(m) == Reached(Runs, Adjacent(m))

\* What a module leads to: the least set that its edges do not leave.
LEMMA LeadsAre ==
    ASSUME project \in Projects, NEW m \in Modules
    PROVE  /\ Leads(m) \subseteq Modules /\ Adjacent(m) \subseteq Leads(m)
           /\ \A x \in Leads(m) : Adjacent(x) \subseteq Leads(m)
           /\ \A C : Adjacent(m) \subseteq C /\ (\A x \in C \cap Modules : Adjacent(x) \subseteq C) => Leads(m) \subseteq C
           /\ Leads(m) = Reached(Runs, Runs[m])
<1>1. /\ IsGraph(Runs) /\ DOMAIN Runs = Modules
      /\ \A x \in Modules : Runs[x] = Adjacent(x) /\ Adjacent(x) \subseteq Modules
    BY RunsAre
<1> DEFINE S == Adjacent(m)
<1>2. S \in SUBSET DOMAIN Runs
    BY <1>1
<1> HIDE DEF S
<1>3. /\ S \subseteq Reached(Runs, S) /\ Reached(Runs, S) \subseteq DOMAIN Runs
      /\ \A x \in Reached(Runs, S) : Runs[x] \subseteq Reached(Runs, S)
      /\ \A C : S \subseteq C /\ (\A x \in C \cap DOMAIN Runs : Runs[x] \subseteq C) => Reached(Runs, S) \subseteq C
    BY <1>1, <1>2, ReachedIs
<1>4. Leads(m) = Reached(Runs, S)
    BY DEF Leads, S
<1>5. Runs[m] = S
    BY <1>1 DEF S
<1>6. \A x \in Reached(Runs, S) : Adjacent(x) \subseteq Reached(Runs, S)
    BY <1>1, <1>3
<1>7. \A C : S \subseteq C /\ (\A x \in C \cap Modules : Adjacent(x) \subseteq C) => Reached(Runs, S) \subseteq C
    BY <1>1, <1>3
<1> QED
    BY <1>1, <1>3, <1>4, <1>5, <1>6, <1>7 DEF S

\* A module leads to itself or to what its imports lead to; what a module leads to leads no further.
LEMMA LeadsOn ==
    ASSUME project \in Projects
    PROVE  /\ \A m \in Modules : \A n : n \in Reach(m) <=> n = m \/ n \in Leads(m)
           /\ \A m \in Modules : \A n \in Leads(m) : Leads(n) \subseteq Leads(m)
<1>1. ASSUME NEW m \in Modules PROVE \A n \in Leads(m) : Leads(n) \subseteq Leads(m)
  <2>1. Leads(m) \subseteq Modules /\ \A x \in Leads(m) : Adjacent(x) \subseteq Leads(m)
      BY <1>1, LeadsAre
  <2> SUFFICES ASSUME NEW n \in Leads(m) PROVE Leads(n) \subseteq Leads(m)
      OBVIOUS
  <2>2. n \in Modules /\ Adjacent(n) \subseteq Leads(m)
      BY <2>1
  <2> QED
      BY <2>1, <2>2, LeadsAre
<1>2. ASSUME NEW m \in Modules PROVE \A n : n \in Reach(m) <=> n = m \/ n \in Leads(m)
  <2>1. /\ m \in Reach(m)
        /\ \A b \in Reach(m) : Adjacent(b) \subseteq Reach(m)
      BY <1>2, Reaching
  <2>2. Adjacent(m) \subseteq Leads(m) /\ \A x \in Leads(m) : Adjacent(x) \subseteq Leads(m)
      BY <1>2, LeadsAre
  <2>3. Leads(m) \subseteq Reach(m)
      BY <1>2, <2>1, LeadsAre
  <2> DEFINE C == {m} \cup Leads(m)
  <2>4. m \in C \cap Modules /\ \A x \in C : Adjacent(x) \subseteq C
      BY <1>2, <2>2
  <2> HIDE DEF C
  <2>5. Reach(m) \subseteq C
      BY <2>4, Reaching
  <2> QED
      BY <2>1, <2>3, <2>5 DEF C
<1> QED
    BY <1>1, <1>2

\* The modules that lead to m and back.
LEMMA ComponentIs ==
    ASSUME project \in Projects, NEW m \in Modules
    PROVE  /\ Component(m) = {m} \cup {n \in Leads(m) : m \in Leads(n)}
           /\ Component(m) \subseteq Modules /\ m \in Component(m)
           /\ \A n \in Component(m) : n # m => m \in Leads(m) /\ n \in Leads(n)
<1>1. Leads(m) \subseteq Modules /\ m \in Modules
    BY LeadsAre
<1>2. \A n : n \in Component(m) <=> n \in Reach(m) /\ m \in Reach(n)
    BY DEF Component
<1>3. \A n : n \in Reach(m) <=> n = m \/ n \in Leads(m)
    BY LeadsOn
<1>4. \A n \in Modules : m \in Reach(n) <=> m = n \/ m \in Leads(n)
    BY LeadsOn
<1>5. \A n : n \in Component(m) <=> n = m \/ (n \in Leads(m) /\ m \in Leads(n))
    BY <1>1, <1>2, <1>3, <1>4
<1>6. ASSUME NEW n \in Component(m), n # m PROVE m \in Leads(m) /\ n \in Leads(n)
  <2>1. n \in Leads(m) /\ m \in Leads(n) /\ n \in Modules
      BY <1>1, <1>5, <1>6
  <2>2. Leads(n) \subseteq Leads(m) /\ Leads(m) \subseteq Leads(n)
      BY <1>1, <2>1, LeadsOn
  <2> QED
      BY <2>1, <2>2
<1> QED
    BY <1>1, <1>5, <1>6

\* A module leads to itself just when it imports one of its component.
LEMMA OwnWay ==
    ASSUME project \in Projects, NEW m \in Modules
    PROVE  m \in Leads(m) <=> Adjacent(m) \cap Component(m) # {}
<1>0. /\ Leads(m) \subseteq Modules /\ Adjacent(m) \subseteq Leads(m)
      /\ \A x \in Leads(m) : Adjacent(x) \subseteq Leads(m)
    BY LeadsAre
<1>1. ASSUME NEW a \in Adjacent(m), a \in Component(m) PROVE m \in Leads(m)
  <2>1. a \in Leads(m)
      BY <1>0
  <2> QED
      BY <1>1, <2>1, ComponentIs
<1>2. ASSUME m \in Leads(m), Adjacent(m) \cap Component(m) = {} PROVE FALSE
  <2> DEFINE C == {x \in Leads(m) : m \notin Reach(x)}
  <2>1. ASSUME NEW a \in Adjacent(m) PROVE a \in C
    <3>1. a \in Reach(m) /\ a \in Leads(m)
        BY <1>0, LeadsOn
    <3> QED
        BY <1>2, <3>1 DEF Component
  <2>2. ASSUME NEW x \in C, NEW y \in Adjacent(x) PROVE y \in C
    <3>1. y \in Leads(m) /\ x \in Modules
        BY <1>0
    <3>2. y \in Reach(x) /\ Reach(y) \subseteq Reach(x)
        BY <3>1, Reaching
    <3> QED
        BY <3>1, <3>2
  <2>3. m \in Reach(m)
      BY Reaching
  <2>4. Adjacent(m) \subseteq C /\ \A x \in C \cap Modules : Adjacent(x) \subseteq C
      BY <2>1, <2>2
  <2>5. m \notin C
      BY <2>3
  <2> HIDE DEF C
  <2>6. Leads(m) \subseteq C
      BY <2>4, LeadsAre
  <2> QED
      BY <1>2, <2>5, <2>6
<1> QED
    BY <1>1, <1>2

\* The components found are all of them, when all is met.
LEMMA AllComponents ==
    ASSUME project \in Projects, TarjanInv, AllMet
    PROVE  sccs = {Component(m) : m \in Modules} /\ \A C \in sccs : C # {} /\ C \subseteq Modules /\ \A m \in C : C = Component(m)
<1>1. DOMAIN frames = {}
    BY DEF AllMet
<1>2. Held = {}
    BY <1>1 DEF TarjanInv, AllLeadsDown
<1>3. Popped = Modules
    BY <1>2 DEF TarjanInv, Numbered, Popped, AllMet, Met
<1>4. /\ \A C \in sccs : C # {} /\ C \subseteq Modules /\ \A m \in C : C = Component(m)
      /\ \A m \in Modules : \E C \in sccs : m \in C
    BY <1>3 DEF TarjanInv, ComponentsAreFound
<1>5. \A C \in sccs : \E m \in Modules : C = Component(m)
    BY <1>4
<1>6. \A m \in Modules : Component(m) \in sccs
    BY <1>4
<1> QED
    BY <1>4, <1>5, <1>6

\* What runs when some module is imported.
RunAtAll == UNION {EdgesOf(s) : s \in {t \in project.imports : RunsOnImport(t.within)}}

\* An import statement at the top level of a module is one that runs when it is imported.
LEMMA RunsAreImports ==
    ASSUME project \in Projects
    PROVE  Runs = [m \in Modules |->
                     {e.target : e \in {d \in RunAtAll : d.importer = m /\ d.target \in Modules}}]
<1>1. ASSUME NEW s \in project.imports
      PROVE  RunsOnImport(s.within) <=> ImportContext(s.within) = "TopLevel"
  <2>1. ~ IsIn("header", s.within) /\ ~ IsIn("lambda", s.within)
      BY EveryProjectIsIndexed DEF Indexed
  <2> QED
      BY <2>1 DEF RunsOnImport, ImportContext, InFunction, IsIn
<1>2. ASSUME NEW s \in project.imports, NEW e \in EdgesOf(s) PROVE e.context = ImportContext(s.within)
    BY DEF EdgesOf, Edge
<1>3. \A e : e \in RunAtAll <=> e \in Edges /\ e.context = "TopLevel"
  <2>1. \A e : e \in Edges <=> \E s \in project.imports : e \in EdgesOf(s)
      BY DEF Edges
  <2>2. \A e : e \in RunAtAll <=> \E s \in project.imports : RunsOnImport(s.within) /\ e \in EdgesOf(s)
      BY DEF RunAtAll
  <2> QED
      BY <1>1, <1>2, <2>1, <2>2
<1>4. \A m : {d \in Edges : d.importer = m /\ d.context = "TopLevel" /\ d.target \in Modules}
             = {d \in RunAtAll : d.importer = m /\ d.target \in Modules}
    BY <1>3
<1>5. \A m : Adjacent(m) = {e.target : e \in {d \in RunAtAll : d.importer = m /\ d.target \in Modules}}
    BY <1>4 DEF Adjacent
<1> QED
    BY <1>5 DEF Runs

\* Of finitely many numbers one is the greatest.
LEMMA Greatest ==
    ASSUME NEW T \in SUBSET Nat, T # {}, IsFiniteSet(T)
    PROVE  \E n \in T : \A m \in T : m <= n
<1>1. PICK N \in Nat : ExistsBijection(1 .. N, T)
    BY FS_CardinalityType
<1>2. PICK f \in Bijection(1 .. N, T) : TRUE
    BY <1>1 DEF ExistsBijection
<1>3. /\ \A i \in 1 .. N : f[i] \in T
      /\ \A t \in T : \E i \in 1 .. N : f[i] = t
    BY <1>2 DEF Bijection, Surjection
<1> DEFINE S == {k \in Nat : k < N => \E i \in 1 .. k + 1 : \A j \in 1 .. k + 1 : f[j] <= f[i]}
<1>4. 0 \in S
  <2>1. 0 < N => f[1] <= f[1]
    <3>1. 0 < N => 1 \in 1 .. N
        OBVIOUS
    <3>2. \A t \in T : t <= t
        OBVIOUS
    <3> QED
        BY <1>3, <3>1, <3>2
  <2>2. \A j \in 1 .. 0 + 1 : j = 1
      OBVIOUS
  <2> QED
      BY <2>1, <2>2
<1>5. ASSUME NEW k \in Nat, k \in S PROVE k + 1 \in S
  <2> SUFFICES ASSUME k + 1 < N PROVE \E i \in 1 .. (k + 1) + 1 : \A j \in 1 .. (k + 1) + 1 : f[j] <= f[i]
      OBVIOUS
  <2>1. k < N
      BY <1>1
  <2>2. PICK i \in 1 .. k + 1 : \A j \in 1 .. k + 1 : f[j] <= f[i]
      BY <1>5, <2>1
  <2>3. \A j \in 1 .. (k + 1) + 1 : j \in 1 .. k + 1 \/ j = k + 2
      OBVIOUS
  <2>4. i \in 1 .. N /\ k + 2 \in 1 .. N /\ i \in 1 .. (k + 1) + 1 /\ k + 2 \in 1 .. (k + 1) + 1
      BY <1>1
  <2>5. f[i] \in Nat /\ f[k + 2] \in Nat
      BY <1>3, <2>4
  <2>6. CASE f[k + 2] <= f[i]
    <3>1. \A j \in 1 .. (k + 1) + 1 : f[j] <= f[i]
        BY <2>2, <2>3, <2>6
    <3> QED
        BY <2>4, <3>1
  <2>7. CASE ~ (f[k + 2] <= f[i])
    <3>1. f[i] <= f[k + 2]
        BY <2>5, <2>7
    <3>2. \A j \in 1 .. k + 1 : f[j] \in Nat
      <4>1. \A j \in 1 .. k + 1 : j \in 1 .. N
          BY <2>1
      <4> QED
          BY <1>3, <4>1
    <3>3. \A j \in 1 .. k + 1 : f[j] <= f[k + 2]
        BY <2>2, <2>5, <3>1, <3>2
    <3>4. \A j \in 1 .. (k + 1) + 1 : f[j] <= f[k + 2]
        BY <2>3, <2>5, <3>3
    <3> QED
        BY <2>4, <3>4
  <2> QED
      BY <2>6, <2>7
<1>6. Nat \subseteq S
  <2> HIDE DEF S
  <2> QED
      BY <1>4, <1>5, Induction
<1>7. PICK t \in T : TRUE
    OBVIOUS
<1>8. N > 0
  <2>1. PICK i \in 1 .. N : TRUE
      BY <1>3, <1>7
  <2> QED
      BY <2>1
<1>9. N - 1 \in S /\ N - 1 \in Nat /\ (N - 1) + 1 = N
  <2>1. N - 1 \in Nat /\ (N - 1) + 1 = N
      BY <1>8
  <2> HIDE DEF S
  <2> QED
      BY <1>6, <2>1
<1>10. PICK i \in 1 .. N : \A j \in 1 .. N : f[j] <= f[i]
    BY <1>1, <1>9
<1>11. f[i] \in T /\ \A m \in T : m <= f[i]
    BY <1>3, <1>10
<1> QED
    BY <1>11

\* Of some modules one is the first and one the last in the order of the files.
LEMMA FirstAndLast ==
    ASSUME project \in Projects, NEW S \in SUBSET Modules, S # {}
    PROVE  FirstModule(S) \in S /\ LastModule(S) \in S
<1>1. IsFiniteSet(DOMAIN Files) /\ DOMAIN Files \subseteq Nat /\ IsFiniteSet(Modules)
    BY EveryProjectIsIndexed, RunsAre DEF Indexed, Files
<1>2. ASSUME NEW m \in Modules PROVE ModuleFile(m) \in Nat
  <2> DEFINE F == {f \in DOMAIN Files : Files[f].module = m}
  <2>1. F \in SUBSET Nat /\ F # {} /\ F \in SUBSET DOMAIN Files
      BY <1>1 DEF Modules
  <2>2. IsFiniteSet(F)
      BY <1>1, <2>1, FS_Subset
  <2>3. ModuleFile(m) = Max(F)
      BY DEF ModuleFile
  <2> HIDE DEF F
  <2>4. PICK n \in F : \A k \in F : k <= n
      BY <2>1, <2>2, Greatest
  <2>5. \A k \in F : n >= k
      BY <2>1, <2>4
  <2>6. Max(F) \in F
      BY <2>5 DEF Max
  <2> QED
      BY <2>1, <2>3, <2>6
<1> DEFINE h == [m \in S |-> ModuleFile(m)]
           T == {ModuleFile(m) : m \in S}
<1>3. T \in SUBSET Nat /\ T # {}
    BY <1>2
<1>4. IsFiniteSet(T)
  <2>1. IsFiniteSet(S)
      BY <1>1, FS_Subset
  <2>2. h \in Surjection(S, T)
      BY DEF Surjection
  <2> HIDE DEF h, T
  <2> QED
      BY <2>1, <2>2, FS_Surjection
<1>5. \A m \in S : ModuleFile(m) \in T
    OBVIOUS
<1>6. \A t \in T : \E m \in S : t = ModuleFile(m)
    OBVIOUS
<1> HIDE DEF h, T
<1>7. PICK m \in S : \A n \in S : ModuleFile(m) <= ModuleFile(n)
  <2>1. PICK t \in T : \A u \in T : t <= u
      BY <1>3, Least
  <2> QED
      BY <1>5, <1>6, <2>1
<1>8. PICK m2 \in S : \A n \in S : ModuleFile(m2) >= ModuleFile(n)
  <2>1. PICK t \in T : \A u \in T : u <= t
      BY <1>3, <1>4, Greatest
  <2>2. \A u \in T : t >= u
      BY <1>3, <2>1
  <2> QED
      BY <1>5, <1>6, <2>2
<1> QED
    BY <1>7, <1>8 DEF FirstModule, LastModule

-----------------------------------------------------------------------------
(* extract_cycle *)

\* Where a path comes back to itself, and what is a cycle from there on.
MetBy(p, n) == {p[i] : i \in 1 .. n} \cap Adjacent(p[n])

\* Where a path first meets itself, the place it met, and what lies between.
EndOf(p) == CHOOSE n \in DOMAIN p : MetBy(p, n) # {} /\ \A k \in 1 .. n - 1 : MetBy(p, k) = {}
StartOf(p) == CHOOSE i \in 1 .. EndOf(p) : p[i] = FirstModule(MetBy(p, EndOf(p)))
TailOf(p) == [i \in 1 .. EndOf(p) - StartOf(p) + 1 |-> p[StartOf(p) + i - 1]]

\* From the first module on to the last successor each time.
Follows(p, scc) ==
    /\ DOMAIN p = 1 .. Cardinality(scc)
    /\ p[1] = FirstModule(scc)
    /\ \A n \in 2 .. Cardinality(scc) : p[n] = LastModule(Adjacent(p[n - 1]) \cap scc)

\* The recursion of the path has a solution.
LEMMA Extracting ==
    ASSUME NEW scc, Cardinality(scc) \in Nat \ {0}
    PROVE  \E p : Follows(p, scc) /\ ExtractCycle(scc) = TailOf(p)
<1> DEFINE N == Cardinality(scc)
           D(g, i) == IF i = 1 THEN FirstModule(scc) ELSE LastModule(Adjacent(g[i - 1]) \cap scc)
           Ok == {m \in Nat : \E g : g = [i \in 1 .. m |-> D(g, i)]}
<1>0. N \in Nat
    OBVIOUS
<1>1. 0 \in Ok
  <2> DEFINE g == [i \in 1 .. 0 |-> {}]
  <2>1. g = [i \in 1 .. 0 |-> D(g, i)]
    <3> HIDE DEF D
    <3> QED
        OBVIOUS
  <2> HIDE DEF g, D
  <2> QED
      BY <2>1
<1>2. ASSUME NEW m \in Nat, m \in Ok PROVE m + 1 \in Ok
  <2>1. PICK g : g = [i \in 1 .. m |-> D(g, i)]
      BY <1>2
  <2> DEFINE h == [i \in 1 .. m + 1 |-> IF i = m + 1 THEN D(g, i) ELSE g[i]]
  <2>2. ASSUME NEW i \in 1 .. m + 1 PROVE h[i] = D(h, i)
    <3>1. i # 1 => i - 1 \in 1 .. m /\ h[i - 1] = g[i - 1]
      <4> HIDE DEF D
      <4> QED
        OBVIOUS
    <3>2. D(g, i) = D(h, i)
      <4> HIDE DEF h
      <4> QED
        BY <3>1
    <3>3. i # m + 1 => g[i] = D(g, i)
      <4> HIDE DEF D
      <4> QED
        BY <2>1
    <3>4. h[i] = IF i = m + 1 THEN D(g, i) ELSE g[i]
      <4> HIDE DEF D
      <4> QED
        OBVIOUS
    <3> HIDE DEF D, h
    <3> QED
        BY <3>2, <3>3, <3>4
  <2>3. h = [i \in 1 .. m + 1 |-> D(h, i)]
    <3>1. h = [i \in 1 .. m + 1 |-> h[i]]
      <4> HIDE DEF D
      <4> QED
        OBVIOUS
    <3> HIDE DEF D, h
    <3> QED
      BY <2>2, <3>1
  <2> HIDE DEF h, D
  <2> QED
      BY <2>3
<1> HIDE DEF Ok
<1>3. N \in Ok
    BY <1>0, <1>1, <1>2, Induction
<1>4. \E g : g = [i \in 1 .. N |-> D(g, i)]
    BY <1>3 DEF Ok
<1> DEFINE p == CHOOSE g : g = [i \in 1 .. N |-> D(g, i)]
<1>5. ExtractCycle(scc) = TailOf(p)
    BY DEF ExtractCycle, TailOf, StartOf, EndOf, MetBy
<1>6. p = [i \in 1 .. N |-> D(p, i)]
  <2> HIDE DEF D
  <2> QED
      BY <1>4
<1> HIDE DEF p
<1>7. DOMAIN p = 1 .. N /\ \A i \in 1 .. N : p[i] = D(p, i)
  <2> HIDE DEF D
  <2> QED
      BY <1>6
<1>8. p[1] = FirstModule(scc)
  <2>1. 1 \in 1 .. N
      OBVIOUS
  <2>2. p[1] = D(p, 1)
    <3> HIDE DEF D, N
    <3> QED
        BY <1>7, <2>1
  <2> QED
      BY <2>2
<1>9. \A n \in 2 .. N : p[n] = LastModule(Adjacent(p[n - 1]) \cap scc)
    BY <1>7
<1>10. Follows(p, scc)
  <2> HIDE DEF D
  <2> QED
      BY <1>7, <1>8, <1>9 DEF Follows
<1> QED
    BY <1>5, <1>10

\* A set of modules each of which imports one of them.
Turning(scc) ==
    /\ scc \in SUBSET Modules /\ scc # {} /\ IsFiniteSet(scc)
    /\ \A m \in scc : Adjacent(m) \cap scc # {}

\* The path stays within them, and each imports the next.
LEMMA PathWithin ==
    ASSUME project \in Projects, NEW scc, Turning(scc), NEW p, Follows(p, scc)
    PROVE  /\ \A n \in 1 .. Cardinality(scc) : p[n] \in scc
           /\ \A n \in 2 .. Cardinality(scc) : p[n] \in Adjacent(p[n - 1])
<1>1. PICK N \in Nat : N = Cardinality(scc)
    BY FS_CardinalityType DEF Turning
<1>2. /\ scc \in SUBSET Modules /\ scc # {}
      /\ \A m \in scc : Adjacent(m) \cap scc # {}
      /\ p[1] = FirstModule(scc)
      /\ \A n \in 2 .. N : p[n] = LastModule(Adjacent(p[n - 1]) \cap scc)
    BY <1>1 DEF Turning, Follows
<1>3. p[1] \in scc
    BY <1>2, FirstAndLast
<1>4. ASSUME NEW n \in 2 .. N, p[n - 1] \in scc
      PROVE  p[n] \in scc /\ p[n] \in Adjacent(p[n - 1])
  <2> DEFINE S == Adjacent(p[n - 1]) \cap scc
  <2>1. S \in SUBSET Modules /\ S # {}
      BY <1>2, <1>4
  <2>2. p[n] = LastModule(S)
      BY <1>2
  <2> HIDE DEF S
  <2>3. p[n] \in S
      BY <2>1, <2>2, FirstAndLast
  <2> QED
      BY <2>3 DEF S
<1> DEFINE T == {k \in Nat : k < N => p[k + 1] \in scc}
<1>5. 0 \in T
    BY <1>3
<1>6. ASSUME NEW k \in Nat, k \in T PROVE k + 1 \in T
  <2> SUFFICES ASSUME k + 1 < N PROVE p[(k + 1) + 1] \in scc
      OBVIOUS
  <2>1. p[k + 1] \in scc
      BY <1>1, <1>6
  <2>2. PICK n : n = k + 2
      OBVIOUS
  <2>3. n \in 2 .. N /\ n - 1 = k + 1 /\ (k + 1) + 1 = n
      BY <2>2
  <2>4. p[n] \in scc
      BY <1>4, <2>1, <2>3
  <2> QED
      BY <2>3, <2>4
<1>7. Nat \subseteq T
  <2> HIDE DEF T
  <2> QED
      BY <1>5, <1>6, Induction
<1>8. ASSUME NEW n \in 1 .. N PROVE p[n] \in scc
  <2>1. n - 1 \in Nat /\ n - 1 < N /\ (n - 1) + 1 = n
      BY <1>8
  <2>2. n - 1 \in T
    <3> HIDE DEF T
    <3> QED
        BY <1>7, <2>1
  <2> QED
      BY <2>1, <2>2
<1>9. \A n \in 2 .. N : p[n] \in Adjacent(p[n - 1])
  <2> SUFFICES ASSUME NEW n \in 2 .. N PROVE p[n] \in Adjacent(p[n - 1])
      OBVIOUS
  <2>1. n - 1 \in 1 .. N
      OBVIOUS
  <2> QED
      BY <1>4, <1>8, <2>1
<1> QED
    BY <1>1, <1>8, <1>9

\* Until it comes back its modules differ.
LEMMA PathDiffers ==
    ASSUME project \in Projects, NEW scc, Turning(scc), NEW p, Follows(p, scc),
           NEW n \in 1 .. Cardinality(scc), \A k \in 1 .. n - 1 : MetBy(p, k) = {}
    PROVE  \A i, j \in 1 .. n : p[i] = p[j] => i = j
<1>1. PICK N \in Nat : N = Cardinality(scc)
    BY FS_CardinalityType DEF Turning
<1>2. ASSUME NEW i \in 1 .. n, NEW j \in 1 .. n, i < j PROVE p[i] # p[j]
  <2>1. j \in 2 .. N /\ j - 1 \in 1 .. n - 1 /\ i \in 1 .. j - 1
      BY <1>1, <1>2
  <2>2. p[j] \in Adjacent(p[j - 1])
      BY <1>1, <2>1, PathWithin
  <2>3. MetBy(p, j - 1) = {}
      BY <2>1
  <2> QED
      BY <2>1, <2>2, <2>3 DEF MetBy
<1>3. \A i, j \in 1 .. n : i = j \/ i < j \/ j < i
    BY <1>1
<1> QED
    BY <1>2, <1>3

\* It comes back.
LEMMA PathEnds ==
    ASSUME project \in Projects, NEW scc, Turning(scc), NEW p, Follows(p, scc)
    PROVE  /\ EndOf(p) \in 1 .. Cardinality(scc) /\ MetBy(p, EndOf(p)) # {}
           /\ \A k \in 1 .. EndOf(p) - 1 : MetBy(p, k) = {}
<1>1. PICK N \in Nat : N = Cardinality(scc)
    BY FS_CardinalityType DEF Turning
<1>2. DOMAIN p = 1 .. N
    BY <1>1 DEF Follows
<1>3. /\ \A n \in 1 .. N : p[n] \in scc
      /\ \A n \in 2 .. N : p[n] \in Adjacent(p[n - 1])
    BY <1>1, PathWithin
<1>4. N # 0
    BY <1>1, FS_EmptySet DEF Turning
<1> DEFINE T == {n \in 1 .. N : MetBy(p, n) # {}}
<1>5. T # {}
  <2> SUFFICES ASSUME \A n \in 1 .. N : MetBy(p, n) = {} PROVE FALSE
      OBVIOUS
  <2>1. N \in 1 .. N /\ \A k \in 1 .. N - 1 : MetBy(p, k) = {}
      BY <1>4
  <2>2. \A i, j \in 1 .. N : p[i] = p[j] => i = j
      BY <1>1, <2>1, PathDiffers
  <2> DEFINE f == [i \in 1 .. N |-> p[i]]
             R == 1 .. N
  <2>3. f \in Injection(R, scc)
      BY <1>3, <2>2 DEF Injection, IsInjective
  <2>4. IsFiniteSet(R) /\ Cardinality(R) = N
    <3>1. 1 \in Int /\ N \in Int
        OBVIOUS
    <3>2. IsFiniteSet(R) /\ Cardinality(R) = IF 1 > N THEN 0 ELSE N - 1 + 1
        BY <3>1, FS_Interval
    <3> QED
        BY <1>4, <3>2
  <2>5. IsFiniteSet(scc)
      BY DEF Turning
  <2>6. f \in Surjection(R, scc)
    <3> HIDE DEF f, R
    <3> QED
        BY <1>1, <2>3, <2>4, <2>5, FS_Injection
  <2>7. \A m \in scc : \E i \in 1 .. N : p[i] = m
      BY <2>6 DEF Surjection
  <2>8. Adjacent(p[N]) \cap scc # {}
      BY <1>3, <2>1 DEF Turning
  <2>9. MetBy(p, N) # {}
      BY <2>7, <2>8 DEF MetBy
  <2> QED
      BY <2>1, <2>9
<1>6. PICK n \in T : \A k \in T : n <= k
  <2>1. T \in SUBSET Nat
      OBVIOUS
  <2> HIDE DEF T
  <2> QED
      BY <1>5, <2>1, Least
<1>7. n \in DOMAIN p /\ MetBy(p, n) # {} /\ \A k \in 1 .. n - 1 : MetBy(p, k) = {}
  <2>1. \A k \in 1 .. n - 1 : k \in 1 .. N /\ ~ (n <= k)
      BY <1>6
  <2> QED
      BY <1>2, <1>6, <2>1
<1> HIDE DEF T
<1>8. EndOf(p) \in DOMAIN p /\ MetBy(p, EndOf(p)) # {} /\ \A k \in 1 .. EndOf(p) - 1 : MetBy(p, k) = {}
    BY <1>7 DEF EndOf
<1> QED
    BY <1>1, <1>2, <1>8

\* It is of modules, all different, each of which imports the next, and the last the first.
IsCycle(c) ==
    /\ \A i \in DOMAIN c : c[i] \in Modules
    /\ \A i, j \in DOMAIN c : c[i] = c[j] => i = j
    /\ \A i \in DOMAIN c : c[(i % Len(c)) + 1] \in Adjacent(c[i])

\* What is extracted of such a set is a cycle of its modules.
LEMMA CycleExtracted ==
    ASSUME project \in Projects, NEW scc, Turning(scc)
    PROVE  LET c == ExtractCycle(scc) IN IsCycle(c) /\ c[1] \in scc
<1>1. PICK N \in Nat : N = Cardinality(scc)
    BY FS_CardinalityType DEF Turning
<1>2. N \in Nat \ {0}
    BY <1>1, FS_EmptySet DEF Turning
<1>3. PICK p : Follows(p, scc) /\ ExtractCycle(scc) = TailOf(p)
    BY <1>1, <1>2, Extracting
<1>4. PICK e : e = EndOf(p)
    OBVIOUS
<1>5. /\ e \in 1 .. N /\ MetBy(p, e) # {}
      /\ \A k \in 1 .. e - 1 : MetBy(p, k) = {}
    BY <1>1, <1>3, <1>4, PathEnds
<1>6. /\ \A n \in 1 .. N : p[n] \in scc
      /\ \A n \in 2 .. N : p[n] \in Adjacent(p[n - 1])
    BY <1>1, <1>3, PathWithin
<1>7. \A i, j \in 1 .. e : p[i] = p[j] => i = j
    BY <1>1, <1>3, <1>5, PathDiffers
<1>8. PICK b \in 1 .. e : b = StartOf(p) /\ p[b] \in Adjacent(p[e])
  <2> DEFINE M == MetBy(p, e)
  <2>1. M \in SUBSET Modules /\ M # {}
    <3>1. \A i \in 1 .. e : p[i] \in scc
        BY <1>5, <1>6
    <3>2. scc \subseteq Modules
        BY DEF Turning
    <3> QED
        BY <1>5, <3>1, <3>2 DEF MetBy
  <2>2. /\ \A m \in M : m \in Adjacent(p[e]) /\ \E i \in 1 .. e : p[i] = m
        /\ StartOf(p) = CHOOSE i \in 1 .. e : p[i] = FirstModule(M)
      BY <1>4 DEF MetBy, StartOf
  <2> HIDE DEF M
  <2>3. FirstModule(M) \in M
      BY <2>1, FirstAndLast
  <2>4. \E i \in 1 .. e : p[i] = FirstModule(M)
      BY <2>2, <2>3
  <2>5. StartOf(p) \in 1 .. e /\ p[StartOf(p)] = FirstModule(M)
      BY <2>2, <2>4
  <2> QED
      BY <2>2, <2>3, <2>5
<1>9. PICK c : c = ExtractCycle(scc)
    OBVIOUS
<1>10. PICK L \in Nat \ {0} : L = e - b + 1
    BY <1>5
<1>11. c = [i \in 1 .. L |-> p[b + i - 1]]
    BY <1>3, <1>4, <1>8, <1>9, <1>10 DEF TailOf
<1>12. /\ DOMAIN c = 1 .. L
       /\ \A i \in 1 .. L : c[i] = p[b + i - 1] /\ b + i - 1 \in 1 .. e /\ b + i - 1 \in 1 .. N
  <2>1. \A i \in 1 .. L : b + i - 1 \in 1 .. e /\ b + i - 1 \in 1 .. N
      BY <1>5, <1>8, <1>10
  <2> QED
      BY <1>11, <2>1
<1>13. Len(c) = L
  <2>1. c \in [1 .. L -> scc]
      BY <1>6, <1>11, <1>12
  <2> DEFINE T == scc
  <2> HIDE DEF T
  <2>2. c \in Seq(T)
      BY <1>10, <2>1 DEF T
  <2> QED
      BY <1>12, <2>2, LenProperties
<1>14. ASSUME NEW i \in 1 .. L, NEW j \in 1 .. L, c[i] = c[j] PROVE i = j
  <2>1. p[b + i - 1] = p[b + j - 1]
      BY <1>12, <1>14
  <2>2. b + i - 1 = b + j - 1
      BY <1>7, <1>12, <2>1
  <2> QED
      BY <1>8, <2>2
<1>15. ASSUME NEW i \in 1 .. L PROVE c[(i % L) + 1] \in Adjacent(c[i])
  <2>1. CASE i = L
    <3>1. i % L = 0
        BY <1>10, <2>1
    <3>2. c[1] = p[b] /\ c[i] = p[e]
      <4>1. 1 \in 1 .. L /\ b + 1 - 1 = b /\ b + i - 1 = e
          BY <1>5, <1>8, <1>10, <2>1
      <4> QED
          BY <1>12, <4>1
    <3> QED
        BY <1>8, <3>1, <3>2
  <2>2. CASE i # L
    <3>1. i % L = i
        BY <1>10, <2>2
    <3>2. PICK n : n = b + i
        OBVIOUS
    <3>3. n \in 2 .. N /\ i + 1 \in 1 .. L /\ b + (i + 1) - 1 = n /\ b + i - 1 = n - 1
        BY <1>5, <1>8, <1>10, <2>2, <3>2
    <3>4. c[i + 1] = p[n] /\ c[i] = p[n - 1]
        BY <1>12, <3>3
    <3> QED
        BY <1>6, <3>1, <3>3, <3>4
  <2> QED
      BY <2>1, <2>2
<1>16. IsCycle(c)
  <2>1. \A i \in 1 .. L : c[i] \in Modules
      BY <1>6, <1>12 DEF Turning
  <2> QED
      BY <1>12, <1>13, <1>14, <1>15, <2>1 DEF IsCycle
<1>17. c[1] \in scc
  <2>1. 1 \in 1 .. L
      BY <1>10
  <2> QED
      BY <1>6, <1>12, <2>1
<1> QED
    BY <1>9, <1>16, <1>17

\* A component is cyclic as the code has it just when one of its modules leads to itself, and
\* then they all import one of it.
LEMMA CyclicIs ==
    ASSUME project \in Projects, NEW C \in SUBSET Modules, C # {}, \A m \in C : C = Component(m)
    PROVE  /\ IsCyclic(C) <=> \E m \in C : m \in Leads(m)
           /\ IsCyclic(C) => Turning(C)
<1>0. IsFiniteSet(Modules) /\ IsFiniteSet(C) /\ Cardinality(C) \in Nat
  <2>1. IsFiniteSet(Modules)
      BY RunsAre
  <2>2. IsFiniteSet(C)
      BY <2>1, FS_Subset
  <2> QED
      BY <2>1, <2>2, FS_CardinalityType
<1>1. ASSUME NEW m \in C, NEW n \in C, m # n PROVE m \in Leads(m) /\ n \in Leads(n)
    BY <1>1, ComponentIs
<1>2. ASSUME NEW m \in C PROVE m \in Leads(m) <=> Adjacent(m) \cap C # {}
    BY OwnWay
<1>3. ASSUME Cardinality(C) > 1 PROVE \A m \in C : m \in Leads(m)
  <2> SUFFICES ASSUME NEW m \in C PROVE m \in Leads(m)
      OBVIOUS
  <2>1. C # {m}
      BY <1>0, <1>3, FS_Singleton
  <2> QED
      BY <1>1, <2>1
<1>4. ASSUME NEW m \in C, m \in Adjacent(m) PROVE \A n \in C : n \in Leads(n)
  <2>1. m \in Leads(m)
      BY <1>2, <1>4
  <2> QED
      BY <1>1, <2>1
<1>5. IsCyclic(C) => \A m \in C : m \in Leads(m)
    BY <1>3, <1>4 DEF IsCyclic
<1>6. ASSUME NEW m \in C, m \in Leads(m) PROVE IsCyclic(C)
  <2>1. PICK a \in Adjacent(m) : a \in C
      BY <1>2, <1>6
  <2>2. CASE a = m
      BY <2>1, <2>2 DEF IsCyclic
  <2>3. CASE a # m
    <3>1. \A x : C # {x}
        BY <2>1, <2>3
    <3>2. Cardinality(C) # 1 /\ Cardinality(C) # 0
        BY <1>0, <3>1, FS_Singleton, FS_EmptySet
    <3> QED
        BY <1>0, <3>2 DEF IsCyclic
  <2> QED
      BY <2>2, <2>3
<1> QED
    BY <1>0, <1>2, <1>5, <1>6 DEF Turning

\* As many cycles are shown as there are cyclic components.
LEMMA CyclesCounted ==
    ASSUME project \in Projects, TarjanInv, AllMet
    PROVE  /\ Cardinality(Cycles) = Cardinality({C \in sccs : \E m \in C : m \in Leads(m)})
           /\ \A c \in Cycles : IsCycle(c)
<1>1. \A C \in sccs : C # {} /\ C \subseteq Modules /\ \A m \in C : C = Component(m)
    BY AllComponents
<1> DEFINE S == {C \in sccs : IsCyclic(C)}
           h == [C \in S |-> ExtractCycle(C)]
<1>2. S = {C \in sccs : \E m \in C : m \in Leads(m)}
  <2>1. \A C \in sccs : IsCyclic(C) <=> \E m \in C : m \in Leads(m)
      BY <1>1, CyclicIs
  <2> QED
      BY <2>1
<1>3. Cycles = {ExtractCycle(C) : C \in S}
    BY DEF Cycles
<1>4. ASSUME NEW C \in S PROVE IsCycle(ExtractCycle(C)) /\ ExtractCycle(C)[1] \in C
  <2>1. Turning(C)
      BY <1>1, CyclicIs
  <2> QED
      BY <2>1, CycleExtracted
<1>5. IsFiniteSet(S)
  <2>1. IsFiniteSet(SUBSET Modules)
      BY RunsAre, FS_SUBSET
  <2>2. S \in SUBSET (SUBSET Modules)
      BY <1>1
  <2> QED
      BY <2>1, <2>2, FS_Subset
<1>6. ASSUME NEW C \in S, NEW E \in S, ExtractCycle(C) = ExtractCycle(E) PROVE C = E
  <2>1. ExtractCycle(C)[1] \in C /\ ExtractCycle(C)[1] \in E
      BY <1>4, <1>6
  <2> QED
      BY <1>1, <2>1
<1>7. h \in Surjection(S, Cycles) /\ h \in Injection(S, Cycles)
  <2>1. h \in [S -> Cycles] /\ \A C \in S : h[C] = ExtractCycle(C)
      BY <1>3
  <2>2. \A c \in Cycles : \E C \in S : h[C] = c
      BY <1>3, <2>1
  <2> HIDE DEF h, S
  <2>3. h \in Surjection(S, Cycles)
      BY <2>1, <2>2 DEF Surjection
  <2>4. h \in Injection(S, Cycles)
      BY <1>6, <2>1 DEF Injection, IsInjective
  <2> QED
      BY <2>3, <2>4
<1>8. Cardinality(Cycles) = Cardinality(S)
  <2> HIDE DEF h, S
  <2> QED
      BY <1>5, <1>7, FS_Surjection
<1> QED
    BY <1>2, <1>3, <1>4, <1>8

\* Every module met, the cycles are those of the checkout.
LEMMA CyclesAnswer == QInv /\ TarjanInv => CyclesAreExact
<1> SUFFICES ASSUME QInv, TarjanInv, AllMet PROVE CyclesAreExact
    BY DEF CyclesAreExact
<1>0. project \in Projects
    BY DEF QInv, Given
<1> DEFINE run == UNION {EdgesOf(s) : s \in {t \in project.imports : RunsOnImport(t.within)}}
           runs == [m \in Modules |-> {e.target : e \in {d \in run : d.importer = m /\ d.target \in Modules}}]
           L(m) == Reached(runs, runs[m])
<1>1. runs = Runs
    BY <1>0, RunsAreImports DEF RunAtAll
<1> HIDE DEF run, runs
<1>2. \A m \in Modules : L(m) = Leads(m) /\ runs[m] = Adjacent(m) /\ Leads(m) \subseteq Modules
  <2> SUFFICES ASSUME NEW m \in Modules
               PROVE  L(m) = Leads(m) /\ runs[m] = Adjacent(m) /\ Leads(m) \subseteq Modules
      OBVIOUS
  <2>1. Leads(m) \subseteq Modules /\ Leads(m) = Reached(Runs, Runs[m])
      BY <1>0, LeadsAre
  <2>2. Runs[m] = Adjacent(m)
      BY <1>0, RunsAre
  <2> QED
      BY <1>1, <2>1, <2>2
<1>3. sccs = {Component(m) : m \in Modules} /\ \A C \in sccs : C \subseteq Modules
    BY <1>0, AllComponents
<1> HIDE DEF L
<1>4. sccs = {{m} \cup {n \in L(m) : m \in L(n)} : m \in Modules}
  <2>1. ASSUME NEW m \in Modules PROVE Component(m) = {m} \cup {n \in L(m) : m \in L(n)}
    <3>1. Component(m) = {m} \cup {n \in Leads(m) : m \in Leads(n)}
        BY <1>0, ComponentIs
    <3>2. \A n \in Leads(m) : n \in Modules
        BY <1>2
    <3> QED
        BY <1>2, <3>1, <3>2
  <2> QED
      BY <1>3, <2>1
<1>5. {C \in sccs : \E m \in C : m \in Leads(m)} = {C \in sccs : \E m \in C : m \in L(m)}
  <2>1. \A C \in sccs : \A m \in C : Leads(m) = L(m)
      BY <1>2, <1>3
  <2> QED
      BY <2>1
<1>6. /\ Cardinality(Cycles) = Cardinality({C \in sccs : \E m \in C : m \in L(m)})
      /\ \A c \in Cycles : IsCycle(c)
    BY <1>0, <1>5, CyclesCounted
<1>7. ASSUME NEW c \in Cycles
      PROVE  /\ \A i, j \in DOMAIN c : c[i] = c[j] => i = j
             /\ \A i \in DOMAIN c : c[(i % Len(c)) + 1] \in runs[c[i]]
  <2>1. IsCycle(c)
      BY <1>6
  <2>2. \A m \in Modules : runs[m] = Adjacent(m)
      BY <1>2
  <2>3. \A i \in DOMAIN c : c[i] \in Modules
      BY <2>1 DEF IsCycle
  <2> QED
      BY <2>1, <2>2, <2>3 DEF IsCycle
<1> QED
    BY <1>4, <1>6, <1>7 DEF CyclesAreExact, run, runs, L

\* "pyq imports --cycles" shows one cycle of each set of modules that import each other when they
\* are imported, and of no other, in whatever order tarjan_scc met them; and what extract_cycle
\* makes of the set is a cycle: no module is in it twice, each imports the next, the last the first.
THEOREM CyclesAreTrue == Spec => []CyclesAreExact
<1> QED
    BY ComponentsInvariance, CyclesAnswer, PTL

=============================================================================
