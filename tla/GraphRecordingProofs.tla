------------------------ MODULE GraphRecordingProofs ------------------------
(***************************************************************************)
(* Theorems about the recording of the call graph, for any finite set of   *)
(* files with any contents, whatever ty says of the callers that import a  *)
(* name, and however the tree is edited between two recordings.            *)
(***************************************************************************)
EXTENDS GraphRecording, FiniteSetTheorems, WellFoundedInduction, TLAPS

-----------------------------------------------------------------------------
(* Numbers *)

\* Induction, over a set of numbers.
LEMMA Induction ==
    ASSUME NEW S, 0 \in S, \A n \in Nat : n \in S => n + 1 \in S
    PROVE  Nat \subseteq S
<1> SUFFICES ASSUME Nat \ S # {} PROVE FALSE
    OBVIOUS
<1> DEFINE R == OpToRel(<, Nat)
<1>1. \A m, n \in Nat : <<m, n>> \in R <=> m < n
    BY DEF OpToRel
<1>2. IsWellFoundedOn(R, Nat)
    BY NatLessThanWellFounded
<1> HIDE DEF R
<1>3. PICK n \in Nat \ S : \A m \in Nat \ S : ~ (<<m, n>> \in R)
    BY <1>2, WFMin
<1>4. n - 1 \in Nat /\ <<n - 1, n>> \in R
    BY <1>1
<1> QED
    BY <1>3, <1>4

LEMMA HowMany == Cardinality(Files) \in Nat
BY FilesFinite, FS_CardinalityType

-----------------------------------------------------------------------------
(* ty's answers *)

IsTree(t) == t \in [Files -> Content \cup {None}]

LEMMA Contents ==
    ASSUME NEW t, IsTree(t), NEW F \in Present(t)
    PROVE  /\ F \in Files /\ t[F] # None
           /\ t[F].def \in BOOLEAN /\ t[F].alias \in BOOLEAN
           /\ t[F].imp \in Files \cup {None} /\ t[F].use \in Uses
<1>1. F \in Files /\ t[F] # None
    BY DEF Present, IsTree
<1>2. t[F] \in Content
    BY <1>1 DEF IsTree
<1> QED
    BY <1>1, <1>2 DEF Content

\* The recursion of ExportedIn has a solution.
LEMMA Exporting ==
    ASSUME NEW t, NEW n \in 0 .. Cardinality(Files), NEW G \in Files
    PROVE  ExportedIn(t)[n][G] =
              IF t[G] = None THEN None
              ELSE IF t[G].def THEN <<G, "f">>
              ELSE IF n = 0 \/ t[G].imp = None \/ t[G].alias THEN None
              ELSE ExportedIn(t)[n - 1][t[G].imp]
<1> DEFINE N == Cardinality(Files)
           D(g, i) == [H \in Files |->
                          IF t[H] = None THEN None
                          ELSE IF t[H].def THEN <<H, "f">>
                          ELSE IF i = 0 \/ t[H].imp = None \/ t[H].alias THEN None
                          ELSE g[i - 1][t[H].imp]]
           Ok == {m \in Nat : \E g : g = [i \in 0 .. m |-> D(g, i)]}
<1>0. N \in Nat
    BY HowMany
<1>1. 0 \in Ok
  <2> DEFINE z == [H \in Files |->
                      IF t[H] = None THEN None ELSE IF t[H].def THEN <<H, "f">> ELSE None]
             g == [i \in 0 .. 0 |-> z]
  <2>1. \A h : D(h, 0) = z
      OBVIOUS
  <2> HIDE DEF z, D
  <2>2. g = [i \in 0 .. 0 |-> D(g, i)]
      BY <2>1
  <2> HIDE DEF g
  <2> QED
      BY <2>2
<1>2. ASSUME NEW m \in Nat, m \in Ok PROVE m + 1 \in Ok
  <2>1. PICK g : g = [i \in 0 .. m |-> D(g, i)]
      BY <1>2
  <2> DEFINE h == [i \in 0 .. m + 1 |-> IF i = m + 1 THEN D(g, i) ELSE g[i]]
  <2>2. ASSUME NEW i \in 0 .. m + 1 PROVE h[i] = D(h, i)
    <3>1. i # 0 => i - 1 \in 0 .. m /\ h[i - 1] = g[i - 1]
        OBVIOUS
    <3>2. D(g, i) = D(h, i)
      <4> HIDE DEF h
      <4> QED
        BY <3>1
    <3>3. i # m + 1 => g[i] = D(g, i)
      <4> HIDE DEF D
      <4> QED
        BY <2>1
    <3>4. h[i] = IF i = m + 1 THEN D(g, i) ELSE g[i]
      <4> HIDE DEF D
      <4> QED
        OBVIOUS
    <3> HIDE DEF D, h
    <3> QED
        BY <3>2, <3>3, <3>4
  <2>3. h = [i \in 0 .. m + 1 |-> D(h, i)]
    <3>1. h = [i \in 0 .. m + 1 |-> h[i]]
      <4> HIDE DEF D
      <4> QED
        OBVIOUS
    <3> HIDE DEF D, h
    <3> QED
      BY <2>2, <3>1
  <2> HIDE DEF h, D
  <2> QED
      BY <2>3
<1> HIDE DEF Ok
<1>3. N \in Ok
    BY <1>0, <1>1, <1>2, Induction
<1>4. \E g : g = [i \in 0 .. N |-> D(g, i)]
    BY <1>3 DEF Ok
<1>5. ExportedIn(t) = CHOOSE g : g = [i \in 0 .. N |-> D(g, i)]
    BY DEF ExportedIn
<1>6. ExportedIn(t)[n] = D(ExportedIn(t), n)
  <2> HIDE DEF D
  <2>1. ExportedIn(t) = [i \in 0 .. N |-> D(ExportedIn(t), i)]
      BY <1>4, <1>5
  <2> QED
      BY <2>1
<1> QED
    BY <1>6

\* A set of files that no import leads into or out of.
Closed(t, S) == \A F \in S, G \in Files : Adjacent(t, F, G) => G \in S

\* What a file exports is defined in a file it is connected to.
LEMMA ExportsWithin ==
    ASSUME NEW t, IsTree(t), NEW S \in SUBSET Files, Closed(t, S),
           NEW n \in 0 .. Cardinality(Files), NEW G \in S
    PROVE  ExportedIn(t)[n][G] \in {<<H, "f">> : H \in S \cap Present(t)} \cup {None}
<1> DEFINE N == Cardinality(Files)
           V == {<<H, "f">> : H \in S \cap Present(t)} \cup {None}
           Ok == {m \in Nat : m <= N => \A F \in S : ExportedIn(t)[m][F] \in V}
<1>0. N \in Nat
    BY HowMany
<1>1. ASSUME NEW m \in 0 .. N,
             m # 0 => \A F \in S : ExportedIn(t)[m - 1][F] \in V,
             NEW F \in S
      PROVE  ExportedIn(t)[m][F] \in V
  <2>1. CASE t[F] = None
      BY <2>1, Exporting
  <2>2. CASE t[F] # None
    <3>1. F \in S \cap Present(t)
        BY <2>2 DEF Present
    <3>2. t[F].def \in BOOLEAN /\ t[F].imp \in Files \cup {None}
        BY <3>1, Contents
    <3>3. CASE t[F].def
      <4>1. ExportedIn(t)[m][F] = <<F, "f">>
          BY <2>2, <3>3, Exporting
      <4> QED
          BY <3>1, <4>1
    <3>4. CASE ~t[F].def /\ (m = 0 \/ t[F].imp = None \/ t[F].alias)
        BY <2>2, <3>4, Exporting
    <3>5. CASE ~t[F].def /\ ~(m = 0 \/ t[F].imp = None \/ t[F].alias)
      <4>1. ExportedIn(t)[m][F] = ExportedIn(t)[m - 1][t[F].imp]
          BY <2>2, <3>5, Exporting
      <4>2. t[F].imp \in Files /\ m - 1 \in 0 .. N
          BY <1>0, <3>2, <3>5
      <4>3. CASE t[t[F].imp] = None
          BY <4>1, <4>2, <4>3, Exporting
      <4>4. CASE t[t[F].imp] # None
        <5>1. Adjacent(t, F, t[F].imp)
            BY <3>1, <3>5, <4>2, <4>4 DEF Adjacent, Importers, Present
        <5>2. t[F].imp \in S
            BY <4>2, <5>1 DEF Closed
        <5> QED
            BY <1>1, <3>5, <4>1, <5>2
      <4> QED
          BY <4>3, <4>4
    <3> QED
        BY <3>2, <3>3, <3>4, <3>5
  <2> QED
      BY <2>1, <2>2
<1> HIDE DEF V
<1>2. 0 \in Ok
    BY <1>0, <1>1
<1>3. ASSUME NEW m \in Nat, m \in Ok PROVE m + 1 \in Ok
  <2> SUFFICES ASSUME m + 1 <= N PROVE \A F \in S : ExportedIn(t)[m + 1][F] \in V
      OBVIOUS
  <2>1. m + 1 \in 0 .. N /\ (m + 1) - 1 = m /\ m <= N
      BY <1>0
  <2>2. \A F \in S : ExportedIn(t)[(m + 1) - 1][F] \in V
      BY <1>3, <2>1
  <2> QED
      BY <1>1, <2>1, <2>2
<1> HIDE DEF Ok
<1>4. n \in Ok
    BY <1>0, <1>2, <1>3, Induction
<1> QED
    BY <1>0, <1>4 DEF Ok, V

\* Files that are as they were, with all that they are connected to, export what they did.
LEMMA ExportsSame ==
    ASSUME NEW t, IsTree(t), NEW u, IsTree(u), Present(u) \subseteq Present(t),
           NEW S \in SUBSET Files, Closed(t, S), \A F \in S : t[F] = u[F],
           NEW n \in 0 .. Cardinality(Files), NEW G \in Files, G \in S \/ t[G] = None
    PROVE  ExportedIn(t)[n][G] = ExportedIn(u)[n][G]
<1> DEFINE N == Cardinality(Files)
           T == S \cup {F \in Files : t[F] = None}
           Ok == {m \in Nat : m <= N => \A F \in T : ExportedIn(t)[m][F] = ExportedIn(u)[m][F]}
<1>0. N \in Nat
    BY HowMany
<1>1. ASSUME NEW m \in 0 .. N,
             m # 0 => \A F \in T : ExportedIn(t)[m - 1][F] = ExportedIn(u)[m - 1][F],
             NEW F \in T
      PROVE  ExportedIn(t)[m][F] = ExportedIn(u)[m][F]
  <2>1. CASE t[F] = None
    <3>1. u[F] = None
        BY <2>1 DEF Present
    <3> QED
        BY <2>1, <3>1, Exporting
  <2>2. CASE t[F] # None
    <3>1. F \in S /\ F \in Present(t) /\ t[F] = u[F]
        BY <2>2 DEF Present
    <3>2. t[F].def \in BOOLEAN /\ t[F].imp \in Files \cup {None}
        BY <3>1, Contents
    <3>5. /\ t[F] # None /\ u[F] # None /\ F \in Files
          /\ t[F].def = u[F].def /\ t[F].imp = u[F].imp /\ t[F].alias = u[F].alias
        BY <2>2, <3>1
    <3>6. ExportedIn(t)[m][F] =
              IF t[F].def THEN <<F, "f">>
              ELSE IF m = 0 \/ t[F].imp = None \/ t[F].alias THEN None
              ELSE ExportedIn(t)[m - 1][t[F].imp]
        BY <3>5, Exporting
    <3>7. ExportedIn(u)[m][F] =
              IF u[F].def THEN <<F, "f">>
              ELSE IF m = 0 \/ u[F].imp = None \/ u[F].alias THEN None
              ELSE ExportedIn(u)[m - 1][u[F].imp]
        BY <3>5, Exporting
    <3>3. CASE t[F].def \/ m = 0 \/ t[F].imp = None \/ t[F].alias
        BY <3>3, <3>5, <3>6, <3>7
    <3>4. CASE ~(t[F].def \/ m = 0 \/ t[F].imp = None \/ t[F].alias)
      <4>1. /\ ExportedIn(t)[m][F] = ExportedIn(t)[m - 1][t[F].imp]
            /\ ExportedIn(u)[m][F] = ExportedIn(u)[m - 1][t[F].imp]
          BY <3>4, <3>5, <3>6, <3>7
      <4>2. t[F].imp \in Files
          BY <3>2, <3>4
      <4>3. t[t[F].imp] # None => Adjacent(t, F, t[F].imp)
          BY <3>1, <3>4, <4>2 DEF Adjacent, Importers, Present
      <4>4. t[F].imp \in T
          BY <3>1, <4>2, <4>3 DEF Closed
      <4> QED
          BY <1>1, <3>4, <4>1, <4>4
    <3> QED
        BY <3>3, <3>4
  <2> QED
      BY <2>1, <2>2
<1>2. 0 \in Ok
    BY <1>0, <1>1
<1>3. ASSUME NEW m \in Nat, m \in Ok PROVE m + 1 \in Ok
  <2> SUFFICES ASSUME m + 1 <= N
               PROVE  \A F \in T : ExportedIn(t)[m + 1][F] = ExportedIn(u)[m + 1][F]
      OBVIOUS
  <2>1. m + 1 \in 0 .. N /\ (m + 1) - 1 = m /\ m <= N
      BY <1>0
  <2>2. \A F \in T : ExportedIn(t)[(m + 1) - 1][F] = ExportedIn(u)[(m + 1) - 1][F]
      BY <1>3, <2>1
  <2> HIDE DEF T
  <2> QED
      BY <1>1, <2>1, <2>2
<1> HIDE DEF Ok
<1>4. n \in Ok
    BY <1>0, <1>2, <1>3, Induction
<1> QED
    BY <1>0, <1>4 DEF Ok

\* What a use resolves to is defined in a file that its own is connected to.
LEMMA TargetWithin ==
    ASSUME NEW t, IsTree(t), NEW S \in SUBSET Files, Closed(t, S), NEW F \in S, F \in Present(t)
    PROVE  Target(t, F) \in {<<H, "f">> : H \in S \cap Present(t)} \cup {None}
<1> DEFINE V == {<<H, "f">> : H \in S \cap Present(t)} \cup {None}
<1>0. t[F].def \in BOOLEAN /\ t[F].imp \in Files \cup {None} /\ Cardinality(Files) \in Nat
    BY Contents, HowMany
<1>1. CASE t[F].imp = None
  <2>1. Target(t, F) = <<F, "f">> \/ Target(t, F) = None
      BY <1>1 DEF Target
  <2>2. <<F, "f">> \in {<<H, "f">> : H \in S \cap Present(t)}
      OBVIOUS
  <2> QED
      BY <2>1, <2>2
<1>2. CASE t[F].imp # None
  <2>1. t[F].imp \in Files /\ Target(t, F) = ExportedIn(t)[Cardinality(Files)][t[F].imp]
      BY <1>0, <1>2 DEF Target, Exported
  <2>2. CASE t[t[F].imp] = None
    <3>1. Cardinality(Files) \in 0 .. Cardinality(Files)
        BY <1>0
    <3>2. ExportedIn(t)[Cardinality(Files)][t[F].imp] = None
        BY <2>1, <2>2, <3>1, Exporting
    <3> QED
        BY <2>1, <3>2
  <2>3. CASE t[t[F].imp] # None
    <3>1. t[F].imp \in S
        BY <1>2, <2>1, <2>3 DEF Closed, Adjacent, Importers, Present
    <3> QED
        BY <1>0, <2>1, <3>1, ExportsWithin
  <2> QED
      BY <2>2, <2>3
<1> QED
    BY <1>1, <1>2

LEMMA TargetSame ==
    ASSUME NEW t, IsTree(t), NEW u, IsTree(u), Present(u) \subseteq Present(t),
           NEW S \in SUBSET Files, Closed(t, S), \A F \in S : t[F] = u[F],
           NEW F \in S, F \in Present(t)
    PROVE  Target(t, F) = Target(u, F)
<1>0. t[F].imp \in Files \cup {None} /\ Cardinality(Files) \in Nat /\ t[F] = u[F]
    BY Contents, HowMany
<1>1. CASE t[F].imp = None
    BY <1>0, <1>1 DEF Target
<1>2. CASE t[F].imp # None
  <2>1. /\ t[F].imp \in Files
        /\ Target(t, F) = ExportedIn(t)[Cardinality(Files)][t[F].imp]
        /\ Target(u, F) = ExportedIn(u)[Cardinality(Files)][t[F].imp]
      BY <1>0, <1>2 DEF Target, Exported
  <2>2. t[F].imp \in S \/ t[t[F].imp] = None
      BY <1>2, <2>1 DEF Closed, Adjacent, Importers, Present
  <2> QED
      BY <1>0, <2>1, <2>2, ExportsSame
<1> QED
    BY <1>1, <1>2

LEMMA Used ==
    ASSUME NEW t, NEW use, use # "none", NEW F
    PROVE  F \in UsedIn(t, use) <=> F \in Files /\ t[F] # None /\ t[F].use = use
BY DEF UsedIn, Present

\* The calls in the body of a, case by case.
LEMMA Calling ==
    ASSUME NEW t, NEW a \in Anchors
    PROVE  /\ a[2] = "m" /\ a[1] \in UsedIn(t, "body") => TyOutgoing(t, a) = {Target(t, a[1])} \ {None}
           /\ a[2] = "k" /\ a[1] \in UsedIn(t, "lambda") => TyOutgoing(t, a) = {Target(t, a[1])} \ {None}
           /\ a[2] = "m" /\ a[1] \in UsedIn(t, "lambda") => TyOutgoing(t, a) = {<<a[1], "k">>}
           /\ ~ \/ a[2] = "m" /\ a[1] \in UsedIn(t, "body")
                \/ a[2] = "k" /\ a[1] \in UsedIn(t, "lambda")
                \/ a[2] = "m" /\ a[1] \in UsedIn(t, "lambda")
              => TyOutgoing(t, a) = {}
<1> DEFINE B == UsedIn(t, "body")
           L == UsedIn(t, "lambda")
<1>1. a = <<a[1], a[2]>> /\ a[1] \in Files
    BY DEF Anchors
<1>2. \A S, x : a \in {<<F, x>> : F \in S} <=> a[2] = x /\ a[1] \in S
    BY <1>1
<1>3. \A F : ~(F \in B /\ F \in L)
    BY Used
<1>4. TyOutgoing(t, a) =
          CASE (a[2] = "m" /\ a[1] \in B) \/ (a[2] = "k" /\ a[1] \in L) -> {Target(t, a[1])} \ {None}
            [] a[2] = "m" /\ a[1] \in L -> {<<a[1], "k">>}
            [] OTHER -> {}
    BY <1>2 DEF TyOutgoing
<1> HIDE DEF B, L
<1>5. /\ a[2] = "m" /\ a[1] \in B => TyOutgoing(t, a) = {Target(t, a[1])} \ {None}
      /\ a[2] = "k" /\ a[1] \in L => TyOutgoing(t, a) = {Target(t, a[1])} \ {None}
      /\ a[2] = "m" /\ a[1] \in L => TyOutgoing(t, a) = {<<a[1], "k">>}
      /\ ~ \/ a[2] = "m" /\ a[1] \in B
           \/ a[2] = "k" /\ a[1] \in L
           \/ a[2] = "m" /\ a[1] \in L
         => TyOutgoing(t, a) = {}
    BY <1>3, <1>4
<1> QED
    BY <1>5 DEF B, L

\* Who calls, and what is called.
LEMMA Callees ==
    ASSUME NEW t, IsTree(t), NEW a \in Anchors, NEW b \in TyOutgoing(t, a)
    PROVE  /\ a[1] \in Present(t) /\ b[1] \in Present(t)
           /\ b \in Anchors /\ b # None /\ b[2] \in {"f", "k"}
           /\ a \in Defs(t) \cup {<<F, "k">> : F \in UsedIn(t, "lambda")}
           /\ a \in Defs(t) \/ (<<a[1], "m">> \in Defs(t) /\ a \in TyOutgoing(t, <<a[1], "m">>))
           /\ \A S \in SUBSET Files : Closed(t, S) /\ a[1] \in S => b[1] \in S
<1>0. a = <<a[1], a[2]>> /\ a[1] \in Files /\ Present(t) \subseteq Files
    BY DEF Anchors, Present
<1>1. a[1] \in Present(t)
    BY Calling, Used, <1>0 DEF Present
<1>2. \A S \in SUBSET Files : Closed(t, S) /\ a[1] \in S =>
          Target(t, a[1]) \in {<<H, "f">> : H \in S \cap Present(t)} \cup {None}
    BY <1>1, TargetWithin
<1>3. Closed(t, Files)
    BY DEF Closed
<1> DEFINE Called ==
              /\ b[1] \in Present(t) /\ b \in Anchors /\ b # None /\ b[2] \in {"f", "k"}
              /\ \A S \in SUBSET Files : Closed(t, S) /\ a[1] \in S => b[1] \in S
<1>4. ASSUME b \in {Target(t, a[1])} \ {None} PROVE Called
  <2>1. \A S \in SUBSET Files : Closed(t, S) /\ a[1] \in S =>
            \E H \in S \cap Present(t) : b = <<H, "f">>
      BY <1>2, <1>4
  <2>2. PICK H \in Present(t) : b = <<H, "f">>
      BY <1>0, <1>3, <2>1
  <2>3. \A S \in SUBSET Files : Closed(t, S) /\ a[1] \in S => b[1] \in S
      BY <2>1
  <2>4. /\ b[1] \in Present(t) /\ b \in Anchors /\ b # None /\ b[2] \in {"f", "k"}
      BY <1>0, <1>4, <2>2 DEF Anchors
  <2> QED
      BY <2>3, <2>4
<1>5. ASSUME a[2] = "m", b = <<a[1], "k">> PROVE Called
    BY <1>0, <1>1, <1>5, NoneIsNoAnchor DEF Anchors
<1>6. (b \in {Target(t, a[1])} \ {None}) \/ (a[2] = "m" /\ b = <<a[1], "k">>)
    BY Calling
<1>7. a[2] = "m" \/ (a[2] = "k" /\ a[1] \in UsedIn(t, "lambda"))
    BY Calling
<1>8. a[2] = "m" => a \in Defs(t)
    BY <1>0, Calling DEF Defs
<1>9. a[2] = "k" => <<a[1], "m">> \in Defs(t) /\ a \in TyOutgoing(t, <<a[1], "m">>)
  <2> SUFFICES ASSUME a[2] = "k" PROVE <<a[1], "m">> \in Defs(t) /\ a \in TyOutgoing(t, <<a[1], "m">>)
      OBVIOUS
  <2>1. <<a[1], "m">> \in Anchors
      BY <1>0 DEF Anchors
  <2>2. <<a[1], "m">>[1] = a[1] /\ <<a[1], "m">>[2] = "m"
      OBVIOUS
  <2> QED
      BY <1>0, <1>7, <2>1, <2>2, Calling DEF Defs
<1>10. a[2] = "k" => a \in {<<F, "k">> : F \in UsedIn(t, "lambda")}
    BY <1>0, <1>7
<1> QED
    BY <1>1, <1>4, <1>5, <1>6, <1>7, <1>8, <1>9, <1>10

\* Calls stay within a closed set of files in the other direction too.
LEMMA ClosedBackwards ==
    ASSUME NEW t, NEW S \in SUBSET Files, Closed(t, S)
    PROVE  Closed(t, Files \ S)
BY DEF Closed, Adjacent

\* What an occurrence and a class resolve to.
LEMMA Resolving ==
    ASSUME NEW t, IsTree(t), NEW a \in Anchors,
           NEW b, b # None, b = TyResolve(t, a) \/ b \in TySupertypes(t, a)
    PROVE  /\ a[1] \in Present(t) /\ b[1] \in Present(t) /\ b \in Anchors
           /\ b = Target(t, a[1])
           /\ \A S \in SUBSET Files : Closed(t, S) /\ a[1] \in S => b[1] \in S
<1>0. a[1] \in Files /\ Present(t) \subseteq Files
    BY DEF Anchors, Present
<1>1. a[1] \in Present(t)
  <2>1. CASE b = TyResolve(t, a)
      BY <2>1 DEF TyResolve, Occurrences, Importers
  <2>2. CASE b \in TySupertypes(t, a)
      BY <2>2 DEF TySupertypes, UsedIn
  <2> QED
      BY <2>1, <2>2
<1>2. b = Target(t, a[1])
    BY DEF TyResolve, TySupertypes
<1>3. \A S \in SUBSET Files : Closed(t, S) /\ a[1] \in S =>
          \E H \in S \cap Present(t) : b = <<H, "f">>
    BY <1>1, <1>2, TargetWithin
<1>4. PICK H \in Present(t) : b = <<H, "f">>
  <2>1. Closed(t, Files)
      BY DEF Closed
  <2> QED
      BY <1>0, <1>3, <2>1
<1>5. \A S \in SUBSET Files : Closed(t, S) /\ a[1] \in S => b[1] \in S
    BY <1>3
<1> QED
    BY <1>0, <1>1, <1>2, <1>4, <1>5 DEF Anchors

\* The answers about a file that is as it was, with all that it is connected to.
LEMMA AnswersSame ==
    ASSUME NEW t, IsTree(t), NEW u, IsTree(u), Present(u) \subseteq Present(t),
           NEW S \in SUBSET Files, Closed(t, S), \A F \in S : t[F] = u[F],
           NEW a \in Anchors, a[1] \in S
    PROVE  /\ TyOutgoing(t, a) = TyOutgoing(u, a)
           /\ TyResolve(t, a) = TyResolve(u, a)
           /\ TySupertypes(t, a) = TySupertypes(u, a)
<1> DEFINE F == a[1]
<1>0. F \in Files /\ t[F] = u[F]
    BY DEF Anchors
<1>1. \A use \in Uses \ {"none"} : F \in UsedIn(t, use) <=> F \in UsedIn(u, use)
    BY <1>0, Used
<1>2. F \in Present(t) <=> F \in Present(u)
    BY <1>0 DEF Present
<1>3. \A use \in Uses : F \in UsedIn(t, use) => F \in Present(t)
    BY DEF UsedIn
<1>4. F \in Present(t) => Target(t, F) = Target(u, F)
    BY TargetSame
<1>5. TyOutgoing(t, a) = TyOutgoing(u, a)
  <2>1. F \in UsedIn(t, "body") <=> F \in UsedIn(u, "body")
      BY <1>1 DEF Uses
  <2>2. F \in UsedIn(t, "lambda") <=> F \in UsedIn(u, "lambda")
      BY <1>1 DEF Uses
  <2>3. F \in UsedIn(t, "body") \/ F \in UsedIn(t, "lambda") => Target(t, F) = Target(u, F)
      BY <1>3, <1>4 DEF Uses
  <2>4. CASE a[2] = "m" /\ F \in UsedIn(t, "body")
      BY ZenonT(40), <2>1, <2>3, <2>4, Calling
  <2>5. CASE a[2] = "k" /\ F \in UsedIn(t, "lambda")
      BY <2>2, <2>3, <2>5, Calling
  <2>6. CASE a[2] = "m" /\ F \in UsedIn(t, "lambda")
      BY <2>2, <2>6, Calling
  <2>7. CASE ~ \/ a[2] = "m" /\ F \in UsedIn(t, "body")
               \/ a[2] = "k" /\ F \in UsedIn(t, "lambda")
               \/ a[2] = "m" /\ F \in UsedIn(t, "lambda")
    <3>1. TyOutgoing(t, a) = {}
        BY <2>7, Calling
    <3>2. TyOutgoing(u, a) = {}
        BY <2>1, <2>2, <2>7, Calling
    <3> QED
        BY <3>1, <3>2
  <2> QED
      BY <2>4, <2>5, <2>6, <2>7
<1>6. a = <<F, a[2]>>
    BY DEF Anchors
<1>7. TyResolve(t, a) = TyResolve(u, a)
  <2>1. a \in Occurrences(t) <=> a \in Occurrences(u)
    <3>1. F \in Importers(t) <=> F \in Importers(u)
        BY <1>0, <1>2 DEF Importers
    <3>2. F \in UsedIn(t, "none") <=> F \in UsedIn(u, "none")
        BY <1>0, <1>2 DEF UsedIn
    <3>3. \A w : a \in Occurrences(w) <=>
              \/ a[2] = "import" /\ F \in Importers(w)
              \/ a[2] = "use" /\ F \in Present(w) \ UsedIn(w, "none")
        BY <1>6 DEF Occurrences
    <3> QED
        BY <1>2, <3>1, <3>2, <3>3
  <2>2. a \in Occurrences(t) => F \in Present(t)
      BY <1>6 DEF Occurrences, Importers
  <2> QED
      BY <1>4, <2>1, <2>2 DEF TyResolve
<1>8. TySupertypes(t, a) = TySupertypes(u, a)
  <2>1. F \in UsedIn(t, "base") <=> F \in UsedIn(u, "base")
      BY <1>1 DEF Uses
  <2>2. \A w : a \in {<<G, "c">> : G \in UsedIn(w, "base")} <=> a[2] = "c" /\ F \in UsedIn(w, "base")
      BY <1>6
  <2>3. F \in UsedIn(t, "base") => Target(t, F) = Target(u, F)
      BY <1>3, <1>4 DEF Uses
  <2> QED
      BY <2>1, <2>2, <2>3 DEF TySupertypes
<1> QED
    BY <1>5, <1>7, <1>8

\* The callers of a in the tree t.
Live(t, a) == FromScratch(t).incoming[a]

LEMMA Callers ==
    ASSUME NEW t, NEW a \in Anchors
    PROVE  /\ Live(t, a) = {b \in Anchors : a \in TyOutgoing(t, b)}
                           \cup {<<F, "module">> : F \in ModuleCallers(t, Files, a)}
           /\ \A F : F \in ModuleCallers(t, Files, a) <=>
                  F \in UsedIn(t, "module") /\ TyResolve(t, <<F, "use">>) = a
           /\ \A S \in SUBSET Files : ModuleCallers(t, S, a) = ModuleCallers(t, Files, a) \cap S
           /\ TyIncoming(t, a) \subseteq {b \in Anchors : a \in TyOutgoing(t, b)}
<1>1. \A b : b \in {c \in Anchors : a \in [d \in Anchors |-> TyOutgoing(t, d)][c]} <=>
              b \in {c \in Anchors : a \in TyOutgoing(t, c)}
    OBVIOUS
<1>2. Live(t, a) = {b \in Anchors : a \in [d \in Anchors |-> TyOutgoing(t, d)][b]}
                   \cup {<<F, "module">> : F \in ModuleCallers(t, Files, a)}
    BY DEF Live, FromScratch
<1>3. \A use : UsedIn(t, use) \subseteq Files
    BY DEF UsedIn, Present
<1>4. \A S \in SUBSET Files : ModuleCallers(t, S, a) =
          {F \in UsedIn(t, "module") \cap S : TyResolve(t, <<F, "use">>) = a}
    BY DEF ModuleCallers
<1>5. Defs(t) \cup {<<F, "k">> : F \in UsedIn(t, "lambda")} \subseteq Anchors
    BY <1>3 DEF Defs, Anchors, Present
<1>6. TyIncoming(t, a) \subseteq {b \in Anchors : a \in TyOutgoing(t, b)}
    BY <1>5 DEF TyIncoming
<1> QED
    BY <1>1, <1>2, <1>3, <1>4, <1>6

\* A caller and its callee are connected.
LEMMA CallersWithin ==
    ASSUME NEW t, IsTree(t), NEW a \in Anchors, NEW b \in Live(t, a)
    PROVE  /\ b \in Anchors /\ a[1] \in Present(t) /\ b[1] \in Present(t)
           /\ \A S \in SUBSET Files : Closed(t, S) => (a[1] \in S <=> b[1] \in S)
<1>0. a[1] \in Files
    BY DEF Anchors
<1> DEFINE Near == /\ b \in Anchors /\ a[1] \in Present(t) /\ b[1] \in Present(t)
                   /\ \A S \in SUBSET Files : Closed(t, S) /\ b[1] \in S => a[1] \in S
<1>1. ASSUME b \in Anchors, a \in TyOutgoing(t, b) PROVE Near
    BY <1>1, Callees
<1>2. ASSUME NEW F \in ModuleCallers(t, Files, a), b = <<F, "module">> PROVE Near
  <2>1. F \in UsedIn(t, "module") /\ TyResolve(t, <<F, "use">>) = a
      BY Callers
  <2>2. F \in Files /\ <<F, "use">> \in Anchors /\ <<F, "use">>[1] = F /\ b[1] = F /\ b \in Anchors
      BY <1>2, <2>1 DEF UsedIn, Present, Anchors
  <2>3. a # None
      BY NoneIsNoAnchor
  <2> QED
      BY <2>1, <2>2, <2>3, Resolving
<1>3. Near
    BY <1>1, <1>2, Callers
<1>4. \A S \in SUBSET Files : Closed(t, S) /\ a[1] \in S => b[1] \in S
  <2> SUFFICES ASSUME NEW S \in SUBSET Files, Closed(t, S), a[1] \in S, b[1] \notin S PROVE FALSE
      OBVIOUS
  <2>1. Closed(t, Files \ S) /\ b[1] \in Files \ S
      BY <1>3, ClosedBackwards DEF Anchors
  <2> QED
      BY <1>3, <2>1
<1> QED
    BY <1>3, <1>4

\* The callers within a closed set of files that are as they were.
LEMMA CallersSame ==
    ASSUME NEW t, IsTree(t), NEW u, IsTree(u), Present(u) \subseteq Present(t),
           NEW S \in SUBSET Files, Closed(t, S), \A F \in S : t[F] = u[F],
           NEW a \in Anchors, NEW b, b[1] \in S
    PROVE  b \in Live(t, a) <=> b \in Live(u, a)
<1>1. b \in Anchors => (a \in TyOutgoing(t, b) <=> a \in TyOutgoing(u, b))
    BY AnswersSame
<1>2. ASSUME NEW F, b = <<F, "module">>
      PROVE  F \in ModuleCallers(t, Files, a) <=> F \in ModuleCallers(u, Files, a)
  <2>1. F \in S /\ F \in Files /\ <<F, "use">> \in Anchors /\ <<F, "use">>[1] = F
      BY <1>2 DEF Anchors
  <2>2. F \in UsedIn(t, "module") <=> F \in UsedIn(u, "module")
      BY <2>1, Used
  <2>3. TyResolve(t, <<F, "use">>) = TyResolve(u, <<F, "use">>)
      BY <2>1, AnswersSame
  <2> QED
      BY <2>2, <2>3, Callers
<1>3. \A w : b \in Live(w, a) <=>
          \/ b \in Anchors /\ a \in TyOutgoing(w, b)
          \/ \E F : b = <<F, "module">> /\ F \in ModuleCallers(w, Files, a)
    BY Callers
<1> QED
    BY <1>1, <1>2, <1>3

-----------------------------------------------------------------------------
(* The inductive invariant *)

\* There is a recording, or one is being made.
Underway == phase # "idle" \/ recorded # None

\* How the tree has changed since it was recorded.
Growing ==
    /\ phase # "idle" => recorded = tree
    /\ recorded # None /\ "deleted" \notin lostEdges => Present(recorded) \subseteq Present(tree)
    /\ recorded # None /\ lostEdges = {} =>
          \A F \in Importers(recorded) : F \in Importers(tree) /\ tree[F].imp = recorded[F].imp

\* The waves lose no node.
Search ==
    phase = "edges" =>
        /\ \A a \in Defs(recorded) : a[1] \in affected => a \in seen
        /\ \A a \in seen \ frontier : TyOutgoing(recorded, a) \subseteq seen

\* The anchors whose calls have been asked for.
Queried(a) == IF phase = "edges" THEN a \in seen \ frontier ELSE a[1] \in affected

\* An entry that was copied, in a tree that lost no file, and one that is made anew.
Kept(a) == a[1] \notin affected /\ "deleted" \notin lostEdges
Anew(a) == a[1] \in affected

ForwardIsTy ==
    \A a \in Anchors :
        /\ Queried(a) \/ Kept(a) => rec.outgoing[a] = TyOutgoing(recorded, a)
        /\ ~Queried(a) /\ Anew(a) => rec.outgoing[a] = {}
        /\ Kept(a) \/ (Anew(a) /\ phase # "edges") => rec.supertypes[a] = TySupertypes(recorded, a)
        /\ Kept(a) \/ (Anew(a) /\ phase = "idle") => rec.resolve[a] = TyResolve(recorded, a)

CallersAreTrue ==
    \A a \in Anchors : Anew(a) => rec.incoming[a] \subseteq Live(recorded, a)

CallersAreMet ==
    \A a \in Anchors :
        /\ \A b \in Anchors : Queried(b) /\ a \in TyOutgoing(recorded, b) => b \in rec.incoming[a]
        /\ phase = "idle" =>
              \A F \in ModuleCallers(recorded, affected, a) : <<F, "module">> \in rec.incoming[a]

\* As long as no import is lost, what is recorded anew is a whole component.
Grown ==
    lostEdges = {} =>
        /\ Closed(recorded, affected)
        /\ \A a \in Anchors : ~Anew(a) => rec.incoming[a] = Live(recorded, a)

AnswersAt(a) == rec.outgoing[a] \cup rec.incoming[a] \cup {rec.resolve[a]} \cup rec.supertypes[a]

NoneGone ==
    \A a \in Anchors : \A b \in AnswersAt(a) \ {None} : {a[1], b[1]} \subseteq Present(recorded)

IInv ==
    /\ TypeOK
    /\ Growing
    /\ Underway => /\ Search /\ ForwardIsTy
                   /\ CallersAreTrue /\ CallersAreMet /\ Grown /\ NoneGone

LEMMA Typed ==
    ASSUME TypeOK, Growing
    PROVE  /\ IsTree(tree) /\ (Underway => IsTree(recorded))
           /\ rec \in Recording /\ affected \subseteq Files
           /\ frontier \subseteq seen /\ seen \subseteq Anchors
BY DEF TypeOK, Growing, Underway, IsTree

LEMMA InitInv == Init => IInv
<1> SUFFICES ASSUME Init PROVE IInv
    OBVIOUS
<1>1. EmptyRecording \in Recording
    BY DEF EmptyRecording, Recording
<1> QED
    BY <1>1 DEF Init, IInv, TypeOK, Growing, Underway

\* A recording that is complete has the callers, and only they, of what was recorded anew
\* with all that it is connected to.
LEMMA CallersOfClosed ==
    ASSUME IInv, Complete, NEW S \in SUBSET affected, Closed(recorded, S),
           NEW a \in Anchors, a[1] \in S
    PROVE  rec.incoming[a] = Live(recorded, a)
<1>1. /\ IsTree(recorded) /\ affected \subseteq Files /\ phase = "idle" /\ Underway
      /\ CallersAreTrue /\ CallersAreMet
    BY Typed DEF IInv, Complete, Underway
<1>2. rec.incoming[a] \subseteq Live(recorded, a)
    BY <1>1 DEF CallersAreTrue, Anew
<1>3. ASSUME NEW b \in Live(recorded, a) PROVE b \in rec.incoming[a]
  <2>1. b \in Anchors /\ b[1] \in affected
      BY <1>1, CallersWithin
  <2>2. CASE a \in TyOutgoing(recorded, b)
      BY <1>1, <2>1, <2>2 DEF CallersAreMet, Queried
  <2>3. ASSUME NEW F \in ModuleCallers(recorded, Files, a), b = <<F, "module">>
        PROVE  b \in rec.incoming[a]
    <3>1. F \in ModuleCallers(recorded, affected, a)
        BY <1>1, <2>1, <2>3, Callers
    <3> QED
        BY <1>1, <2>3, <3>1 DEF CallersAreMet
  <2> QED
      BY <2>2, <2>3, Callers
<1> QED
    BY <1>2, <1>3

-----------------------------------------------------------------------------
(* Edits *)

LEMMA EditInv == IInv /\ Edit => IInv'
<1> SUFFICES ASSUME IInv, NEW F \in Files, EditFile(F) \/ DeleteFile(F) PROVE IInv'
    BY DEF Edit
<1>0. /\ phase = "idle" /\ UNCHANGED <<recorded, rec, phase, affected, frontier, seen>>
      /\ lostEdges \subseteq lostEdges' /\ TypeOK /\ Growing
    BY DEF IInv, EditFile, DeleteFile
<1>1. PICK c \in Content \cup {None} :
          /\ tree' = [tree EXCEPT ![F] = c]
          /\ c = None => lostEdges' = lostEdges \cup {"deleted"}
          /\ c # None => /\ lostEdges' = IF F \in Importers(tree) /\ c.imp # tree[F].imp
                                         THEN lostEdges \cup {"dropped"} ELSE lostEdges
  <2>1. CASE EditFile(F)
    <3>1. PICK c \in Menu[F] :
              /\ tree' = [tree EXCEPT ![F] = c]
              /\ lostEdges' = IF F \in Importers(tree) /\ c.imp # tree[F].imp
                              THEN lostEdges \cup {"dropped"} ELSE lostEdges
        BY <2>1 DEF EditFile
    <3>2. c \in Content /\ c # None
        BY MenuType, NoneIsNothing
    <3> QED
        BY <3>1, <3>2
  <2>2. CASE DeleteFile(F)
      BY <2>2 DEF DeleteFile
  <2> QED
      BY <2>1, <2>2
<1>2. /\ tree' \in [Files -> Content \cup {None}] /\ tree'[F] = c
      /\ \A G \in Files \ {F} : tree'[G] = tree[G]
    BY <1>0, <1>1 DEF TypeOK
<1>3. TypeOK'
    BY <1>0, <1>1, <1>2 DEF TypeOK
<1>4. Growing'
  <2>1. ASSUME recorded # None, "deleted" \notin lostEdges'
        PROVE  Present(recorded) \subseteq Present(tree')
    <3>1. Present(recorded) \subseteq Present(tree) /\ c # None
        BY <1>0, <1>1, <2>1 DEF Growing
    <3> QED
        BY <1>2, <3>1 DEF Present
  <2>2. ASSUME recorded # None, lostEdges' = {}, NEW G \in Importers(recorded)
        PROVE  G \in Importers(tree') /\ tree'[G].imp = recorded[G].imp
    <3>1. G \in Importers(tree) /\ tree[G].imp = recorded[G].imp
        BY <1>0, <2>2 DEF Growing
    <3>2. c # None /\ (F \in Importers(tree) => c.imp = tree[F].imp)
        BY <1>1, <2>2
    <3> QED
        BY <1>2, <3>1, <3>2 DEF Importers, Present
  <2> QED
      BY <1>0, <2>1, <2>2 DEF Growing
<1>5. ASSUME Underway
      PROVE  (Search /\ ForwardIsTy /\ CallersAreTrue /\ CallersAreMet /\ Grown /\ NoneGone)'
  <2>1. ForwardIsTy'
      BY <1>0, <1>5 DEF IInv, ForwardIsTy, Queried, Kept, Anew
  <2>2. CallersAreTrue' /\ CallersAreMet' /\ NoneGone' /\ Search'
      BY <1>0, <1>5 DEF IInv, CallersAreTrue, CallersAreMet, NoneGone, Search, Queried, Anew, AnswersAt
  <2>3. Grown'
      BY <1>0, <1>5 DEF IInv, Grown, Anew
  <2> QED
      BY <2>1, <2>2, <2>3
<1> QED
    BY <1>0, <1>3, <1>4, <1>5 DEF IInv, Underway

-----------------------------------------------------------------------------
(* A recording begins *)

LEMMA Components ==
    ASSUME NEW t, NEW changed \in SUBSET Files
    PROVE  /\ changed \subseteq Component(t, changed)
           /\ Component(t, changed) \subseteq Files
           /\ Closed(t, Component(t, changed))
BY DEF Component, Closed

\* What was connected still is, if no import was lost.
LEMMA ClosedBefore ==
    ASSUME NEW t, NEW u, Present(u) \subseteq Present(t),
           \A F \in Importers(u) : F \in Importers(t) /\ t[F].imp = u[F].imp,
           NEW S \in SUBSET Files, Closed(t, S)
    PROVE  Closed(u, S)
BY DEF Closed, Adjacent

LEMMA BeginTyped ==
    ASSUME TypeOK, NEW carried \in Recording, NEW wanted \in SUBSET Files, Begin(carried, wanted),
           lostEdges' \in {lostEdges, {}}
    PROVE  /\ TypeOK' /\ Growing' /\ Search' /\ phase = "idle" /\ phase' = "edges"
           /\ recorded' = tree /\ rec' = carried /\ affected' = wanted
           /\ IsTree(tree) /\ \A a : ~Queried(a)'
<1>1. /\ phase = "idle" /\ rec' = carried /\ affected' = wanted /\ phase' = "edges"
      /\ frontier' = {a \in Defs(tree) : a[1] \in wanted} /\ seen' = frontier'
      /\ recorded' = tree /\ tree' = tree
    BY DEF Begin
<1>2. Defs(tree) \subseteq Anchors
    BY DEF Defs, Anchors, Present, UsedIn
<1>3. TypeOK'
    BY <1>1, <1>2 DEF TypeOK
<1>4. Growing'
    BY <1>1 DEF Growing
<1>5. Search' /\ \A a : ~Queried(a)'
    BY <1>1 DEF Search, Queried
<1> QED
    BY <1>1, <1>3, <1>4, <1>5 DEF TypeOK, IsTree

LEMMA ColdInv == IInv /\ RecordCold => IInv'
<1> SUFFICES ASSUME IInv, RecordCold PROVE IInv'
    OBVIOUS
<1>1. /\ EmptyRecording \in Recording
      /\ \A a \in Anchors : /\ EmptyRecording.outgoing[a] = {} /\ EmptyRecording.incoming[a] = {}
                            /\ EmptyRecording.resolve[a] = None /\ EmptyRecording.supertypes[a] = {}
    BY DEF EmptyRecording, Recording
<1>2. /\ TypeOK' /\ Growing' /\ Search' /\ phase' = "edges"
      /\ recorded' = tree /\ rec' = EmptyRecording /\ affected' = Files
      /\ \A a : ~Queried(a)'
  <2>1. Begin(EmptyRecording, Files) /\ lostEdges' \in {lostEdges, {}} /\ TypeOK
      BY DEF RecordCold, IInv
  <2> QED
      BY <1>1, <2>1, BeginTyped
<1>3. \A a \in Anchors : Anew(a)' /\ ~Kept(a)'
    BY <1>2 DEF Anew, Kept, Anchors
<1>4. ForwardIsTy' /\ CallersAreTrue' /\ CallersAreMet'
    BY <1>1, <1>2, <1>3 DEF ForwardIsTy, CallersAreTrue, CallersAreMet
<1>5. Grown'
    BY <1>2, <1>3 DEF Grown, Closed
<1>6. NoneGone'
    BY <1>1, <1>2 DEF NoneGone, AnswersAt
<1> QED
    BY <1>2, <1>4, <1>5, <1>6 DEF IInv

\* What an incremental recording copies.
LEMMA Carried ==
    ASSUME NEW r \in Recording, NEW redo
    PROVE  /\ CarryOver(r, redo) \in Recording
           /\ \A a \in Anchors :
                 /\ a[1] \in redo => /\ CarryOver(r, redo).outgoing[a] = {}
                                     /\ CarryOver(r, redo).incoming[a] = {}
                                     /\ CarryOver(r, redo).resolve[a] = None
                                     /\ CarryOver(r, redo).supertypes[a] = {}
                 /\ a[1] \notin redo => /\ CarryOver(r, redo).outgoing[a] = r.outgoing[a]
                                        /\ CarryOver(r, redo).incoming[a] = r.incoming[a]
                                        /\ CarryOver(r, redo).resolve[a] = r.resolve[a]
                                        /\ CarryOver(r, redo).supertypes[a] = r.supertypes[a]
BY DEF CarryOver, Recording

\* As long as no import is lost, the safety net adds nothing to the component.
LEMMA NetIsIdle ==
    ASSUME IInv, Complete, lostEdges = {}
    PROVE  ComputeAffected(rec, tree, Changed) = Component(tree, Changed)
<1> DEFINE C == Component(tree, Changed)
<1>1. /\ IsTree(recorded) /\ affected \subseteq Files /\ phase = "idle" /\ Underway
      /\ ForwardIsTy /\ Grown /\ Growing /\ recorded # None
    BY Typed DEF IInv, Complete, Underway
<1>2. /\ Changed \subseteq C /\ C \subseteq Files /\ Closed(tree, C)
  <2>1. Changed \in SUBSET Files
      BY DEF Changed
  <2> QED
      BY <2>1, Components
<1> HIDE DEF C
<1>3. Closed(recorded, C)
    BY <1>1, <1>2, ClosedBefore DEF Growing
<1>4. Closed(recorded, Files \ C) /\ Files \ C \in SUBSET Files
    BY <1>2, <1>3, ClosedBackwards
<1>5. ASSUME NEW a \in Anchors, PointsInto(rec, a, Changed), a[1] \notin C PROVE FALSE
  <2>1. a[1] \in Files \ C
      BY <1>5 DEF Anchors
  <2>2. PICK b \in AnswersAt(a) : b # None /\ b[1] \in C
      BY <1>2, <1>5 DEF PointsInto, AnswersAt
  <2>3. Queried(a) \/ Kept(a)
      BY <1>1 DEF Queried, Kept
  <2>4. Kept(a) \/ (Anew(a) /\ phase = "idle")
      BY <1>1 DEF Kept, Anew
  <2>5. /\ rec.outgoing[a] = TyOutgoing(recorded, a)
        /\ rec.supertypes[a] = TySupertypes(recorded, a)
        /\ rec.resolve[a] = TyResolve(recorded, a)
      BY <1>1, <2>3, <2>4 DEF ForwardIsTy
  <2>6. rec.incoming[a] = Live(recorded, a)
      BY <1>1, CallersOfClosed DEF Grown, Anew
  <2>7. CASE b \in TyOutgoing(recorded, a)
      BY <1>1, <1>4, <2>1, <2>2, <2>7, Callees
  <2>8. CASE b \in Live(recorded, a)
      BY <1>1, <1>4, <2>1, <2>2, <2>8, CallersWithin
  <2>9. CASE b = TyResolve(recorded, a) \/ b \in TySupertypes(recorded, a)
      BY <1>1, <1>4, <2>1, <2>2, <2>9, Resolving
  <2> QED
      BY <2>2, <2>5, <2>6, <2>7, <2>8, <2>9 DEF AnswersAt
<1> QED
    BY <1>5 DEF ComputeAffected, C

LEMMA IncrementalInv == IInv /\ RecordIncremental => IInv'
<1> SUFFICES ASSUME IInv, RecordIncremental PROVE IInv'
    OBVIOUS
<1> DEFINE C == Component(tree, Changed)
           R == ComputeAffected(rec, tree, Changed)
           K == Files \ C
<1>1. /\ recorded # None /\ phase = "idle" /\ lostEdges' = lostEdges /\ Begin(CarryOver(rec, R), R)
      /\ TypeOK /\ Underway /\ Complete
      /\ IsTree(tree) /\ IsTree(recorded) /\ rec \in Recording
      /\ Growing /\ ForwardIsTy /\ CallersAreTrue /\ CallersAreMet /\ Grown /\ NoneGone
    BY Typed DEF IInv, RecordIncremental, Begin, Underway, Complete
<1>2. /\ Changed \subseteq C /\ C \subseteq R /\ R \subseteq Files /\ Closed(tree, C)
  <2>1. Changed \in SUBSET Files
      BY DEF Changed
  <2> QED
      BY <2>1, Components DEF ComputeAffected, Anchors
<1>3. /\ Closed(tree, K) /\ \A F \in K : tree[F] = recorded[F]
  <2>1. \A F \in K : tree[F] = recorded[F]
      BY <1>2 DEF Changed
  <2> QED
      BY <1>2, <2>1, ClosedBackwards
<1>4. /\ TypeOK' /\ Growing' /\ Search' /\ phase' = "edges"
      /\ recorded' = tree /\ rec' = CarryOver(rec, R) /\ affected' = R
      /\ \A a : ~Queried(a)'
  <2>1. CarryOver(rec, R) \in Recording /\ R \in SUBSET Files
      BY <1>1, <1>2, Carried
  <2> HIDE DEF R
  <2> QED
      BY <1>1, <2>1, BeginTyped
<1>5. \A a \in Anchors :
          /\ a[1] \in R => /\ rec'.outgoing[a] = {} /\ rec'.incoming[a] = {}
                           /\ rec'.resolve[a] = None /\ rec'.supertypes[a] = {}
          /\ a[1] \notin R => /\ rec'.outgoing[a] = rec.outgoing[a]
                              /\ rec'.incoming[a] = rec.incoming[a]
                              /\ rec'.resolve[a] = rec.resolve[a]
                              /\ rec'.supertypes[a] = rec.supertypes[a]
  <2> HIDE DEF R
  <2> QED
    BY <1>1, <1>4, Carried
<1> HIDE DEF C, R
<1>6. \A a \in Anchors : (Anew(a)' <=> a[1] \in R) /\ (a[1] \notin R => a[1] \in K)
    BY <1>2, <1>4 DEF Anew, Anchors
<1>7. ForwardIsTy'
  <2> SUFFICES ASSUME NEW a \in Anchors, Kept(a)'
               PROVE  /\ rec'.outgoing[a] = TyOutgoing(tree, a)
                      /\ rec'.supertypes[a] = TySupertypes(tree, a)
                      /\ rec'.resolve[a] = TyResolve(tree, a)
    <3>1. \A a \in Anchors : Anew(a)' => rec'.outgoing[a] = {}
        BY <1>5, <1>6
    <3> QED
        BY <1>4, <3>1 DEF ForwardIsTy
  <2>1. a[1] \notin R /\ a[1] \in K /\ "deleted" \notin lostEdges
      BY <1>1, <1>4, <1>6 DEF Kept
  <2>2. Present(recorded) \subseteq Present(tree)
      BY <1>1, <2>1 DEF Growing
  <2>3. (Queried(a) \/ Kept(a)) /\ (Kept(a) \/ (Anew(a) /\ phase = "idle"))
      BY <1>1, <2>1 DEF Queried, Kept, Anew
  <2>4. /\ rec.outgoing[a] = TyOutgoing(recorded, a)
        /\ rec.supertypes[a] = TySupertypes(recorded, a)
        /\ rec.resolve[a] = TyResolve(recorded, a)
      BY <1>1, <2>3 DEF ForwardIsTy
  <2>5. /\ TyOutgoing(tree, a) = TyOutgoing(recorded, a)
        /\ TySupertypes(tree, a) = TySupertypes(recorded, a)
        /\ TyResolve(tree, a) = TyResolve(recorded, a)
    <3> HIDE DEF K
    <3>1. K \in SUBSET Files
        BY DEF K
    <3> QED
        BY <1>1, <1>3, <2>1, <2>2, <3>1, AnswersSame
  <2> QED
      BY <1>5, <2>1, <2>4, <2>5
<1>8. CallersAreTrue' /\ CallersAreMet'
    BY <1>4, <1>5, <1>6 DEF CallersAreTrue, CallersAreMet
<1>9. Grown'
  <2> SUFFICES ASSUME lostEdges = {}
               PROVE  /\ Closed(tree, R)
                      /\ \A a \in Anchors : a[1] \notin R => rec'.incoming[a] = Live(tree, a)
      BY <1>1, <1>4, <1>6 DEF Grown
  <2>1. R = C
      BY <1>1, NetIsIdle DEF R, C
  <2>2. /\ Present(recorded) \subseteq Present(tree)
        /\ \A F \in Importers(recorded) : F \in Importers(tree) /\ tree[F].imp = recorded[F].imp
      BY <1>1 DEF Growing
  <2>3. Closed(recorded, K) /\ K \in SUBSET Files
      BY <1>3, <2>2, ClosedBefore
  <2>4. ASSUME NEW a \in Anchors, a[1] \notin R PROVE rec'.incoming[a] = Live(tree, a)
    <3>1. rec'.incoming[a] = Live(recorded, a)
        BY <1>1, <1>5, <2>4, CallersOfClosed DEF Grown, Anew
    <3>2. a[1] \in K
        BY <1>6, <2>4
    <3> HIDE DEF K
    <3>3. \A b \in Live(recorded, a) : b[1] \in K
        BY <1>1, <2>3, <3>2, CallersWithin
    <3>4. \A b \in Live(tree, a) : b[1] \in K
        BY <1>1, <1>3, <2>3, <3>2, CallersWithin
    <3>5. \A b : b[1] \in K => (b \in Live(tree, a) <=> b \in Live(recorded, a))
        BY <1>1, <1>3, <2>2, <2>3, CallersSame
    <3> QED
        BY <3>1, <3>3, <3>4, <3>5
  <2> QED
      BY <1>2, <2>1, <2>4
<1>10. NoneGone'
  <2> SUFFICES ASSUME NEW a \in Anchors, NEW b \in AnswersAt(a)', b # None
               PROVE  {a[1], b[1]} \subseteq Present(tree)
      BY <1>4 DEF NoneGone
  <2>1. a[1] \notin R
      BY <1>5 DEF AnswersAt
  <2>2. b \in AnswersAt(a)
      BY <1>5, <2>1 DEF AnswersAt
  <2>3. a[1] \in Present(recorded) /\ b[1] \in Present(recorded)
      BY <1>1, <2>2 DEF NoneGone
  <2>4. a[1] \notin Changed /\ b[1] \notin Changed
      BY <1>2, <2>1, <2>2 DEF R, ComputeAffected, PointsInto, AnswersAt
  <2> QED
      BY <2>3, <2>4 DEF Present, Changed
<1> QED
    BY <1>4, <1>7, <1>8, <1>9, <1>10 DEF IInv

-----------------------------------------------------------------------------
(* A recording goes on *)

LEMMA WaveInv == IInv /\ Wave => IInv'
<1> SUFFICES ASSUME IInv, Wave PROVE IInv'
    OBVIOUS
<1> DEFINE found == UNION {TyOutgoing(tree, a) \cup TyIncoming(tree, a) : a \in frontier}
<1>1. /\ phase = "edges" /\ recorded = tree /\ Underway /\ TypeOK /\ Growing
      /\ IsTree(tree) /\ rec \in Recording /\ frontier \subseteq seen /\ seen \subseteq Anchors
      /\ Search /\ ForwardIsTy /\ CallersAreTrue /\ CallersAreMet /\ Grown /\ NoneGone
    BY Typed DEF IInv, Wave, Underway, Growing
<1>2. /\ UNCHANGED <<tree, recorded, phase, affected, lostEdges>>
      /\ frontier' = found \ seen /\ seen' = seen \cup found
      /\ rec' = [rec EXCEPT
                   !.outgoing = [a \in Anchors |-> IF a \in frontier
                                                   THEN TyOutgoing(tree, a) ELSE @[a]],
                   !.incoming = [a \in Anchors |-> @[a] \cup Gained(a)]]
    BY DEF Wave
<1>3. ASSUME NEW a \in frontier
      PROVE  TyOutgoing(tree, a) \subseteq Anchors /\ TyIncoming(tree, a) \subseteq Anchors
  <2>1. a \in Anchors
      BY <1>1
  <2> QED
      BY <1>1, <2>1, Callees, Callers
<1>4. ASSUME NEW a \in Anchors
      PROVE  /\ Gained(a) \subseteq {b \in Anchors : a \in TyOutgoing(tree, b)}
             /\ \A b \in frontier : a \in TyOutgoing(tree, b) => b \in Gained(a)
    BY <1>1, Callers DEF Gained
<1>5. \A a \in Anchors :
          /\ rec'.outgoing[a] = IF a \in frontier THEN TyOutgoing(tree, a) ELSE rec.outgoing[a]
          /\ rec'.incoming[a] = rec.incoming[a] \cup Gained(a)
          /\ rec'.resolve[a] = rec.resolve[a] /\ rec'.supertypes[a] = rec.supertypes[a]
    BY <1>1, <1>2 DEF Recording
<1>6. found \subseteq Anchors
    BY <1>3
<1>7. TypeOK'
  <2>1. rec' \in Recording
    <3>1. [a \in Anchors |-> IF a \in frontier THEN TyOutgoing(tree, a) ELSE rec.outgoing[a]]
              \in [Anchors -> SUBSET Anchors]
        BY <1>1, <1>3 DEF Recording
    <3>2. [a \in Anchors |-> rec.incoming[a] \cup Gained(a)] \in [Anchors -> SUBSET Anchors]
        BY <1>1, <1>4 DEF Recording
    <3> QED
        BY <1>1, <1>2, <3>1, <3>2 DEF Recording
  <2> HIDE DEF found
  <2> QED
      BY <1>1, <1>2, <1>6, <2>1 DEF TypeOK
<1>8. Growing'
    BY <1>1, <1>2 DEF Growing
<1>9. \A a : Queried(a)' <=> a \in seen
    BY <1>1, <1>2 DEF Queried
<1>10. Search'
  <2>1. \A a \in seen' \ frontier' : TyOutgoing(tree, a) \subseteq seen'
    <3>1. \A a \in frontier : TyOutgoing(tree, a) \subseteq found
        OBVIOUS
    <3> HIDE DEF found
    <3> QED
        BY <1>1, <1>2, <3>1 DEF Search
  <2> QED
      BY <1>1, <1>2, <2>1 DEF Search
<1> HIDE DEF found
<1>11. ForwardIsTy'
  <2> SUFFICES ASSUME NEW a \in Anchors
               PROVE  /\ a \in seen \/ Kept(a) => rec'.outgoing[a] = TyOutgoing(tree, a)
                      /\ a \notin seen /\ Anew(a) => rec'.outgoing[a] = {}
                      /\ Kept(a) => rec'.supertypes[a] = TySupertypes(tree, a)
                      /\ Kept(a) => rec'.resolve[a] = TyResolve(tree, a)
      BY <1>1, <1>2, <1>9 DEF ForwardIsTy, Kept, Anew
  <2>1. /\ Queried(a) \/ Kept(a) => rec.outgoing[a] = TyOutgoing(tree, a)
        /\ ~Queried(a) /\ Anew(a) => rec.outgoing[a] = {}
        /\ Kept(a) => rec.supertypes[a] = TySupertypes(tree, a)
        /\ Kept(a) => rec.resolve[a] = TyResolve(tree, a)
      BY <1>1 DEF ForwardIsTy
  <2>2. Queried(a) <=> a \in seen \ frontier
      BY <1>1 DEF Queried
  <2> QED
      BY <1>1, <1>5, <2>1, <2>2
<1>12. CallersAreTrue'
    BY <1>1, <1>2, <1>4, <1>5, Callers DEF CallersAreTrue, Anew
<1>13. CallersAreMet'
  <2> SUFFICES ASSUME NEW a \in Anchors, NEW b \in seen, a \in TyOutgoing(tree, b)
               PROVE  b \in rec'.incoming[a]
      BY <1>1, <1>2, <1>9 DEF CallersAreMet
  <2>1. b \notin frontier => b \in rec.incoming[a]
      BY <1>1 DEF CallersAreMet, Queried
  <2> QED
      BY <1>4, <1>5, <2>1
<1>14. Grown'
    BY <1>1, <1>2, <1>4, <1>5, Callers DEF Grown, Anew
<1>15. NoneGone'
  <2> SUFFICES ASSUME NEW a \in Anchors, NEW b \in AnswersAt(a)', b # None
               PROVE  {a[1], b[1]} \subseteq Present(tree)
      BY <1>1, <1>2 DEF NoneGone
  <2>0. \A x \in Anchors : \A y \in TyOutgoing(tree, x) : x[1] \in Present(tree) /\ y[1] \in Present(tree)
      BY <1>1, Callees
  <2>1. CASE b \in AnswersAt(a)
      BY <1>1, <2>1 DEF NoneGone
  <2>2. CASE b \in TyOutgoing(tree, a)
      BY <2>0, <2>2
  <2>3. CASE b \in Anchors /\ a \in TyOutgoing(tree, b)
      BY <2>0, <2>3
  <2> QED
      BY <1>4, <1>5, <2>1, <2>2, <2>3 DEF AnswersAt
<1> QED
    BY <1>7, <1>8, <1>10, <1>11, <1>12, <1>13, <1>14, <1>15 DEF IInv

\* When the waves have ended, whatever calls from a file recorded anew has been asked.
LEMMA WavesEnd ==
    ASSUME IInv, phase = "edges", frontier = {}, NEW a \in Anchors, Anew(a)
    PROVE  /\ rec.outgoing[a] = TyOutgoing(recorded, a)
           /\ TyOutgoing(recorded, a) # {} => Queried(a)
<1>1. /\ Search /\ ForwardIsTy /\ IsTree(recorded) /\ Underway
    BY Typed DEF IInv, Underway
<1>2. TyOutgoing(recorded, a) # {} => a \in seen
  <2> SUFFICES ASSUME NEW b \in TyOutgoing(recorded, a) PROVE a \in seen
      OBVIOUS
  <2>1. a \in Defs(recorded) \/ (<<a[1], "m">> \in Defs(recorded) /\ a \in TyOutgoing(recorded, <<a[1], "m">>))
      BY <1>1, Callees
  <2>2. \A x \in Defs(recorded) : x[1] \in affected => x \in seen
      BY <1>1 DEF Search
  <2>3. \A x \in seen : TyOutgoing(recorded, x) \subseteq seen
      BY <1>1 DEF Search
  <2>4. <<a[1], "m">>[1] = a[1]
      OBVIOUS
  <2> QED
      BY <2>1, <2>2, <2>3, <2>4 DEF Anew
<1>3. Queried(a) <=> a \in seen
    BY DEF Queried
<1> QED
    BY <1>1, <1>2, <1>3 DEF ForwardIsTy

LEMMA SupertypesInv == IInv /\ RecordSupertypes => IInv'
<1> SUFFICES ASSUME IInv, RecordSupertypes PROVE IInv'
    OBVIOUS
<1>1. /\ phase = "edges" /\ frontier = {} /\ recorded = tree /\ Underway /\ TypeOK /\ Growing
      /\ IsTree(tree) /\ rec \in Recording /\ affected \subseteq Files
      /\ Search /\ ForwardIsTy /\ CallersAreTrue /\ CallersAreMet /\ Grown /\ NoneGone
    BY Typed DEF IInv, RecordSupertypes, Underway, Growing
<1>2. /\ UNCHANGED <<tree, recorded, affected, frontier, seen, lostEdges>> /\ phase' = "occurrences"
      /\ rec' = [rec EXCEPT !.supertypes = [a \in Anchors |->
                    IF a[1] \in affected THEN TySupertypes(tree, a) ELSE @[a]]]
    BY DEF RecordSupertypes
<1>3. \A a \in Anchors :
          /\ rec'.supertypes[a] = IF Anew(a) THEN TySupertypes(tree, a) ELSE rec.supertypes[a]
          /\ rec'.outgoing[a] = rec.outgoing[a] /\ rec'.incoming[a] = rec.incoming[a]
          /\ rec'.resolve[a] = rec.resolve[a]
    BY <1>1, <1>2 DEF Recording, Anew
<1>4. \A a \in Anchors : TySupertypes(tree, a) \subseteq Anchors
  <2>1. ASSUME NEW a \in Anchors, NEW b \in TySupertypes(tree, a) PROVE b \in Anchors
    <3>1. b # None
        BY DEF TySupertypes
    <3> QED
        BY <1>1, <3>1, Resolving
  <2> QED
      BY <2>1
<1>5. TypeOK'
  <2>1. rec' \in Recording
    <3>1. [a \in Anchors |-> IF a[1] \in affected THEN TySupertypes(tree, a) ELSE rec.supertypes[a]]
              \in [Anchors -> SUBSET Anchors]
        BY <1>1, <1>4 DEF Recording
    <3> QED
        BY <1>1, <1>2, <3>1 DEF Recording
  <2> QED
      BY <1>1, <1>2, <2>1 DEF TypeOK
<1>6. Growing' /\ Search'
    BY <1>1, <1>2 DEF Growing, Search
<1>7. \A a : Queried(a)' <=> Anew(a)
    BY <1>2 DEF Queried, Anew
<1>8. ForwardIsTy'
  <2> SUFFICES ASSUME NEW a \in Anchors
               PROVE  /\ Anew(a) \/ Kept(a) => rec'.outgoing[a] = TyOutgoing(tree, a)
                      /\ Anew(a) \/ Kept(a) => rec'.supertypes[a] = TySupertypes(tree, a)
                      /\ Kept(a) => rec'.resolve[a] = TyResolve(tree, a)
      BY <1>1, <1>2, <1>7 DEF ForwardIsTy, Kept, Anew
  <2>1. Anew(a) => rec.outgoing[a] = TyOutgoing(tree, a)
      BY <1>1, WavesEnd
  <2> QED
      BY <1>1, <1>3, <2>1 DEF ForwardIsTy
<1>9. CallersAreTrue'
    BY <1>1, <1>2, <1>3 DEF CallersAreTrue, Anew
<1>10. CallersAreMet'
  <2> SUFFICES ASSUME NEW a \in Anchors, NEW b \in Anchors, Anew(b), a \in TyOutgoing(tree, b)
               PROVE  b \in rec'.incoming[a]
      BY <1>1, <1>2, <1>7 DEF CallersAreMet
  <2>1. Queried(b)
      BY <1>1, WavesEnd
  <2> QED
      BY <1>1, <1>3, <2>1 DEF CallersAreMet
<1>11. Grown'
    BY <1>1, <1>2, <1>3 DEF Grown, Anew
<1>12. NoneGone'
  <2> SUFFICES ASSUME NEW a \in Anchors, NEW b \in AnswersAt(a)', b # None
               PROVE  {a[1], b[1]} \subseteq Present(tree)
      BY <1>1, <1>2 DEF NoneGone
  <2>1. CASE b \in AnswersAt(a)
      BY <1>1, <2>1 DEF NoneGone
  <2>2. CASE b \in TySupertypes(tree, a)
      BY <1>1, <2>2, Resolving
  <2> QED
      BY <1>3, <2>1, <2>2 DEF AnswersAt
<1> QED
    BY <1>5, <1>6, <1>8, <1>9, <1>10, <1>11, <1>12 DEF IInv

LEMMA OccurrencesInv == IInv /\ RecordOccurrences => IInv'
<1> SUFFICES ASSUME IInv, RecordOccurrences PROVE IInv'
    OBVIOUS
<1> DEFINE New(a) == {<<F, "module">> : F \in ModuleCallers(tree, affected, a)}
<1>1. /\ phase = "occurrences" /\ recorded = tree /\ Underway /\ TypeOK /\ Growing
      /\ IsTree(tree) /\ rec \in Recording /\ affected \subseteq Files
      /\ ForwardIsTy /\ CallersAreTrue /\ CallersAreMet /\ Grown /\ NoneGone
    BY Typed DEF IInv, RecordOccurrences, Underway, Growing
<1>2. /\ UNCHANGED <<tree, recorded, affected, frontier, lostEdges>> /\ phase' = "idle" /\ seen' = {}
      /\ rec' = [rec EXCEPT
                   !.resolve = [a \in Anchors |-> IF a[1] \in affected
                                                  THEN TyResolve(tree, a) ELSE @[a]],
                   !.incoming = [a \in Anchors |-> @[a] \cup New(a)]]
    BY DEF RecordOccurrences
<1>3. \A a \in Anchors : New(a) \subseteq Live(tree, a) /\ New(a) \subseteq Anchors
  <2>1. ASSUME NEW a \in Anchors, NEW b \in New(a) PROVE b \in Live(tree, a)
    <3>1. PICK F \in ModuleCallers(tree, affected, a) : b = <<F, "module">>
        BY <2>1
    <3>2. F \in ModuleCallers(tree, Files, a)
        BY <1>1, Callers
    <3> QED
        BY <3>1, <3>2, Callers
  <2> HIDE DEF New
  <2> QED
      BY <1>1, <2>1, CallersWithin
<1>4. \A a \in Anchors : \A F \in ModuleCallers(tree, affected, a) : <<F, "module">> \in New(a)
    OBVIOUS
<1> HIDE DEF New
<1>5. \A a \in Anchors :
          /\ rec'.resolve[a] = IF Anew(a) THEN TyResolve(tree, a) ELSE rec.resolve[a]
          /\ rec'.incoming[a] = rec.incoming[a] \cup New(a)
          /\ rec'.outgoing[a] = rec.outgoing[a] /\ rec'.supertypes[a] = rec.supertypes[a]
    BY <1>1, <1>2 DEF Recording, Anew
<1>6. TypeOK'
  <2>1. \A a \in Anchors : TyResolve(tree, a) \in Anchors \cup {None}
      BY <1>1, Resolving
  <2>2. rec' \in Recording
    <3>1. [a \in Anchors |-> IF a[1] \in affected THEN TyResolve(tree, a) ELSE rec.resolve[a]]
              \in [Anchors -> Anchors \cup {None}]
        BY <1>1, <2>1 DEF Recording
    <3>2. [a \in Anchors |-> rec.incoming[a] \cup New(a)] \in [Anchors -> SUBSET Anchors]
        BY <1>1, <1>3 DEF Recording
    <3> QED
        BY <1>1, <1>2, <3>1, <3>2 DEF Recording
  <2> QED
      BY <1>1, <1>2, <2>2 DEF TypeOK
<1>7. Growing' /\ Search'
    BY <1>1, <1>2 DEF Growing, Search
<1>8. \A a : (Queried(a)' <=> Anew(a)) /\ (Queried(a) <=> Anew(a))
    BY <1>1, <1>2 DEF Queried, Anew
<1>9. ForwardIsTy'
  <2> SUFFICES ASSUME NEW a \in Anchors
               PROVE  /\ Anew(a) \/ Kept(a) => rec'.outgoing[a] = TyOutgoing(tree, a)
                      /\ Anew(a) \/ Kept(a) => rec'.supertypes[a] = TySupertypes(tree, a)
                      /\ Anew(a) \/ Kept(a) => rec'.resolve[a] = TyResolve(tree, a)
      BY <1>1, <1>2, <1>8 DEF ForwardIsTy, Kept, Anew
  <2> QED
      BY <1>1, <1>5, <1>8 DEF ForwardIsTy
<1>10. CallersAreTrue'
    BY <1>1, <1>2, <1>3, <1>5 DEF CallersAreTrue, Anew
<1>11. CallersAreMet'
  <2>1. \A a, b \in Anchors : Anew(b) /\ a \in TyOutgoing(tree, b) => b \in rec'.incoming[a]
      BY <1>1, <1>5, <1>8 DEF CallersAreMet
  <2>2. \A a \in Anchors : \A F \in ModuleCallers(tree, affected, a) : <<F, "module">> \in rec'.incoming[a]
      BY <1>4, <1>5
  <2> QED
      BY <1>1, <1>2, <1>8, <2>1, <2>2 DEF CallersAreMet
<1>12. Grown'
    BY <1>1, <1>2, <1>3, <1>5 DEF Grown, Anew
<1>13. NoneGone'
  <2> SUFFICES ASSUME NEW a \in Anchors, NEW b \in AnswersAt(a)', b # None
               PROVE  {a[1], b[1]} \subseteq Present(tree)
      BY <1>1, <1>2 DEF NoneGone
  <2>1. CASE b \in AnswersAt(a)
      BY <1>1, <2>1 DEF NoneGone
  <2>2. CASE b = TyResolve(tree, a)
      BY <1>1, <2>2, Resolving
  <2>3. CASE b \in Live(tree, a)
      BY <1>1, <2>3, CallersWithin
  <2> QED
      BY <1>3, <1>5, <2>1, <2>2, <2>3 DEF AnswersAt
<1> QED
    BY <1>6, <1>7, <1>9, <1>10, <1>11, <1>12, <1>13 DEF IInv

LEMMA StutterInv == IInv /\ UNCHANGED vars => IInv'
BY DEF vars, IInv, TypeOK, Growing, Underway, Search, ForwardIsTy, Queried, Kept, Anew,
   CallersAreTrue, CallersAreMet, Grown, NoneGone, AnswersAt

THEOREM RecordingInvariance == Spec => []IInv
<1>1. IInv /\ [Next]_vars => IInv'
    BY EditInv, ColdInv, IncrementalInv, WaveInv, SupertypesInv, OccurrencesInv, StutterInv DEF Next
<1> QED
    BY <1>1, InitInv, PTL DEF Spec

-----------------------------------------------------------------------------
(* The theorems *)

\* The state has its type (graph.rs, GraphRecording).
THEOREM RecordingTypeCorrect == Spec => []TypeOK
<1>1. IInv => TypeOK
    BY DEF IInv
<1> QED
    BY <1>1, RecordingInvariance, PTL

\* What a complete recording has of the files it recorded anew, and of all of them if no
\* file was deleted, and of all callers if no import was lost.
LEMMA WhenComplete ==
    ASSUME IInv, Complete
    PROVE  /\ rec \in Recording /\ affected \subseteq Files /\ IsTree(recorded)
           /\ affected = Files \/ "deleted" \notin lostEdges =>
                 Forward(rec) = Forward(FromScratch(recorded))
           /\ affected = Files \/ lostEdges = {} => rec = FromScratch(recorded)
<1>1. /\ rec \in Recording /\ affected \subseteq Files /\ IsTree(recorded) /\ phase = "idle"
      /\ ForwardIsTy /\ Grown
    BY Typed DEF IInv, Complete, Underway
<1> DEFINE whole == FromScratch(recorded)
<1>2. ASSUME affected = Files \/ "deleted" \notin lostEdges
      PROVE  /\ rec.outgoing = whole.outgoing /\ rec.resolve = whole.resolve
             /\ rec.supertypes = whole.supertypes
  <2>1. \A a \in Anchors : (Queried(a) /\ Anew(a)) \/ Kept(a)
      BY <1>1, <1>2 DEF Queried, Anew, Kept, Anchors
  <2>2. \A a \in Anchors : /\ rec.outgoing[a] = TyOutgoing(recorded, a)
                           /\ rec.resolve[a] = TyResolve(recorded, a)
                           /\ rec.supertypes[a] = TySupertypes(recorded, a)
      BY <1>1, <2>1 DEF ForwardIsTy
  <2>3. /\ whole.outgoing = [a \in Anchors |-> TyOutgoing(recorded, a)]
        /\ whole.resolve = [a \in Anchors |-> TyResolve(recorded, a)]
        /\ whole.supertypes = [a \in Anchors |-> TySupertypes(recorded, a)]
      BY DEF FromScratch
  <2> HIDE DEF whole
  <2> QED
      BY <1>1, <2>2, <2>3 DEF Recording
<1>3. ASSUME affected = Files \/ lostEdges = {} PROVE rec.incoming = whole.incoming
  <2>1. \A a \in Anchors : rec.incoming[a] = Live(recorded, a)
    <3>1. Closed(recorded, affected)
        BY <1>1, <1>3 DEF Grown, Closed
    <3>2. \A a \in Anchors : a[1] \in affected => rec.incoming[a] = Live(recorded, a)
        BY <3>1, CallersOfClosed
    <3>3. \A a \in Anchors : a[1] \notin affected => rec.incoming[a] = Live(recorded, a)
        BY <1>1, <1>3 DEF Grown, Anew, Anchors
    <3> QED
        BY <3>2, <3>3
  <2>2. whole.incoming = [a \in Anchors |-> Live(recorded, a)]
      BY DEF FromScratch, Live
  <2> HIDE DEF whole
  <2> QED
      BY <1>1, <2>1, <2>2 DEF Recording
<1>4. \A r \in Recording : r = [outgoing |-> r.outgoing, incoming |-> r.incoming,
                                resolve |-> r.resolve, supertypes |-> r.supertypes]
    BY DEF Recording
<1>5. whole = [outgoing |-> whole.outgoing, incoming |-> whole.incoming,
               resolve |-> whole.resolve, supertypes |-> whole.supertypes]
    BY DEF FromScratch
<1> HIDE DEF whole
<1>6. affected = Files \/ lostEdges = {} => rec = whole
    BY <1>1, <1>2, <1>3, <1>4, <1>5
<1> QED
    BY <1>1, <1>2, <1>6 DEF Forward, whole

\* A recording of the whole tree has every edge, both ways (graph.rs, record_inner).
THEOREM ColdRecordingsAreComplete == Spec => []ColdIsComplete
<1>1. IInv => ColdIsComplete
    BY WhenComplete DEF ColdIsComplete
<1> QED
    BY <1>1, RecordingInvariance, PTL

\* However many incremental recordings led to it, what a recording says of callees,
\* targets and bases is ty's answer, if no file was deleted (graph.rs, compute_affected).
THEOREM ForwardAnswersAreExact == Spec => []ForwardExact
<1>1. IInv => ForwardExact
    BY WhenComplete DEF ForwardExact
<1> QED
    BY <1>1, RecordingInvariance, PTL

\* It is the recording from scratch, callers included, as long as no import was lost.
THEOREM RecordingsAreIdentical == Spec => []IdenticalWhileEdgesGrow
<1>1. IInv => IdenticalWhileEdgesGrow
    BY WhenComplete DEF IdenticalWhileEdgesGrow
<1> QED
    BY <1>1, RecordingInvariance, PTL

\* Nothing recorded is in a deleted file or points into one (graph.rs, compute_affected).
THEOREM NothingDeletedIsRecorded == Spec => []NothingOfTheDeleted
<1>1. IInv => NothingOfTheDeleted
    BY DEF IInv, NoneGone, AnswersAt, NothingOfTheDeleted, Complete, Underway
<1> QED
    BY <1>1, RecordingInvariance, PTL

\* Whatever was recorded anew with all its importers and imports has the callers it has
\* in the whole tree, whatever was deleted (graph.rs, record_incremental).
THEOREM CallersAreExactInComponents == Spec => []CallersExactInComponent
<1>1. ASSUME IInv, Complete, NEW S \in SUBSET affected, ClosedUnderImports(S),
             NEW a \in S \X {"f", "m", "c", "k"}
      PROVE  rec.incoming[a] = FromScratch(recorded).incoming[a]
  <2>1. affected \subseteq Files
      BY <1>1, WhenComplete
  <2>2. a \in Anchors /\ a[1] \in S /\ Closed(recorded, S)
      BY <1>1, <2>1 DEF Anchors, Closed, ClosedUnderImports
  <2> QED
      BY <1>1, <2>2, CallersOfClosed DEF Live
<1>2. IInv => CallersExactInComponent
    BY <1>1 DEF CallersExactInComponent
<1> QED
    BY <1>2, RecordingInvariance, PTL

=============================================================================
