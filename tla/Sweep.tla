------------------------------- MODULE Sweep --------------------------------
(***************************************************************************)
(* "pyq refs", "pyq callers" and "pyq defs": the UnifiedResolver of        *)
(* pyq-resolve/src/unified.rs.  It sweeps the places where the name        *)
(* occurs, definitions first, and has ty resolve each place that no        *)
(* earlier answer covers.                                                  *)
(*                                                                         *)
(* A place is <<"def", a>>, <<"import", binding>> or <<"use", u>>, u a     *)
(* call or another use.  What ty's incoming_calls sees from a definition   *)
(* is the parameter sight, a set of spellings: the sources disagree on     *)
(* whether imported names are among them.                                  *)
(***************************************************************************)
EXTENDS Project

SweepVerbs == {"refs", "callers", "defs"}

Bindable == OfKind({"function", "class", "variable"})
UsesOfNames == project.calls \cup Mentions

\* What the files import by name or under an alias.
Bindings ==
    {[file |-> u.from[1], to |-> u.to, by |-> u.by] :
        u \in {x \in UsesOfNames : x.by \in {"name", "alias"}}}

\* A place, the file it is in and the definition that ty takes it for.
DefPlace(a) == [key |-> <<"def", a>>, file |-> a[1], to |-> a]
ImportPlace(b) == [key |-> <<"import", b>>, file |-> b.file, to |-> b.to]
UsePlace(u) == [key |-> <<"use", u>>, file |-> u.from[1], to |-> u.to]

\* The definitions that a query names, scoped_by its qualifier.
Named(symbol) ==
    {a \in Bindable :
        /\ Node(a).name = Leaf(symbol)
        /\ EndsWith(ScopeFqn(a[1], Node(a).container), Owner(symbol))}

\* Import bindings of the name; an alias is another name.
NamedBindings(symbol) ==
    {b \in Bindings :
        /\ b.by = "name" /\ Node(b.to).name = Leaf(symbol)
        /\ EndsWith(ScopeFqn(b.file, <<>>), Owner(symbol))}

\* Uses by the name itself, which a qualified query does not look at.
NamedUses(symbol) ==
    {u \in UsesOfNames :
        /\ u.by \in {"here", "name"} /\ Node(u.to).name = Leaf(symbol)
        /\ Owner(symbol) = <<>>}

\* The definitions in the order of the walk.
InOrder(S) ==
    [i \in 1 .. Cardinality(S) |->
        CHOOSE a \in S : Cardinality({b \in S : Before(b, a)}) = i - 1]

Occurrences(symbol) ==
    LET defs == InOrder(Named(symbol))
    IN  [i \in DOMAIN defs |-> DefPlace(defs[i])]
        \o SetToSeq({ImportPlace(b) : b \in NamedBindings(symbol)}
                    \cup {UsePlace(u) : u \in NamedUses(symbol)})

\* callers_at: at an import or a use, the calls by that name in the file too.
CallersAt(place, sight) ==
    {<<"use", c>> : c \in {d \in CallsTo(place.to) :
        \/ d.by \in sight
        \/ place.key[1] # "def" /\ d.by = "name" /\ d.from[1] = place.file}}

\* references_at, which does not see through an alias, and callers_at.
ReferencesAt(place, sight) ==
    {<<"def", place.to>>}
    \cup {<<"import", b>> : b \in {x \in Bindings : x.to = place.to /\ x.by = "name"}}
    \cup {<<"use", u>> : u \in {x \in UsesOfNames : x.to = place.to /\ x.by # "alias"}}
    \cup CallersAt(place, sight)

\* Mutant: whatever place an answer came from is its owner.
OwnerOfAny(symbol, place) ==
    IF Cardinality(Named(symbol)) > 1 THEN place.key ELSE None

\* Of several definitions, the one that an answer belongs to.
OwnerOf(symbol, place) ==
    IF Cardinality(Named(symbol)) > 1 /\ place.key[1] = "def" THEN place.key ELSE None

\* What a query makes of one place.
Resolved(verb, place, sight) ==
    IF verb = "callers" THEN CallersAt(place, sight) ELSE ReferencesAt(place, sight)

\* sweep: rows of places, each with the definition it resolves to, or None.
Swept(symbol, verb, sight) ==
    LET places == Occurrences(symbol)
        rows[n \in 0 .. Len(places)] ==
            IF n = 0 THEN {}
            ELSE LET before == rows[n - 1]
                     place == places[n]
                     covered == {r.key : r \in before}
                 IN  IF place.key \in covered THEN before
                     ELSE before \cup {[key |-> k, resolves_to |-> OwnerOf(symbol, place)] :
                                          k \in Resolved(verb, place, sight) \ covered}
    IN  rows[Len(places)]

ReferenceRows(symbol, sight) == Swept(symbol, "refs", sight)
CallerRows(symbol, sight) == Swept(symbol, "callers", sight)

\* definitions: bindings point at the definition when there is one.
DefinitionRows(symbol) ==
    {[key |-> <<"def", a>>, resolves_to |-> None] : a \in Named(symbol)}
    \cup {[key |-> <<"import", b>>,
           resolves_to |-> IF Cardinality(Named(symbol)) = 1
                           THEN <<"def", FirstOf(Named(symbol))>> ELSE None]
            : b \in NamedBindings(symbol)}

=============================================================================
