--------------------------- MODULE EffectsFusion ----------------------------
(***************************************************************************)
(* "pyq effects": query_effects of pyq-cli/src/main.rs joins the static    *)
(* effects of a project, or of what one symbol reaches, with those the     *)
(* suite performed.                                                        *)
(*                                                                         *)
(* A site is a static effect: where it is, the callable or module that     *)
(* owns it, its category, and whether importing the file performs it.  An  *)
(* observed effect is <<owner, category>>.  scope is None for the whole    *)
(* project, or has the callables the symbol reaches and the files that     *)
(* define them.                                                            *)
(***************************************************************************)
CONSTANT None

AUDITABLE == {"fs", "network", "subprocess", "db"}

\* The sites a query is about.
Kept(sites, scope) ==
    {s \in sites : \/ scope = None
                   \/ IF s.import_time THEN s.file \in scope.in_play
                                       ELSE s.owner \in scope.reachable}

Key(s) == <<s.owner, s.cat>>

Confidence(s, observed) ==
    IF Key(s) \in observed THEN "confirmed"
    ELSE IF s.cat \in AUDITABLE THEN "predicted" ELSE "unverifiable"

\* Observed effects that no site of the query predicted.
DynamicOnly(kept, observed, scope) ==
    {k \in observed : /\ \A s \in kept : Key(s) # k
                      /\ scope = None \/ k[1] \in scope.reachable}

Fuse(sites, observed, scope) ==
    LET kept == Kept(sites, scope)
    IN  {[key |-> Key(s), site |-> s, confidence |-> Confidence(s, observed)] : s \in kept}
            \cup {[key |-> k, site |-> None, confidence |-> "observed"] :
                     k \in DynamicOnly(kept, observed, scope)}

=============================================================================
