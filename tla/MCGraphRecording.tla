-------------------------- MODULE MCGraphRecording --------------------------
(***************************************************************************)
(* GraphRecording on three files: lib, which defines f or not; mid, which  *)
(* re-exports it, calls it or derives from it; top, which imports from     *)
(* either, plainly or under an alias.                                      *)
(***************************************************************************)
EXTENDS GraphRecording

CONSTANTS lib, mid, top

ThreeFiles == {lib, mid, top}

Plain == [def |-> FALSE, imp |-> None, alias |-> FALSE, use |-> "none"]
Defines == [Plain EXCEPT !.def = TRUE]
CallsOwn == [Defines EXCEPT !.use = "body"]
Imports(from, use) == [Plain EXCEPT !.imp = from, !.use = use]
Aliased(from, use) == [Imports(from, use) EXCEPT !.alias = TRUE]

SmallMenu ==
    [F \in Files |->
        CASE F = lib -> {Plain, Defines}
          [] F = mid -> {Plain, CallsOwn, Imports(lib, "none"), Imports(lib, "base"),
                         Aliased(lib, "lambda")}
          [] F = top -> {Plain, Imports(mid, "body"), Aliased(lib, "body"),
                         Imports(lib, "module")}]

=============================================================================
