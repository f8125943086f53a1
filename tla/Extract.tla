------------------------------ MODULE Extract -------------------------------
(***************************************************************************)
(* When a statement or an expression runs, as the visitor of pyq-index/    *)
(* src/extract.rs has it.  The visitor counts and flags what it is within; *)
(* a place is the sequence of these constructs, outermost first:           *)
(*   "function"        the body of a function                              *)
(*   "header"          its decorators, defaults and annotations, which the *)
(*                     visitor walks with the body                         *)
(*   "lambda", "class" the body of one                                     *)
(*   "type_checking"   the body of "if TYPE_CHECKING:"                     *)
(*   "else"            the other branches of that statement                *)
(***************************************************************************)
EXTENDS Naturals, Sequences

IsIn(construct, within) == \E i \in DOMAIN within : within[i] = construct

\* func_depth > 0
InFunction(within) == IsIn("function", within) \/ IsIn("header", within)

\* Ref.module_scope and Effect.import_time
ModuleScope(within) == ~InFunction(within)

ImportContext(within) ==
    IF IsIn("type_checking", within) THEN "TypeChecking"
    ELSE IF InFunction(within) THEN "Deferred" ELSE "TopLevel"

\* What Python runs when it imports the module.
RunsOnImport(within) ==
    \A i \in DOMAIN within : within[i] \notin {"function", "lambda", "type_checking"}

=============================================================================
