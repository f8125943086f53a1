------------------------------ MODULE Deadcode ------------------------------
(***************************************************************************)
(* The root rules of pyq-cli/src/deadcode.rs: what the runtime or a        *)
(* framework may enter without a call from the project, the edges from a   *)
(* base method to its overrides, and the caveat the reverse queries carry. *)
(***************************************************************************)
EXTENDS Hierarchy

EntryFileNames == {"manage.py", "wsgi.py", "asgi.py", "conftest.py", "setup.py",
                   "urls.py", "settings.py"}

Components(f) == LET path == Files[f].path IN {path[i] : i \in DOMAIN path}

InManagementCommands(f) ==
    LET path == Files[f].path IN
    \E i \in 1 .. Len(path) - 1 : path[i] = "management" /\ path[i + 1] = "commands"

IsEntrypointFile(f) ==
    \/ FileName(f) \in EntryFileNames
    \/ {"migrations", "settings"} \cap Components(f) # {}
    \/ InManagementCommands(f)
    \/ Files[f].path[1] \in {"scripts", "bin"}

\* framework_managed_classes
EntryClasses ==
    TestClasses \cup FqnsOf({c \in Classes :
        IsEntrypointFile(c[1]) \/ HasExternalAncestor(Fqn(c))})

\* Any of the scopes around a, or a itself when it is a class.
InEntryClass(a, entryClasses) ==
    \/ \E k \in 1 .. Len(Node(a).container) :
          ScopeFqn(a[1], SubSeq(Node(a).container, 1, k)) \in entryClasses
    \/ Node(a).kind = "class" /\ Fqn(a) \in entryClasses

\* console_script_targets of pyproject.toml.
IsConsoleTarget(a) == \E target \in Console : EndsWith(Fqn(a), target)

IsFrameworkEntry(a, entryClasses) ==
    \/ Node(a).decorated
    \/ Node(a).name \in DunderNames
    \/ IsEntrypointFile(a[1])
    \/ InEntryClass(a, entryClasses)
    \/ IsConsoleTarget(a)

\* resolve_dotted: exactly, or as the only def with that suffix.
ResolveDotted(path) ==
    LET exact == DefAnchor(path)
        suffixed == {fqn \in FqnsOf(Defs) : fqn # path /\ EndsWith(fqn, path)}
    IN  IF exact # None THEN exact
        ELSE IF Cardinality(suffixed) = 1
             THEN DefAnchor(CHOOSE fqn \in suffixed : TRUE) ELSE None

\* Mutant: a string that names nothing of the project counts too.
DottedTargetsUnresolved(f) == {ResolveDotted(s) : s \in Files[f].dotted}

\* What the strings of a file name.
DottedTargets(f) == {ResolveDotted(s) : s \in Files[f].dotted} \ {None}

References == UNION {ModuleScopeTargets(f) \cup DottedTargets(f) :
                        f \in DOMAIN Files}

IsExported(a) ==
    Node(a).container = <<>> /\ Node(a).name \in Files[a[1]].dunder_all

\* find: the anchors the reachability starts from.
DeadcodeSeeds ==
    LET entryClasses == EntryClasses
        testClasses == TestClasses
    IN  {a \in Defs : \/ IsFrameworkEntry(a, entryClasses)
                      \/ IsCollectedTestDef(a, testClasses)
                      \/ IsExported(a)}
        \cup References

\* framework_entry_fqns
FrameworkEntries ==
    LET entryClasses == EntryClasses IN
    FqnsOf({a \in Defs : IsFrameworkEntry(a, entryClasses)})
    \cup FqnsOf({a \in References : a = DefAnchor(Fqn(a))})

\* override_edges: from the FQN of a base's method to each overriding method.
OverrideEdges ==
    UNION {UNION {{[from |-> Append(base, m), to |-> DefAnchor(Append(c, m))] :
                      base \in Overrides(c, m)} : m \in Methods(c)} : c \in ClassFqns}

-----------------------------------------------------------------------------
(* The report *)

Unreached(reachable) == {a \in Defs : Fqn(a) \notin reachable}

\* Mutant: a function is suppressed with any unreached enclosing scope, itself
\* suppressed or not, and so is a class.
DeadOutermost(reachable) ==
    {a \in Unreached(reachable) : Node(a).container = <<>>}

\* A method (a function in any scope) of an unreached class is not listed.
Dead(reachable) ==
    {a \in Unreached(reachable) :
        ~ /\ a \in Functions
          /\ Node(a).container # <<>>
          /\ Owner(Fqn(a)) \in FqnsOf(Unreached(reachable))}

\* dispatch_caveat: why the callers of these roots are not all in the graph.
DirectCaveat(roots) ==
    LET entryClasses == EntryClasses IN
    \E a \in Defs :
        /\ Fqn(a) \in roots
        /\ Node(a).decorated \/ InEntryClass(a, entryClasses) \/ IsEntrypointFile(a[1])

Caveat(roots) == DirectCaveat(roots) \/ roots \cap FrameworkEntries # {}

=============================================================================
