SPECIFICATION Spec
CONSTANTS
    test_a = test_a
    test_b = test_b
    Tests = {test_a, test_b}
    line_1 = line_1
    line_2 = line_2
    Lines = {line_1, line_2}
    callable_1 = callable_1
    callable_2 = callable_2
    Owners = {callable_1, callable_2}
    thread = thread
    Threads = {thread}
    Main = main
    MaxEvents = 4
    None = None
    Torn = Torn
SYMMETRY Symmetry
INVARIANTS
    TypeOK
    OkIsWhole
    UncoveredWasNotRun
    MainIsAttributedExactly
    CoveringTestsCover
    LedgerNeverOvercounts
