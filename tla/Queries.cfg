SPECIFICATION Spec
CONSTANTS
    None = None
    Unbounded = Unbounded
    Projects <- AllProjects
    TestFileNames = {"test_core.py"}
    TestFunctionNames = {"test_a", "test_b", "test_inner"}
    TestClassNames = {}
    TestCaseNames = {"TestCase"}
    DunderNames = {}
    PrivateNames = {}
    Symbols <- AskedFor
    Limits = {1}
INVARIANTS
    TypeOK
    ClosureIsExact
    TestsAreDual
    DeadIsExact
    UntestedIsExact
    CyclesAreExact
    SweepIsExact
