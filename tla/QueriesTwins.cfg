SPECIFICATION Spec
CONSTANTS
    None = None
    Unbounded = Unbounded
    Projects <- TwinProjects
    TestFileNames = {"test_core.py"}
    TestFunctionNames = {"test_a", "test_b", "test_inner"}
    TestClassNames = {}
    TestCaseNames = {"TestCase"}
    DunderNames = {}
    PrivateNames = {}
    Symbols <- AskedFor
    Limits = {1}
INVARIANT EverythingReachableIsFound
