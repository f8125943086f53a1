SPECIFICATION Spec
CONSTANTS
    a = a
    b = b
    p = p
    q = q
    Files <- TwoFiles
    MaxVersion = 2
    IndexOf <- Distinct
    Configs = {1}
    Procs <- TwoProcs
    Schema <- OneRelease
    Habits = {"quiet", "forward"}
    ConfigChanges = FALSE
    None = None
SYMMETRY FullSymmetry
INVARIANTS
    TypeOK
    AnswerIsLive
    NeverOlderThanKey
