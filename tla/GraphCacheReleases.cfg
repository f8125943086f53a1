SPECIFICATION Spec
CONSTANTS
    a = a
    b = b
    p = p
    q = q
    Files <- OneFile
    MaxVersion = 3
    IndexOf <- Distinct
    Configs = {1, 2}
    Procs <- TwoProcs
    Schema <- TwoReleases
    Habits = {"forward"}
    ConfigChanges = TRUE
    None = None
SYMMETRY Symmetry
INVARIANT
    AnswerIsOfTheSource
