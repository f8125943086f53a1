SPECIFICATION Spec
CONSTANTS
    f1 = f1
    f2 = f2
    p1 = p1
    p2 = p2
    x = x
    y = y
    bad = bad
    Files <- OneFile
    Contents = {x, y, bad}
    Readable = {x, y}
    SizeOf <- SameLength
    Procs <- TwoProcs
    Schema <- TwoReleases
    MaxTime = 3
    EveryWriteTicks = TRUE
    None = None
INVARIANTS
    StatHitIsCurrent
    DropIn
    NeverOlderThanRun
    CleanRunKeptEverything
