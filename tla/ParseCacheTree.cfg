SPECIFICATION FairSpec
CONSTANTS
    f1 = f1
    f2 = f2
    p1 = p1
    p2 = p2
    x = x
    y = y
    bad = bad
    Files <- TwoFiles
    Contents = {x, y}
    Readable = {x, y}
    SizeOf <- SameLength
    Procs <- TwoProcs
    Schema <- OneRelease
    MaxTime = 2
    EveryWriteTicks = TRUE
    None = None
INVARIANT
    FingerprintDeterminesParse
PROPERTY
    Settles
