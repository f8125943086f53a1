SPECIFICATION Spec
CONSTANTS
    lib = lib
    mid = mid
    top = top
    Files <- ThreeFiles
    Menu <- SmallMenu
    TySeesImporters = TRUE
    None = None
INVARIANT
    NoCallerLost
