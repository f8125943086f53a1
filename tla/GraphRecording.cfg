SPECIFICATION Spec
CONSTANTS
    lib = lib
    mid = mid
    top = top
    Files <- ThreeFiles
    Menu <- SmallMenu
    TySeesImporters = FALSE
    None = None
INVARIANTS
    TypeOK
    ColdIsComplete
    ForwardExact
    IdenticalWhileEdgesGrow
    NothingOfTheDeleted
    CallersExactInComponent
