SPECIFICATION FairSpec
CONSTANTS
    MaxCommit = 2
    VersionOf <- Versions
    Upgraders = {u}
    Installers = {i}
    TagsGrow = TRUE
    None = None
    Corrupt = Corrupt
    Torn = Torn
INVARIANTS
    TypeOK
    BinaryIsPublished
PROPERTIES
    ForwardOnly
    CatchesUp
