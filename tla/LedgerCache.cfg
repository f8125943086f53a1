SPECIFICATION FairSpec
CONSTANTS
    MaxVersion = 2
    Procs = {p, q}
    Pythons = {"new", "old"}
    Monitors = {"new"}
    Suite <- SuiteOf
    Diff <- DiffOf
    Ran <- RanAt
    Performed <- PerformedAt
    Sites <- SitesAt
    Scope <- ScopeAt
    Habits = {"quiet", "forward"}
    None = None
INVARIANTS
    TypeOK
    LedgerIsOfTheTree
    AnswersAreTrue
PROPERTY
    SettlesOnOneRun
