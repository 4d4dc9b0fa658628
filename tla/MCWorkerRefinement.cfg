SPECIFICATION FairSpec
CONSTANTS
    MaxTasks = 3
    Roots <- ScanRoots
    Variants <- ScanVariants
    Args = {"lib1"}
    Capacity <- OnePermit
    RECENT_COMPLETIONS_CAP = 2
    MaxReports = 0
    HandlerOutcomes <- OkOnly
    WriteResults = {TRUE}
    Callers = {}
    Pollers = {}
    Users = {}
    None = None
INVARIANTS
    TypeOK
    MutualExclusion
    NothingLeftBehind
PROPERTIES
    ImplementsExecutor
