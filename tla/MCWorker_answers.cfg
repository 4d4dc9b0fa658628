SPECIFICATION FairSpec
CONSTANTS
    MaxTasks = 1
    Roots <- MixedRoots
    Variants <- MixedVariants
    Args = {"lib1"}
    Capacity <- OnePermit
    RECENT_COMPLETIONS_CAP = 1
    MaxReports = 1
    HandlerOutcomes <- AllOutcomes
    WriteResults = {TRUE, FALSE}
    Callers = {c1, c2}
    Pollers = {p1}
    Users = {u1}
    None = None
INVARIANTS
    AnswersTruthful
PROPERTIES
    EveryCallReturns
