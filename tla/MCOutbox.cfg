SPECIFICATION FairSpec
CONSTANTS
    Positions = {"progress"}
    Gestures = {"highlight"}
    Reviews = {"review"}
    Callers = {c1, timer}
    Timer = timer
    LIMIT = 2
    maxReplayAttempts = 2
    MaxOps = 2
    MaxFaults = 2
    None = None
INVARIANTS
    TypeOK
    OnePassAtATime
    NothingForgotten
    DrainKeepsPromise
PROPERTIES
    KindInOrder
    QueueEmpties
