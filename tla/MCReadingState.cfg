SPECIFICATION Spec
CONSTANTS
    Formats = {"epub", "audio"}
    Places = {0, 2}
    Deep = 2
    IDLE_GAP_SECS = 1
    Files = {m1, m2}
    Chooses = {"unread", "finished"}
    MaxTime = 2
    MaxAhead = 1
    MaxMessages = 3
    MaxCrashes = 1
    None = None
SYMMETRY FileSymmetry
INVARIANTS
    TypeOK
    NewestPositionStands
    HalvesOfOneMoment
    SittingCreditsGround
    StartedOrChosen
PROPERTIES
    ReplayIsFree
CHECK_DEADLOCK FALSE
