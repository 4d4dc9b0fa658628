SPECIFICATION FairSpec
CONSTANTS
    Books = {b1, b2}
    Devices = {d1}
    SYNC_PAGE_SIZE = 1
    MaxTime = 1
    MaxEdits = 2
    MaxStates = 1
    MaxFaults = 1
    None = None
INVARIANTS
    TypeOK
    DifferenceIsOwed
PROPERTIES
    DeviceConverges
