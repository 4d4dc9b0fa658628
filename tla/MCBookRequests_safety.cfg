SPECIFICATION Spec
CONSTANTS
    MaxRequests = 1
    MaxResults = 2
    MaxSearches = 2
    MaxCrashes = 1
    MaxFaults = 1
    MaxTroubles = 1
    Readers = {u1}
    Books = {b1}
    Guids = {g1, g2}
    MAX_LIVE = 1
    None = None
SYMMETRY GuidSymmetry
INVARIANTS
    TypeOK
    RemovalSparesPick
    NoOrphanDownload
    ImportedThePick
    OneCopy
    LookingIsSearched
PROPERTIES
    CancelStandsOrNot
