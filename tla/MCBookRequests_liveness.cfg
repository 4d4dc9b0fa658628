SPECIFICATION FairSpec
CONSTANTS
    MaxRequests = 1
    MaxResults = 2
    MaxSearches = 1
    MaxCrashes = 1
    MaxFaults = 1
    MaxTroubles = 2
    Readers = {u1}
    Books = {b1}
    Guids = {g1}
    MAX_LIVE = 1
    None = None
PROPERTIES
    RemovalsEnd
    FinishedIsImported
