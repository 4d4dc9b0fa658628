SPECIFICATION Spec
CONSTANTS
    MaxRequests = 2
    MaxResults = 2
    MaxSearches = 1
    MaxCrashes = 0
    MaxFaults = 0
    MaxTroubles = 0
    Readers = {u1}
    Books = {b1}
    Guids = {g1}
    MAX_LIVE = 2
    None = None
INVARIANT
    OneLiveRequest
