SPECIFICATION FairSpec
CONSTANTS
    o1 = o1
    u1 = u1
    Reaper = Reaper
    NoParty = NoParty
    NoRequest = NoRequest
    OneShot = {o1}
    Download = {}
    Upload = {u1}
    MaxId = 3
    Depth = 2
    Timeouts = TRUE
    PipeCap = 1
    MaxRequests = 4
INVARIANTS
    TypeOK
    RequestsAreRouted
    NobodyWaitsAlone
    HandlesAreKept
PROPERTIES
    NothingRoutedAfterProtocolError
    OrphansAreClosed
    FailureEndsOperations
CHECK_DEADLOCK FALSE
