SPECIFICATION Spec
CONSTANTS
    o1 = o1
    u1 = u1
    Reaper = Reaper
    NoParty = NoParty
    NoRequest = NoRequest
    OneShot = {o1}
    Download = {}
    Upload = {u1}
    MaxId = 3
    Depth = 2
    Timeouts = TRUE
    PipeCap = 2
    MaxRequests = 3
PROPERTY NoWriteIntoTornStream
CHECK_DEADLOCK FALSE
