SPECIFICATION Spec
CONSTANTS
    Target = {t1, t2}
    Token = {1, 2}
    Version = {1, 2}
    Garbage = Garbage
    NoEntry = NoEntry
    Publisher = {p1, p2}
    Absent = Absent
    t1 = t1
    t2 = t2
    p1 = p1
    p2 = p2
    Comparable = {TRUE, FALSE}
    Scenes <- AllScenes
    MaxCalls = 2
    MaxSweeps = 1
    MaxCrashes = 1
INVARIANTS
    DestinationIsWhole
    NothingSpliced
    ReturnedIsPublished
    RecordsAreTrue
PROPERTIES
    NothingTakenAway
SYMMETRY Tasks
CHECK_DEADLOCK FALSE
