SPECIFICATION Spec
CONSTANTS
    Target = {t1}
    Token = {1, 2}
    Version = {1}
    Garbage = Garbage
    NoEntry = NoEntry
    Publisher = {p1}
    Absent = Absent
    t1 = t1
    p1 = p1
    Comparable = {TRUE, FALSE}
    Scenes <- OneScene
    MaxCalls = 1
    MaxSweeps = 1
    MaxCrashes = 1
INVARIANTS
    CopySurvives
CHECK_DEADLOCK FALSE
