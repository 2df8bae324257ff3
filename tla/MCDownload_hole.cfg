SPECIFICATION Spec
CONSTANTS
    ReadLength = 2
    MaxSize = 4
    Scenes <- OnlyPlain
INVARIANTS
    ResumedIsByteIdentical
CHECK_DEADLOCK FALSE
