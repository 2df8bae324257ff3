SPECIFICATION FairSpec
CONSTANTS
    ReadLength = 2
    MaxSize = 5
    Scenes <- AllScenes
INVARIANTS
    EveryByteOnce
    ReturnedIsWhole
    HandlesReturned
PROPERTIES
    CallsEnd
    KeepsPromise
CHECK_DEADLOCK FALSE
