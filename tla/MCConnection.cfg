SPECIFICATION FairSpec
CONSTANTS
    MaxFrameLength = 1
    CompactThreshold = 3
    Attempts = 2
    BackoffMax = 2
    MaxStderr = 3
INVARIANTS
    SplitterKeepsPlace
    NoChildLeft
    CleanupIsHeard
    ReturnedWasPerformed
PROPERTIES
    SettledIsFinal
    CallEnds
