SPECIFICATION TransfersSpec
CONSTANTS
    Node <- NodeDef
    Root = "root"
    Parent <- ParentDef
    Name <- NameDef
    Fold <- FoldDef
    Shapes <- ShapesDef
    Unsafe = {"z"}
    Refused = {"h"}
    Outside = {"out", "p"}
    Call <- CallDef
    Terse = {TRUE, FALSE}
    Vague = {"F"}
    OldAt <- OldAtDef
    Vanishing = {"f", "d"}
    Worker = {"w1", "w2"}
    NoItem = NoItem
    WriteLength = 2
    Depth = 2
    IdleDeadline = TRUE
    MaxSize = 5
INVARIANTS
    RepliesAreExpected
    AcknowledgedIsStored
    EverythingAccounted
    FirstClaimantKeepsName
    DirectoryTimesStick
    LinksAreNotFollowed
PROPERTIES
    KeepsPromise
    EverythingEnds
