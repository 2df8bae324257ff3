SPECIFICATION Spec
CONSTANTS
    Subjects = {"sync", "operations", "facade", "filesystem", "text", "packets", "probes"}
    File = {"a", "b", "l"}
    Dirs <- DirsDef
    Home <- HomeDef
    Above <- AboveDef
    Odd = {"l"}
    Version = {1, 2}
    Size <- SizeDef
    Mirror <- MirrorDef
    Lists <- ListsDef
    Flat <- FlatDef
    Unmovable = {}
    MaxRuns = 3
    MaxEdits = 1
    MaxMishaps = 1
    Worker = {"w1", "w2"}
    NoItem = NoItem
    c1 = c1
    c2 = c2
    Caller = {c1, c2}
    Place = {"T", "A", "B", "C"}
    Up <- UpDef
    Relative = "r"
    Under <- UnderDef
    DefaultDir = "T"
    Foreign = "foreign"
    Asked <- AskedDef
    Offers <- OffersDef
    Contents <- ContentsDef
    NoPath = "nopath"
    MaxAsked = 2
    Altered = {"B"}
    MaxAltered = 1
    Thread = {"t1", "t2"}
    Owner = "t1"
    Drives <- DrivesDef
    Batches <- BatchesDef
    Dots = {".", ".."}
    Length = 3
    NoCall = NoCall
    OwnPortal = TRUE
    MaxAsks = 4
    MaxTroubles = 1
    Object = {"f", "g", "w", "c"}
    Target <- TargetDef
    Mode <- ModeDef
    Path = {"p", "q", "r"}
    None = None
    MaxBlocks = 2
    MaxConnections = 2
    MaxBreaks = 1
    MaxInt = 100
    Defined = {0, 1, 4}
    Words <- WordsDef
    Numbers = {0, 1, 200}
    Cells = {0, 1, 2, 17, 33}
    MaxCells = 5
    NamedClasses <- NamedDef
    Names <- NamesDef
    Patterns <- PatternsDef
    Brackets <- BracketsDef
    Paths <- PathsDef
    Listings <- ListingsDef
    Searches <- SearchesDef
    Depths = {0, 1, 3}
    Server <- ServerDef
    MaxLost = 1
    Whole <- WholeDef
    Bases <- BasesDef
    Given <- GivenDef
    Filters <- FiltersDef
INVARIANTS
    MirrorIsCurrent
    RepeatIsQuiet
    RemoteTimesStick
    OnePathPerCall
    DataIsFaithful
    FacadeIsFaithful
    FilesAreWhole
    ProbesAreHonest
PROPERTIES
    AnswersAreTrue
SYMMETRY Callers
CHECK_DEADLOCK FALSE
VIEW SubjectView
