CONSTANTS
    Tools = {"direct", "tree", "batch", "git", "cache", "bookmark"}
    Path = {"a", "b", "a.tmp"}
    Tmp <- Tmps
    Order <- WalkOrder
    New <- Changed
    Versions <- SavedVersions
    MaxSaves = 1
    NumCPU = 2
    Disks <- AnyDisks
    DirectCall <- DirectCalls
    TreeCall <- TreeCalls
    BatchCall <- BatchCalls
    RestoreCall <- RestoreCalls
    RestoreDiffMaxLines = 3
    Reader = {r1, r2}
    r1 = r1
    r2 = r2
    Cached = {"p", "q"}
    Sizes = {1, 2}
    Window = 2
    CacheMaxBytes = 2
    CacheMaxEntry = 2
    CompactFrom = 0
    MaxTime = 3
    MaxWrites = 2
    MaxLag = 1
    Docs <- BookDocs
    Texts <- BookTexts
    Lower <- LowerCase
    Specs <- BookSpecs
    MaxRefs = 2
    Files <- Repository
    Absent <- AbsentFiles
    PathScanCap = 1
    Outages <- Failures
    Subjects = {"", "l"}
    MaxEvents = 2
SPECIFICATION DiskSpec
CHECK_DEADLOCK FALSE
INVARIANTS
    SymbolMovedWhole
    RewrittenInOrder
    SummaryTrue
    RestoredAsShown
    NeverStale
    BytesCounted
PROPERTIES
    VerdictTrue
    RefsFollow
