CONSTANTS
    JumpScanSample = 2
    JumpScanMinGap = 1
    Line <- BraceLines
    MaxLines = 4
    MaxGlobExpansions = 5
    MaxSubstringWindow = 2
    LongSubstringThreshold = 3
    MinLineCoverage = 6
    DefaultLines = 2
    MaxLineCount = 3
    MaxEntryLines = 2
    MaxEntries = 3
    MaxTotalFiles = 4
    MaxMatches = 3
    MaxReads = 4
    Pieces <- TextPieces
    Asked <- Queries
    Longest <- TextLengths
    BlockLimit = 3
    MaxResultsCap = 3
    DefaultMax = 1
    FetchCap = 4
    SearchBothFactor = 2
SPECIFICATION TextSpec
CHECK_DEADLOCK FALSE
INVARIANTS
    BlockTypeOK
    InnermostBlock
    BodiesMatched
    ScansAlwaysAgree
    GlobsAgree
    IndentTree
    RegionsTrue
    ShownExact
    ReadsInOrder
    PagesTrue
