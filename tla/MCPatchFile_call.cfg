CONSTANTS
    Size = 4
    Breaks <- OneBreak
    Edits <- SomeEdits
    Inserts <- SomeInserts
    NoFile = NoFile
SPECIFICATION Spec
INVARIANTS
    TypeOK
    AppliedAsReported
    AcceptedApart
    RestUntouched
    FileWhole
PROPERTIES
    OnlyAsAnnounced
CHECK_DEADLOCK FALSE
