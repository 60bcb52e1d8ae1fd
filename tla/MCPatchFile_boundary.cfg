CONSTANTS
    Size = 4
    Breaks <- OneBreak
    Edits <- PlainEdits
    Inserts <- PlainInserts
    NoFile = NoFile
SPECIFICATION Spec
INVARIANTS
    BoundaryInsertCoexists
CHECK_DEADLOCK FALSE
