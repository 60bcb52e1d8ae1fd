CONSTANTS
    a = a
    b = b
    c = c
    NoRoot = NoRoot
    Roots <- TwoRoots
    Marked <- OnlyA
    Fallbacks <- AnyFallback
    EnvRoots <- SetOrNot
    MaxRequests = 3
    CallKinds <- EveryCall
    Clients <- PatientOrNot
SPECIFICATION Spec
INVARIANTS
    TypeOK
    LockHasRoot
PROPERTIES
    RootFollowsWorkspace
    RequestsEnd
