CONSTANTS
    a = a
    b = b
    c = c
    NoRoot = NoRoot
    Roots <- TwoRoots
    Marked <- OnlyA
    Fallbacks <- AnyFallback
    EnvRoots <- SetOrNot
    MaxRequests = 2
    CallKinds <- EveryCall
    Clients <- ChangesOnce
SPECIFICATION Spec
PROPERTIES
    LockedRootStays
