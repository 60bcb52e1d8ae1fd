CONSTANTS
    a = a
    b = b
    c = c
    NoRoot = NoRoot
    Roots <- ThreeRoots
    Marked <- OnlyA
    Fallbacks <- AnyFallback
    EnvRoots <- Unset
    MaxRequests = 3
    CallKinds <- NoCall
    Clients <- ChangesTwice
SPECIFICATION SilentSpec
PROPERTIES
    QueuedRootApplied
