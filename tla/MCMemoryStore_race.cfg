CONSTANTS
    k1 = k1
    k2 = k2
    k3 = k3
    v1 = v1
    v2 = v2
    p1 = p1
    p2 = p2
    RootKey = RootKey
    Garbage = Garbage
    Keys <- TwoKeys
    Values <- TwoValues
    Persisters <- OnePersister
    MaxEntries = 2
    MaxCalls = 2
SPECIFICATION Spec
SYMMETRY Symmetry
PROPERTIES
    AlwaysKeepsPromise
