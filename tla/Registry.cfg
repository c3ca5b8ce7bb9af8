SPECIFICATION Spec
CONSTANTS
    r1 = r1
    r2 = r2
    r3 = r3
    a = a
    b = b
    c = c
    None = None
    Requests <- MCRequests
    Ids <- MCIds
    Shipped <- MCShipped
    Imports <- MCImports
    MaxRough = 2
    MaxFaults = 1
SYMMETRY RequestSymmetry
INVARIANTS
    TypeOK
    NeverEmptied
    CacheAgrees
    OneDefault
PROPERTIES
    InitializedOnce
    CalmKeepsPromise
CHECK_DEADLOCK FALSE
