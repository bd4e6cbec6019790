SPECIFICATION Spec
CONSTANTS
    k1 = k1
    k2 = k2
    Keys = {k1, k2}
    Prims = {0}
    MaxDepth = 4
    Bases <- SingleBase
    MaxDrafts = 2
    MaxWrites = 1
    MaxFresh = 2
    FreshTypes = {"object"}
    Returning = TRUE
INVARIANTS
    NoDraftReturned
