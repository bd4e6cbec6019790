SPECIFICATION Spec
CONSTANTS
    k1 = k1
    k2 = k2
    Keys = {k1, k2}
    Prims = {0}
    MaxDepth = 4
    Bases <- MoveBases
    MaxDrafts = 3
    MaxWrites = 3
    MaxFresh = 0
    FreshTypes = {}
    Returning = FALSE
INVARIANTS
    PatchesReplay
    InverseRestores
