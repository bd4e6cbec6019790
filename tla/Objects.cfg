SPECIFICATION Spec
CONSTANTS
    k1 = k1
    k2 = k2
    Keys = {k1, k2}
    Prims = {0, 1}
    MaxDepth = 3
    Bases <- SharedBase
    MaxDrafts = 3
    MaxWrites = 3
    MaxFresh = 0
    FreshTypes = {}
    Returning = TRUE
INVARIANTS
    TypeOK
    BaseUntouched
    ChangesReachRoot
    UnchangedReadsAsOriginal
    NoDraftReturned
    UnchangedIsShared
    PatchesReplay
    InverseRestores
