SPECIFICATION Spec
CONSTANTS
    k1 = k1
    k2 = k2
    Keys = {k1, k2}
    Prims = {0}
    MaxDepth = 3
    Bases <- SharedBase
    MaxDrafts = 3
    MaxWrites = 2
    MaxFresh = 1
    FreshTypes = {"map"}
    Returning = TRUE
INVARIANTS
    CurrentIsSnapshot
    PatchesHoldNoDraft
