SPECIFICATION Spec
CONSTANTS
    k1 = k1
    k2 = k2
    Keys = {k1, k2}
    Prims = {0}
    MaxDepth = 3
    Bases <- FreshBases
    MaxDrafts = 2
    MaxWrites = 2
    MaxFresh = 1
    FreshTypes = {"object"}
    Returning = TRUE
PROPERTY ActsOnOrdinaryObjects
