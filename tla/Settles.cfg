SPECIFICATION FairSpec
CONSTANTS
    k1 = k1
    k2 = k2
    Keys = {k1, k2}
    Prims = {0}
    MaxDepth = 3
    Bases <- SingleBase
    MaxDrafts = 2
    MaxWrites = 2
    MaxFresh = 1
    FreshTypes = {"map"}
    Returning = TRUE
PROPERTY Settles
