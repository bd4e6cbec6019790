CONSTANTS
    k1 = k1
    k2 = k2
    Keys = {k1, k2}
    Prims = {0, 1}
    MaxDepth = 4
    Heaps <- NestedHeaps
    Roots <- NestedRoots
    MaxDrafts = 4
    MaxWrites = 3
SPECIFICATION Spec
INVARIANTS
    RunningUnfinalized
PROPERTIES
    FrozenUnwritten
    EndsAsSeen
CHECK_DEADLOCK FALSE
