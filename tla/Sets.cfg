CONSTANTS
    Bases <- SetBases
    Prims = {1, 2}
    MaxDrafts = 2
    MaxWrites = 4
    MaxFresh = 1
SPECIFICATION Spec
INVARIANTS
    SetMapInStep
    NoDraftReturned
    PatchesReplay
    InverseRestores
PROPERTIES
    DeletedIsGone
    ResultInOrder
CHECK_DEADLOCK FALSE
