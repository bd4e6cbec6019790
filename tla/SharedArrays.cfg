CONSTANTS
    Bases <- SharedBases
    Prims = {2}
    MaxDrafts = 2
    MaxWrites = 4
    MaxLen = 3
    MaxFresh = 0
    Inserted = {}
SPECIFICATION Spec
INVARIANT
    SharedPatchesReplay
CHECK_DEADLOCK FALSE
