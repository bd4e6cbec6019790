CONSTANTS
    Bases <- SparseBases
    Prims = {0, 1}
    MaxDrafts = 2
    MaxWrites = 3
    MaxLen = 4
    MaxFresh = 1
    Inserted = {0, 1}
SPECIFICATION Spec
INVARIANTS
    RecordsTrue
    PatchesReplay
    InverseRestores
CHECK_DEADLOCK FALSE
