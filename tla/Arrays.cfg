CONSTANTS
    Bases <- ObjectBases
    Prims = {1}
    MaxDrafts = 3
    MaxWrites = 3
    MaxLen = 3
    MaxFresh = 0
    Inserted = {0, 1}
SPECIFICATION Spec
INVARIANTS
    TypeOK
    ActsAsArray
    NoDraftReturned
    ResultAsPlain
    PatchesReplay
    InverseRestores
    SearchAsRead
PROPERTIES
    RemovedAsDrafts
CHECK_DEADLOCK FALSE
