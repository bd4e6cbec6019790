CONSTANTS
    Producers = {a, b, c}
    MaxDrafts = 2
    a = a
    b = b
    c = c
SYMMETRY Symmetry
CHECK_DEADLOCK FALSE
SPECIFICATION Spec
INVARIANTS
    TypeOK
    EndedDraftsNothing
    KeepsOnlyRunning
    MethodsRecognized
