SPECIFICATION Spec
CONSTANTS
    a = a
    b = b
    id = id
    TextUnits = {a, b, id}
    Aside = {id}
    Mark = Mark
    Boundary = Boundary
    Pattern <- MCPattern
    Overlap = 2
    MaxPending = 3
    MaxChunk = 4
    MaxSent = 8
INVARIANTS
    StreamTypeOK
    VerdictTrue
PROPERTY
    ImplementsFilter
CHECK_DEADLOCK FALSE
