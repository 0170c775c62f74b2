SPECIFICATION AuditSpec
CONSTANTS
    t1 = t1
    t3 = t3
    h1 = h1
    h3 = h3
    p1 = p1
    p2 = p2
    r1 = r1
    r2 = r2
    NoThread = NoThread
    NoRecord = NoRecord
    Threads = {t1, t3}
    Handles = {h1, h3}
    Procs = {p1, p2}
    HandleOf <- MCHandleOf
    ProcOf <- MCProcOf
    Records = {r1, r2}
    Rejected = {}
    Legacies <- MCNoLegacy
    LineBytes = 2
    MaxLines = 3
    Faults = {}
    MaxFaults = 0
    Losses = 1
INVARIANT
    TruncationRejected
CHECK_DEADLOCK FALSE
