SPECIFICATION FairSpec
CONSTANTS
    t1 = t1
    t2 = t2
    t3 = t3
    h1 = h1
    h2 = h2
    h3 = h3
    p1 = p1
    p2 = p2
    r1 = r1
    big = big
    NoThread = NoThread
    NoRecord = NoRecord
    Threads = {t1, t3}
    Handles = {h1, h3}
    Procs = {p1, p2}
    HandleOf <- MCHandleOf
    ProcOf <- MCProcOf
    Records = {r1, big}
    Rejected = {big}
    Legacies <- MCLegacies
    LineBytes = 2
    MaxLines = 3
    Faults = {"io", "torn", "kill", "power"}
    MaxFaults = 2
INVARIANTS
    TypeOK
    OneWriter
    ChainIntact
    AckedDurable
    AnchorSound
    AckVerifies
    IInv
PROPERTIES
    ImplementsLog
    AppendReturns
CHECK_DEADLOCK FALSE
