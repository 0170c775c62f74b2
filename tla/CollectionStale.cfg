SPECIFICATION Spec
CONSTANTS
    c1 = c1
    c2 = c2
    s1 = s1
    s2 = s2
    s3 = s3
    k1 = k1
    u1 = u1
    u2 = u2
    Collectors = {c1, c2}
    Running = {c1, c2}
    Sources <- MCOne
    Broken = {}
    Streams = {s1}
    ControlOf <- MCControlOf
    SubjectOf <- MCSubjectOf
    OddTimes = {}
    MaxChanges = 3
    MaxEntries = 9
    MaxFaults = 0
INVARIANTS
    PostureCurrent
