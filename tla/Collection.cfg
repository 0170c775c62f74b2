SPECIFICATION FairSpec
CONSTANTS
    c1 = c1
    c2 = c2
    s1 = s1
    s2 = s2
    s3 = s3
    k1 = k1
    u1 = u1
    u2 = u2
    Collectors = {c1, c2}
    Running = {c1}
    Sources <- MCShared
    Broken = {1}
    Streams = {s1, s2, s3}
    ControlOf <- MCControlOf
    SubjectOf <- MCSubjectOf
    OddTimes = {0, 1}
    MaxChanges = 1
    MaxEntries = 5
    MaxFaults = 1
INVARIANTS
    CollectTypeOK
    SettledReflects
    SettledSilent
    PostureFollows
PROPERTIES
    ToldStored
    BrokenSourceDegrades
CHECK_DEADLOCK FALSE
