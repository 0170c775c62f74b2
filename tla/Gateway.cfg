SPECIFICATION Spec
CONSTANTS
    i1 = i1
    i2 = i2
    i3 = i3
    i4 = i4
    a1 = a1
    a2 = a2
    a3 = a3
    p = p
    m = m
    other = other
    tool = tool
    NoModel = NoModel
    NoId = NoId
    Unnamed = Unnamed
    SharedId = SharedId
    Guarded = TRUE
    Registries <- MCRegistries
    LimitOf <- MCLimitOf
    Calls = {i1, i2}
    Wires <- MCWires
    Submissions <- MCSubmissions
    Outputs <- MCOutputs
    Responses <- MCResponses
    Delay = 1
    MaxClock = 0
    MaxRestarts = 1
    MaxFaults = 1
SYMMETRY Symmetry
INVARIANTS
    GatewayTypeOK
    OutputVerdict
    EvidenceFaithful
    QualifiedSurface
    ForwardedLogged
PROPERTIES
    EvidenceMonotone
    ImplementsInteraction
CHECK_DEADLOCK FALSE
