SPECIFICATION Spec
CONSTANTS
    i1 = i1
    i2 = i2
    i3 = i3
    i4 = i4
    a1 = a1
    a2 = a2
    a3 = a3
    p = p
    m = m
    other = other
    tool = tool
    NoModel = NoModel
    NoId = NoId
    Unnamed = Unnamed
    SharedId = SharedId
    Guarded = FALSE
    Registries <- BudgetRegistries
    LimitOf <- MCLimitOf
    Calls = {i1, i2, i3, i4}
    Wires = {}
    Submissions <- BudgetSubmissions
    Outputs = {}
    Responses <- MCResponses
    Delay = 1
    MaxClock = 3
    MaxRestarts = 1
    MaxFaults = 0
SYMMETRY BudgetSymmetry
VIEW BudgetView
INVARIANTS
    TallyExact
    TwiceBudget
CHECK_DEADLOCK FALSE
