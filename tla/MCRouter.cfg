SPECIFICATION Spec
SYMMETRY Symmetry
CONSTANTS
    a = a
    b = b
    c = c
    g1 = g1
    g2 = g2
    Planners = {"group", "matrix"}
    Sets <- MCSets
    EvictCost <- MCCost
    Models = {a, b, c}
    Requests = {q1, q2, q3}
    Group <- MCGroup
    Limit <- MCLimit
    Swap = {g1}
    Exclusive = {g1}
    Persistent = {}
    Loop = Loop
    Self = Self
    NoOne = NoOne
    FaultKinds = {"unload", "selfStop", "fail", "hang", "shutdown"}
    MaxFaults = 1
INVARIANTS
    TypeOK
    ActiveSwapsEvictOnlyIdle
    InFlightExact
    WaitingIsRemembered
    NoConflictingSwaps
    ExclusiveModelsNeverShareTheGPU
    OneProcessPerModel
    ActiveSwapsAdvance
CHECK_DEADLOCK FALSE
