SPECIFICATION Spec
CONSTANTS
    a = a
    b = b
    c = c
    g1 = g1
    g2 = g2
    Planners = {"group"}
    Sets <- MCAlone
    EvictCost <- MCCost
    Models = {a, b}
    Requests = {q1, q2, q3}
    Group <- MCGroup
    Limit <- MCLimit
    Swap = {g1}
    Exclusive = {g1}
    Persistent = {}
    Loop = Loop
    Self = Self
    NoOne = NoOne
    FaultKinds = {"fail"}
    MaxFaults = 1
PROPERTIES
    FailureAnswersOwnStart
CHECK_DEADLOCK FALSE
