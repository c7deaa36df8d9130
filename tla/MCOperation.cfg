SPECIFICATION Spec
CONSTANTS
    o1 = o1
    o2 = o2
    shared = shared
    own = own
    r1 = r1
    r2 = r2
    Hole = Hole
    Revisions = {r1, r2}
    Revision <- MCRevision
    Ops = {o1, o2}
    Destinations = {own, shared}
    Artifacts <- MCArtifacts
    Digested = {o1}
    Size <- MCSize
    Found <- MCFound
    MaxTerminal = 1
    FaultKinds = {"cancel", "reload", "exit", "crash", "disk"}
    MaxOverrun = 1
    MaxFaults = 3
CONSTRAINT
    Focus
INVARIANTS
    TypeOK
    UnfinishedIsLiveOrMarked
    RegisteredIsInstalled
    SucceededIsRegistered
    CancelledLeavesNothing
PROPERTIES
    RecordFollowsTheStateMachine
CHECK_DEADLOCK FALSE
