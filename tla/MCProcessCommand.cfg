SPECIFICATION FairSpec
CONSTANTS
    Runs = {r1, r2}
    Stops = {s1, s2}
    Waits = {w1}
    NoCall = NoCall
    Threshold = 1
    NeedsWarmup = TRUE
INVARIANTS
    TypeOK
    OneInstance
    NoUntrackedProcess
    NobodyParkedPastTheAnswer
    EveryParkedCallerIsHeld
PROPERTIES
    RunBlocksUntilTerminated
    ImplementsLifecycle
    ImplementsService
    StopAnswered
    StartingWaiterAnswered
CHECK_DEADLOCK FALSE
