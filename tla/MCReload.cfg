SPECIFICATION FairSpec
CONSTANTS
    h1 = h1
    h2 = h2
    Handlers = {h1, h2}
    Watcher = Watcher
    Callers = {h1, h2, Watcher}
    e1 = e1
    e2 = e2
    Edits = {e1, e2}
    BadEdits = {e2}
    Garbled = Garbled
    Missing = Missing
    Nobody = Nobody
    Keep <- MCKeep
    HardCap = 2
    MaxHandEdits = 1
    MaxFaults = 1
    MaxMishaps = 1
    Jobs <- MCJobs
    Kind <- MCKind
    HandContents <- MCHandContents
INVARIANTS
    TypeOK
    PassesNeverOverlap
    Converged
    ReplacedIsArchived
    AckedEditsSurviveOnOneServer
    NoAttributionLeftBehind
PROPERTIES
    EveryTriggerIsServed
CHECK_DEADLOCK FALSE
