SPECIFICATION Spec
CONSTANTS
    Runs = {r1}
    Stops = {s1}
    Waits = {w1}
    NoCall = NoCall
    Threshold = 1
    NeedsWarmup = TRUE
CHECK_DEADLOCK FALSE
PROPERTIES
    StopMeansGone
