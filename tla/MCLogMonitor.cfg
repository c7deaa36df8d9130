SPECIFICATION FairSpec
CONSTANTS
    w1 = w1
    conn = conn
    stream = stream
    events = events
    Publishers = {w1, conn}
    Consumers = {stream, events}
    Talkers = {events}
    Conn <- MCConn
    MaxQueue = 1
    MaxEvents = 3
    Cap = 3
    SizeOf <- MCSizeOf
    ChanCap = 1
INVARIANTS
    TypeOK
    HistoryIsTheTail
    HistoryMeetsLive
    NoWakeupIsLost
PROPERTIES
    ImplementsEventLog
    WritersReturn
CHECK_DEADLOCK FALSE
