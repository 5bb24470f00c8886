CONSTANTS
    SessionIds = {s1, s2}
    Streams = {k1, k2}
    Rpcs = {r1, r2, r3}
    LastRpc = r3
    NoSession = NoSession
    NoClient = NoClient
    NoQueue = NoQueue
    QueueSize = 2
    WriterFlushes = TRUE
SPECIFICATION BoundedSpec
INVARIANTS TypeOK RegisteredIsOpen WrittenInOrder ResponsesKeepToTheirSession
PROPERTIES QueueOutlivesStreams StopReturns
CHECK_DEADLOCK FALSE
