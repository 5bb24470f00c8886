CONSTANTS
    SessionIds = {s1, s2}
    Streams = {k1, k2}
    Rpcs = {r1, r2}
    LastRpc = r2
    NoSession = NoSession
    NoClient = NoClient
    NoQueue = NoQueue
    QueueSize = 1
    WriterFlushes = FALSE
SPECIFICATION Spec
INVARIANT EventsConnect
CHECK_DEADLOCK FALSE
