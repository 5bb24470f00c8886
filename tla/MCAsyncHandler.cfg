CONSTANTS
    p1 = p1
    p2 = p2
    Producers <- MCProducers
    MaxCalls <- MCMaxCalls
    Handlers = {root, derived}
    Root = root
    Capacity = 1
SPECIFICATION FairSpec
INVARIANTS TypeOK NothingLost CloseDelivers CountersAgree
PROPERTIES KeepsQueuePromise AcceptedAreWritten CloseReturns FlusherEnds
CHECK_DEADLOCK FALSE
