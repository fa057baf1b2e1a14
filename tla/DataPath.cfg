CONSTANTS
    Requestors = {0, 1}
    Addrs = {"a0"}
    Ids = {1, 2, 3, 4, 5, 6}
    Requests <- MCRequests
    ReadLatency = 2
    WriteLatency = 1
    QueueBound = 1
SPECIFICATION DataFairSpec
INVARIANTS
    PendingExact
    BurstsSpaced
PROPERTIES
    EveryRequestReturns
