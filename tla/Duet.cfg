CONSTANTS
    Requestors = {0, 1}
    RowOf <- MCRowOf
    Workloads <- MCWorkloads
    Ids = {1, 2, 3, 4}
    LoopStarts = {0}
SPECIFICATION FairSpec
INVARIANTS
    NoFault
    RowProtocol
    RealTimeStateCurrent
    QueuesAgree
PROPERTIES
    ImplementsService
    EveryRequestServed
