CONSTANTS
    Reqs = {"q1", "q2", "q3", "q4"}
    AddrOf <- MCAddrOf
    Latencies = {0, 2}
    OutstandingBound = 4
    NumBanks = 2
    BankOf <- MCBankOf
    RowOf <- MCRowOf
    TypeOf <- MCTypeOf
    SizeOf <- MCSizeOf
    Policies = {"MCSIM", "FCFS", "FRFCFS"}
    MergeRequests = {TRUE, FALSE}
    BufferSize = 2
    BusWidth = 2
    Precharge = 1
    Activate = 2
    Column = 1
SPECIFICATION NativeSpec
INVARIANTS
    HeldOnce
    RowsOpen
    CallbackOwed
PROPERTIES
    EveryRequestDone
