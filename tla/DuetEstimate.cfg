CONSTANTS
    Requestors = {0, 1}
    RowOf <- MCRowOf
    Workloads <- MCWorkloads
    Ids = {1, 2, 3, 4}
    LoopStarts = {0}
    MaxArrivals <- MCArrivals
    tCCD = 1
    tRL = 1
    tWL = 1
    tBUS = 1
    tRTW = 1
    tWTR = 0
    tRP = 1
    tRCD = 1
    tRTP = 1
    tWR = 2
    REQ_count = 2
    LPRE <- MCTable
    LACT <- MCTable
SPECIFICATION EstimateSpec
INVARIANTS
    OldestExists
    EstimateCovers
    EstimatesOrdered
