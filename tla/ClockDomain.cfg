CONSTANTS
    McsimFreq = 4
    CpuFreqs = {0, 2, 3, 4, 6, 7}
    MaxTicks = 30
SPECIFICATION CrosserSpec
INVARIANTS
    NoDrift
    CountersBounded
CHECK_DEADLOCK FALSE
