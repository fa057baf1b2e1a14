CONSTANTS
    Banks = {b0, b1, b2, b3, b4}
    Rows = {r0}
    S <- MCSpeed
    Long <- MCLong
    IssuedCmds = {"ACT", "PRE", "RD", "WR"}
    MaxClk = 6
SPECIFICATION DeviceSpec
INVARIANTS
    TimingRespected
    WindowAndGroupTiming
    BankTimingComplete
SYMMETRY BankSymmetry
CHECK_DEADLOCK FALSE
