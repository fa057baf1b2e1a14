SPECIFICATION Spec
CONSTANTS
    Configs <- MCConfigs
    Code <- MCCode
    Traces <- MCTraces
    MaxPup = 9
    WordSize = 16
INVARIANTS
    Replay
