SPECIFICATION PrefSpec
CONSTANTS
    Configs <- MCConfigs
    Programs <- MCPrograms
INVARIANTS
    OnTheStream
PROPERTIES
    EveryPrefetchSent
