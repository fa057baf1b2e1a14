SPECIFICATION Spec
CONSTANTS
    NumObjects = 8
    Configs <- MCConfigs
INVARIANTS
    ResourcesExact
    ProgramOrder
PROPERTIES
    RegisterOrder
    IssuesInOrder
    EveryUopRetires
