CONSTANTS
    N = 4
    MaxVC = 3
    BufferSize = 2
    Credits = 2
    InjectionMax = 3
    Packets <- MCPackets
    Scenarios <- MCScenarios
    Layer <- Layers
    SideBufferMax = 2
    MaxPending = 3
    MaxRefusals = 3
SPECIFICATION NetworkSpec
INVARIANTS
    CreditsConserved
    TravelWhole
PROPERTIES
    EveryPacketDelivered
