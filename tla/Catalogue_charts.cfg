SPECIFICATION Spec
CONSTANTS
    Scenarios <- MCScenarios
    PriceInputs <- MCPriceInputs
    VolumeInput = "v"
INVARIANTS
    EveryTypeIsCharted
CHECK_DEADLOCK FALSE
