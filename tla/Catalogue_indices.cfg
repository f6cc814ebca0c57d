SPECIFICATION Spec
CONSTANTS
    Scenarios <- MCScenarios
    PriceInputs <- MCPriceInputs
    VolumeInput = "v"
INVARIANTS
    IndicesShowTheIndex
CHECK_DEADLOCK FALSE
