SPECIFICATION Spec
CONSTANTS
    Scenarios <- MCScenarios
    PriceInputs <- MCPriceInputs
    VolumeInput = "v"
INVARIANTS
    UsableUnlessListed
    RuntimeFindsItsData
    AlgorithmsAreKept
    PanesAreSound
CHECK_DEADLOCK FALSE
