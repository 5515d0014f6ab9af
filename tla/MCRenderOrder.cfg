SPECIFICATION Spec
CONSTANTS
    MaxRenderables = 4
    Capacity = 8
    Starts <- LargeStarts
    Coordinates = {0, 1}
INVARIANTS
    UntiedIsExact
    ContractKept
