SPECIFICATION Spec
CONSTANTS
    MaxDepth = 1
    MaxBlocks = 2
    Fuel = 6
INVARIANTS
    TextExact
    BreaksOnce
    IdsUnique
    PageExact
    CapHolds
