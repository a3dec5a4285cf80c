SPECIFICATION Spec
CONSTANTS
    MaxDepth = 1
    MaxBlocks = 2
    Fuel = 3
INVARIANT
    BreaksInPlace
