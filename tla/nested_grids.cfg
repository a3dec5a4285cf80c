SPECIFICATION Spec
CONSTANTS
    Documents <- TwoGrids
    MaxRulings = 12
    MaxSeparators = 4
    MaxAlignLines = 30
    MaxBuckets = 300
INVARIANTS
    TextOnce
CHECK_DEADLOCK FALSE
