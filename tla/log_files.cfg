SPECIFICATION Spec
CONSTANTS
    FirstHead = 0
    MaxHeight = 4
    MaxCrashes = 3
INVARIANTS
    IndexFindsBlocks
CHECK_DEADLOCK FALSE
