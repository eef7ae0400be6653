SPECIFICATION Spec
CONSTANTS
    MaxRow = 2
    MaxCol = 4
    MaxDepth = 2
INVARIANTS SpansHonest FixersKeepOut
CHECK_DEADLOCK FALSE
