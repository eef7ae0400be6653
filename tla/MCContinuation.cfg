SPECIFICATION Spec
CONSTANTS
    MaxRow = 2
    MaxCol = 4
    MaxDepth = 2
INVARIANTS SpansExact
CHECK_DEADLOCK FALSE
