SPECIFICATION Spec
CONSTANTS
    MemSize = 10
    Starts <- MCStarts
    Headers <- MCHeaders
INVARIANTS
    Moved
    TargetOnly
CHECK_DEADLOCK FALSE
