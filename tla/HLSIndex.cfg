CONSTANTS
    Short = 1
    MaxSegment = 5
    MaxList = 5
    MaxRestart = 2
    None = None
SPECIFICATION IndexSpec
INVARIANTS ClientsAreServed
CHECK_DEADLOCK FALSE
