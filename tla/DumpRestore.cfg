CONSTANTS
    a = a
    b = b
    NoFile = NoFile
    Order <- Two
    Fault = {"open", "write", "rename"}
    MaxChunk = 2
    MaxTrigger = 2
    MaxCrash = 2
SPECIFICATION FairSpec
INVARIANTS OneAtATime NothingLost
PROPERTIES DumpIsFresh QueueDrains
CHECK_DEADLOCK FALSE
