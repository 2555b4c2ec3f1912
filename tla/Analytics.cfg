CONSTANTS
    x = x
    None = None
    Session = {x}
    Batch = 2
    MaxDay = 2
    MaxLogs = 3
    MaxTroubles = 1
SPECIFICATION FairSpec
INVARIANTS RowsKeptOnce NothingForgotten
PROPERTIES AllRolledUp
CHECK_DEADLOCK FALSE
