CONSTANTS
    s1 = s1
    s2 = s2
    Slave = {s1, s2}
    Alert <- Watched
    Wait = 9
    Interval = 3
    PollWait = 1
    ClearDelay = 2
    None = None
SPECIFICATION Spec
INVARIANTS InTime NoAlertForTheGone
PROPERTIES AlertsMeanIt
CHECK_DEADLOCK FALSE
