CONSTANTS
    a = a
    b = b
    Listeners = {a}
    Size = 2
    MaxTroubles = 1
SPECIFICATION FairSpec
INVARIANTS SomeoneIsComing
PROPERTIES LostForAReason WaitingAreHandedOn HandoffEnds
CHECK_DEADLOCK FALSE
