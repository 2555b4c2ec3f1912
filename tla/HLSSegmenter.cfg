CONSTANTS
    Length = 3
    Tolerance = 1
    MaxPTS = 7
    Capacity = 7
    HeaderTime = 3
    MaxTime = 12
    MaxRestart = 2
    Unset = Unset
SPECIFICATION SegmenterSpec
INVARIANTS  DiscontinuityAtGaps PTSAddsUp
CHECK_DEADLOCK FALSE
