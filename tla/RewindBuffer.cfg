CONSTANTS
    s1 = s1
    s2 = s2
    s3 = s3
    k1 = k1
    k2 = k2
    c1 = c1
    None = None
    Nothing = Nothing
    Source = {s1, s2, s3}
    Key = {k1, k2}
    KeyOf <- KeyOfSource
    LoadKey = {k1, k2}
    Secs = {0, 2, 3}
    Client = {c1}
    Offset = {0, 1, 2, 3}
    Burst = {0, 1, 2}
    Skew = 1
    MaxTs = 5
SPECIFICATION MCSpec
INVARIANTS InShape FindsNearest RestoresDump HearsAllOnce
CHECK_DEADLOCK FALSE
