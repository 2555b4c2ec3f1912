CONSTANTS
    m1 = m1
    m2 = m2
    s1 = s1
    s2 = s2
    f = f
    Stream = {m1, m2}
    Source = {s1, s2, f}
    Fallback = {f}
    MountOf <- Mounts
    None = None
SPECIFICATION FairSpec
INVARIANTS PortsHeld SourcesFollow
PROPERTIES HandoffCompletes ServedAgain
CHECK_DEADLOCK FALSE
