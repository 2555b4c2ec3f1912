CONSTANTS
    a = a
    b = b
    s1 = s1
    NoKey = NoKey
    Unset = Unset
    Keys = {a, b}
    Configured = {a}
    Slaves = {s1}
    MaxChanges = 3
    MaxMishaps = 1
SPECIFICATION RegistrySpec
INVARIANTS SlavesInStep StoredIsCurrent
PROPERTIES MountsStay
CHECK_DEADLOCK FALSE
