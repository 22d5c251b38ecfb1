SPECIFICATION Spec
CONSTANTS
    k1 = k1
    k2 = k2
    r1 = r1
    r2 = r2
    None = None
    Keys <- TwoKeys
    FirstKey = k1
    Requests <- TwoRequests
    RefreshInterval = 2
    UnknownDelay = 1
    HTTPTimeout = 1
    MaxTime = 4
SYMMETRY RequestSymmetry
PROPERTIES WithdrawnKeysExpire NewKeysAreFound RefreshesApart NeverBackwards
CHECK_DEADLOCK FALSE
