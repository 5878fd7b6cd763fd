SPECIFICATION Spec
CONSTANTS
    k1 = k1
    k2 = k2
    s1 = s1
    s2 = s2
    Keys = {k1, k2}
    NoKey = NoKey
    Servers = {s1, s2}
    Hash <- HashTwo
    StoreRetryCount = 2
    Timeouts = TRUE
    OthersWrite = TRUE
INVARIANT
    IncDecRetried
