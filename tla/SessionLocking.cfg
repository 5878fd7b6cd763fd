SPECIFICATION Spec
CONSTANTS
    Workers = {w1, w2}
    Sids = {s1, s2}
    Values = {v1}
    Empty = Empty
    NoRecord = NoRecord
    NoWorker = NoWorker
    NoSid = NoSid
    LockEnabled = TRUE
    LockRetries = 1
    LockExpires = TRUE
    SessionExpires = TRUE
    Persistent = {w1}
    Resets = {w2}
    RemoveFailedServers = TRUE
    Replicas = 1
    FailureLimit = 0
    FailingCalls <- AllCalls
    Crashes = TRUE
SYMMETRY Symmetry
INVARIANTS
    TypeOK
    MutualExclusion
    NoLostUpdate
    LockInv
