SPECIFICATION FairSpec
CONSTANTS
    Workers = {w1, w2}
    Sids = {s1, s2}
    Values = {v1}
    Empty = Empty
    NoRecord = NoRecord
    NoWorker = NoWorker
    NoSid = NoSid
    LockEnabled = TRUE
    LockRetries = 1
    LockExpires = FALSE
    SessionExpires = TRUE
    Persistent = {}
    Resets = {w2}
    RemoveFailedServers = TRUE
    Replicas = 1
    FailureLimit = 0
    FailingCalls <- AllButLockCalls
    Crashes = FALSE
INVARIANT
    NoStaleLock
PROPERTIES
    ImplementsStore
    LockReleased
    LockWaitEnds
