SPECIFICATION Spec
CONSTANTS
    t1 = t1
    t2 = t2
    Transfers = {t1}
    Readers = {d1}
    NoReader = NoReader
    PoolSize = 1
    Environments <- LateEnvironment
INVARIANT RetainedOnlyIfPeerLost
CHECK_DEADLOCK FALSE
