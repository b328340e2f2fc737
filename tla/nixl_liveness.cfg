SPECIFICATION FairSpec
CONSTANTS
    t1 = t1
    t2 = t2
    Transfers = {t1, t2}
    Readers = {d1}
    NoReader = NoReader
    PoolSize = 1
    Environments <- LivenessEnvironments
INVARIANT
    RetainedOnlyIfPeerLost
PROPERTIES
    EveryLoadEnds
    EveryHandoffEnds
CHECK_DEADLOCK FALSE
