SPECIFICATION Spec
CONSTANTS
    t1 = t1
    t2 = t2
    Transfers = {t1}
    Readers = {d1, d2}
    NoReader = NoReader
    PoolSize = 2
    Environments <- SafetyEnvironments
INVARIANTS
    TypeOK
    LeaseSafety
    AgreedOutcome
    DestinationSafety
    ReceivedIsComplete
    QuietAfterClose
PROPERTY
    ImplementsLease
SYMMETRY ReaderSymmetry
CHECK_DEADLOCK FALSE
