SPECIFICATION Spec
CONSTANTS
    NumTokens = 3
    TopK = 2
    NumExperts = 4
    EpSize = 2
    TileRows = 2
    Pack = 2
    Models <- MCModels
INVARIANTS
    BlocksAreWhole
    LogitsAreWhole
    PlanIsSorted
    EveryRouteOnce
CHECK_DEADLOCK FALSE
