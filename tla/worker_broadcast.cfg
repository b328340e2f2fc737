SPECIFICATION FairSpec
CONSTANTS
    Workers = {w1, w2, w3}
    MaxCalls <- MCMaxCalls
INVARIANTS
    CallsInOrder
    NoSignalLost
    SegmentOutlivesUsers
PROPERTY
    EveryCallIsTaken
CHECK_DEADLOCK FALSE
