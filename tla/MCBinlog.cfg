\* Rotations, lost connections, restarts, a streamer that fails, a channel of
\* capacity 1, files that outgrow the offsets.
CONSTANTS
    Groups <- MCGroups
    Capacity = 1
    PosLimit = 8
    NoImage = NoImage
    MaxGroups = 2
    MaxFiles = 2
    MaxReconnects = 1
    MaxRestarts = 1
    StreamerMayFail = TRUE
SPECIFICATION LFairSpec
CHECK_DEADLOCK FALSE
INVARIANT DeliveredIsPassed
PROPERTIES
    ImplementsChangeSource
    EverythingArrives
