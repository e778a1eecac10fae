\* The WORM store fails now and then.
CONSTANTS
    Change = {c1}
    Position = {p1}
    NoPosition = NoPosition
    Table = {t1}
    NoTable = NoTable
    MaxEvents = 2
    MaxBatches = 2
    MaxBuffer = 3
    MaxCallbacks = 2
    Faults <- WormFaults
SPECIFICATION RecoveringSpec
CHECK_DEADLOCK FALSE
PROPERTY PersistedBatchIsSealed
