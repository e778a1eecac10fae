\* A crash after a bootstrap.
CONSTANTS
    old = old
    new = new
    Table <- TwoTables
    NoTable = NoTable
    Change <- MCChange
    Position <- MCPosition
    NoPosition = 0
    BootPosition = BootPosition
    Expired = 1
    MaxWrites = 3
    MaxEvents = 1
    MaxBatches = 5
    MaxBuffer = 3
    MaxCallbacks = 1
    Faults <- CrashOnly
    BootFaults <- None
SPECIFICATION BootSpec
CHECK_DEADLOCK FALSE
INVARIANT StreamedOnce
