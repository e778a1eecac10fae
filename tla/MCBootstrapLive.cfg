\* No faults.
CONSTANTS
    old = old
    new = new
    Table <- TwoTables
    NoTable = NoTable
    Change <- MCChange
    Position <- MCPosition
    NoPosition = 0
    BootPosition = BootPosition
    Expired = 1
    MaxWrites = 3
    MaxEvents = 2
    MaxBatches = 6
    MaxBuffer = 4
    MaxCallbacks = 1
    Faults <- None
    BootFaults <- None
SPECIFICATION BootFairSpec
CHECK_DEADLOCK FALSE
PROPERTIES
    FoundIsBootstrapped
    RowsAreSealed
