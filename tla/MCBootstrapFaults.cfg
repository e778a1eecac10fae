\* Two tables, every fault.
CONSTANTS
    old = old
    new = new
    Table <- TwoTables
    NoTable = NoTable
    Change <- MCChange
    Position <- MCPosition
    NoPosition = 0
    BootPosition = BootPosition
    Expired = 1
    MaxWrites = 2
    MaxEvents = 2
    MaxBatches = 3
    MaxBuffer = 3
    MaxCallbacks = 1
    Faults <- AllFaults
    BootFaults <- AllBootFaults
SPECIFICATION BootSpec
CHECK_DEADLOCK FALSE
INVARIANTS
    CompleteIsSealed
    
    MarkedIsSnapshot
    OnlySnapshotsRepeat
