\* A crash after a batch closed in the middle of a transaction.
CONSTANTS
    lax = lax
    strict = strict
    Table <- MCTables
    NoTable = NoTable
    Change <- MCChange
    Position <- MCPosition
    NoPosition = 0
    InitConfig <- MCConfig
    Transactions <- RowPairs
    NamedColumns = FALSE
    MaxTxs = 2
    MaxRows = 3
    MaxEvents = 2
    MaxBatches = 4
    MaxBuffer = 4
    MaxCallbacks = 1
    Faults <- CrashOnly
    PipelineFaults <- None
SPECIFICATION PSpec
CHECK_DEADLOCK FALSE
INVARIANT NothingSkipped
