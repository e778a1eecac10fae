\* The shipped binlog source, every fault, crashes and restarts.
CONSTANTS
    lax = lax
    strict = strict
    Table <- MCTables
    NoTable = NoTable
    Change <- MCChange
    Position <- MCPosition
    NoPosition = 0
    InitConfig <- MCConfig
    Transactions <- MCTransactions
    NamedColumns = FALSE
    MaxTxs = 2
    MaxRows = 2
    MaxEvents = 2
    MaxBatches = 3
    MaxBuffer = 4
    MaxCallbacks = 2
    Faults <- AllFaults
    PipelineFaults <- AllPipelineFaults
SPECIFICATION PSpec
CHECK_DEADLOCK FALSE
INVARIANTS
    PTypeOK
    AcceptedIsKept
    StoredUnderItsRoot
    CheckpointAgrees
    UnsealedOnlyAtEnd
    TimerIsAlive
    BufferWithinLimit
    RecordedInCommitOrder
    GapsAreInsideTransactions
PROPERTIES
    ResumeNeverMovesBack
    UnattributedIsAlerted
    BatcherKeepsTrail
