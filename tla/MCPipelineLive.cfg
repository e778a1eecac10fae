\* A source that names columns; tables leave and enter the scope; the daemon is
\* stopped and started at any time.
CONSTANTS
    lax = lax
    strict = strict
    Table <- MCTables
    NoTable = NoTable
    Change <- MCChange
    Position <- MCPosition
    NoPosition = 0
    InitConfig <- MCConfig
    Transactions <- NamedTransactions
    NamedColumns = TRUE
    MaxTxs = 2
    MaxRows = 3
    MaxEvents = 2
    MaxBatches = 5
    MaxBuffer = 3
    MaxCallbacks = 1
    Faults <- SigtermOnly
    PipelineFaults <- None
SPECIFICATION PFairSpec
CHECK_DEADLOCK FALSE
PROPERTIES
    AcceptedIsSealed
    CommittedIsSealed
