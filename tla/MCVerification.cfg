\* A client, the retention job, keys that are made, lost and replaced, a row
\* that is altered.
CONSTANTS
    Job = {j1}
    Batch <- MCBatch
    EventCount <- MCEventCount
    JobFaults <- MCJobFaults
    MaxSkipped = 1
    Version = {v1, v2}
    V1 = v1
    MaxKeys = 2
    KeyFaults <- MCKeyFaults
    Image <- MCImage
    CommittedAt <- MCCommittedAt
    History <- MCHistory
    PageSize = 1
    MaxAltered = 1
    MaxSealed = 3
    ReadFaults <- MCReadFaults
SPECIFICATION VSpec
CHECK_DEADLOCK FALSE
INVARIANTS
    VTypeOK
    ValidIsGenuine
    RejectedHasCause
    MissingIsTiered
    ListIsComplete
    SignaturesMatchKeyfile
