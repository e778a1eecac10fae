\* A job that dies now and then and is run again.
CONSTANTS
    Job = {j1}
    Batch <- OneBatch
    EventCount <- TwoEvents
    JobFaults <- Dying
    MaxSkipped = 1
SPECIFICATION TRecoveringSpec
CHECK_DEADLOCK FALSE
PROPERTY OldIsArchived
