\* Two overlapping jobs and every fault.
CONSTANTS
    Job = {j1, j2}
    Batch <- MCBatch
    EventCount <- MCEventCount
    JobFaults <- AllFaults
    MaxSkipped = 1
SPECIFICATION TRecoveringSpec
CHECK_DEADLOCK FALSE
INVARIANTS
    NothingLost
    PurgedIsIndexed
    ArchivedIsComplete
PROPERTIES
    ArchivesNeverChange
    TieringKeepsTrail
    OldIsTiered
