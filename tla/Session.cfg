SPECIFICATION Spec
CONSTANTS
    Dialects = {"login", "subscribe", "pearlhash", "cortex", "conflux", "ironfish", "beam"}
    Families = {"login"}
    Jobs = {j, k}
    Malformed = Malformed
    Undecoded = Undecoded
    NoJob = NoJob
    WorkId = 6
    CortexLimit = 2
    MaxShares = 2
    MaxAnnounced = 2
    MaxRepeats = 1
    MaxConnections = 2
SYMMETRY Symmetry
CHECK_DEADLOCK FALSE
INVARIANTS TypeOK PendingIsUnanswered SharesCountedOnce LatestJobHeld MinesOnlyWhenGranted
PROPERTIES DrainHearsCounted
