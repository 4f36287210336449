SPECIFICATION FairSpec
CONSTANTS
    Sizes <- MCSizes
    MaxFaults = 2
    MaxShares = 1
INVARIANTS
    TypeOK
    ExitForCause
    NotCutShort
    KilledBeforeEnd
    SharesCollected
    FailedCloseFails
PROPERTIES
    ExitEnds
    RetiredEnd
    NobodyLeft
CHECK_DEADLOCK FALSE
