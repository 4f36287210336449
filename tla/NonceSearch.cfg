SPECIFICATION Spec
CONSTANTS
    N = 2
    B = 2
    Bits = 5
    MaxRounds = 2
    Jobs <- MCJobs
INVARIANTS
    TypeOK
    NoNonceTwice
    ResumeIsFresh
    PrefixKept
    
CHECK_DEADLOCK FALSE
