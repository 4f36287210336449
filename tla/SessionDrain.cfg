SPECIFICATION Spec
CONSTANTS
    Dialects = {"ironfish", "beam"}
    Families = {}
    Jobs = {j}
    Malformed = Malformed
    Undecoded = Undecoded
    NoJob = NoJob
    WorkId = 6
    CortexLimit = 2
    MaxShares = 2
    MaxAnnounced = 1
    MaxRepeats = 0
    MaxConnections = 1
SYMMETRY Symmetry
CHECK_DEADLOCK FALSE
PROPERTIES DrainHearsEveryShare
