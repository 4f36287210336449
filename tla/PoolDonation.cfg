SPECIFICATION Spec
CONSTANTS
    Count = 2
    Primary = 1
    Donate = 0
    NoPool = NoPool
    Socks = {s1, s2}
    NoSock = NoSock
    Windows = {u1, u2}
    NoWindow = NoWindow
    JobClasses = {"ok", "bad"}
    MaxSoft = 2
    MaxWindow = 2
SYMMETRY Symmetry
INVARIANTS
    TypeOK
    JobNeedsSocket
    SilentSocketWatched
    DonationConfined
CHECK_DEADLOCK FALSE
