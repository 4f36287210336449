SPECIFICATION Spec
CONSTANTS
    Count = 2
    Primary = 0
    Donate = 1
    NoPool = NoPool
    Socks = {s1}
    NoSock = NoSock
    Windows = {u1}
    NoWindow = NoWindow
    JobClasses = {"ok", "bad"}
    MaxSoft = 1
    MaxWindow = 1
INVARIANTS
    DonationWorkStops
CHECK_DEADLOCK FALSE
