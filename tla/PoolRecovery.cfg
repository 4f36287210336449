SPECIFICATION FairSpec
CONSTANTS
    Count = 3
    Primary = 0
    Donate = 1
    NoPool = NoPool
    Socks = {s1}
    NoSock = NoSock
    Windows = {u1}
    NoWindow = NoWindow
    JobClasses = {"ok"}
    Reliable = {0}
    MaxSoft = 1
    MaxWindow = 1
INVARIANTS
    NeverStranded
    DonationWorkStops
PROPERTIES
    TimersSpareActive
    PrimaryRegained
