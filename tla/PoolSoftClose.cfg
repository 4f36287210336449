SPECIFICATION HSpec
CONSTANTS
    Count = 3
    Primary = 0
    Donate = 1
    NoPool = NoPool
    Socks = {s1}
    NoSock = NoSock
    Windows = {u1}
    NoWindow = NoWindow
    JobClasses = {"ok"}
    MaxSoft = 1
    MaxWindow = 1
PROPERTIES
    StaleCloseHarmless
