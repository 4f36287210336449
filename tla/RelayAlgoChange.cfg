SPECIFICATION Spec
CONSTANTS
    Pools = {a, b}
    Primary = a
    Donate = b
    Ids = {x}
    Algos = {cn, kw}
    RandomX = {}
    N = 1
    Retarget = FALSE
    MaxContent = 2
    MaxToken = 3
    MaxGen = 3
    MaxNonce = 1
    MaxShares = 2
SYMMETRY Symmetry
CHECK_DEADLOCK FALSE
INVARIANTS NoDuplicateShare
