SPECIFICATION Spec
CONSTANTS
    Pools = {a, b}
    Primary = a
    Donate = b
    Ids = {x}
    Algos = {cn, rx}
    RandomX = {rx}
    N = 1
    Retarget = TRUE
    MaxContent = 3
    MaxToken = 3
    MaxGen = 2
    MaxNonce = 1
    MaxShares = 1
CHECK_DEADLOCK FALSE
INVARIANTS TypeOK ExitReachesWorkers CaughtUpWorkerMinesHeldJob
PROPERTIES ShareForHeldJob
