\* The timers under steady traffic.
SPECIFICATION LiveSpec
CONSTANTS
    Links <- AllLinks
    Capacity = 2
    MaxUntold = 2
    Signals = 2
    k1 = k1
    k2 = k2
    k3 = k3
    Keys = {k1, k2, k3}
    Segments = 2
    Heard <- SomeHeard
    Uses <- FewUses
    TxnTimeout = 2
    MaxOpen = 2
    MaxTime = 2
PROPERTIES TimersRun
CHECK_DEADLOCK FALSE
