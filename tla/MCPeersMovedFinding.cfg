SPECIFICATION LiveSpec
CONSTANTS
    Addr = {a, b}
    Talkers = {a}
    Passers = {}
    Name = {n}
    Open = TRUE
    MaxOpenPeers = 2
    Retries = 2
    TickleRetries = 2
    LastHeard = 1
    Backoff = 1
    None = None
PROPERTY MovedRoutesLeave
