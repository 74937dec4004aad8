SPECIFICATION LiveSpec
CONSTANTS
    Addr = {a, b}
    Talkers = {a, b}
    Passers = {b}
    Name = {n}
    Open = TRUE
    MaxOpenPeers = 1
    Retries = 2
    TickleRetries = 2
    LastHeard = 1
    Backoff = 1
    None = None
PROPERTIES DeadRoutesLeave SilentStrangersLeave ConfiguredComeBack
