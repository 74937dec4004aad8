\* Three networks, two names short or long; losses, a repeat, a removal, a restart.
SPECIFICATION ExchangeLiveSpec
CONSTANTS
    Nets <- Three
    List <- ShortAndLong
    Replies <- ByPages
    FirstKnown = {1, 2}
    Own = {1}
    Capacity = 3
    MaxTotal = 255
    MaxFlight = 1
    Budget <- Trouble
    Nothing = Nothing
INVARIANTS CompleteIsWhole
PROPERTIES ZonesArrive
CHECK_DEADLOCK FALSE
