\* A list relearned within an update interval is passed on half filled.
SPECIFICATION ExchangeSpec
CONSTANTS
    Nets <- Three
    List <- ShortAndLong
    Replies <- ByPages
    FirstKnown = {1, 2}
    Own = {1}
    Capacity = 3
    MaxTotal = 255
    MaxFlight = 1
    Budget <- Trouble
    Nothing = Nothing
INVARIANTS AlwaysWhole
CHECK_DEADLOCK FALSE
