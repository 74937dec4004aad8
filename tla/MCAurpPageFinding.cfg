\* Two pages: an update queued before the receiver restarted makes it take the
\* first page of its new export for a duplicate.
CONSTANTS
    Net = {1, 2}
    HomeRoutes <- Steady
    FirstHome <- OwnHome
    PageSize = 1
    MaxNumber = 4
    Retries = 2
    TickleRetries = 1
    OpenForms = {TRUE}
    Prompt = TRUE
    MaxFlight = 2
    Budget <- LiveBudget
SPECIFICATION LiveSpec
PROPERTIES
    AlwaysConverges
CHECK_DEADLOCK FALSE
