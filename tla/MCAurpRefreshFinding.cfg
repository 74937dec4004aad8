\* One loss in an export of two pages.
CONSTANTS
    Net = {1, 2}
    HomeRoutes <- Steady
    FirstHome <- OwnHome
    PageSize = 1
    MaxNumber = 5
    Retries = 2
    TickleRetries = 2
    OpenForms = {TRUE}
    Prompt = TRUE
    MaxFlight = 2
    Budget <- OneLossBudget
SPECIFICATION Spec
INVARIANTS
    AlwaysInStep
CHECK_DEADLOCK FALSE
