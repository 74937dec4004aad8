\* An export of two pages, any two changes, a loss, a restart, a ping and a probe.
CONSTANTS
    Net = {1, 2}
    HomeRoutes <- AllRoutes
    FirstHome <- KnownHome
    PageSize = 1
    MaxNumber = 5
    Retries = 2
    TickleRetries = 2
    OpenForms = {TRUE, FALSE}
    Prompt = TRUE
    MaxFlight = 2
    Budget <- ChangesBudget
SPECIFICATION Spec
INVARIANTS StopAndWait NothingLost InStep
PROPERTIES OpensAfresh ImplementsTransfer
CHECK_DEADLOCK FALSE
