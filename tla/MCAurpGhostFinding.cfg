\* No loss, no restart: a network added, exported and deleted.
CONSTANTS
    Net = {1}
    HomeRoutes <- ComesAndGoes
    FirstHome <- LateHome
    PageSize = 1
    MaxNumber = 5
    Retries = 2
    TickleRetries = 2
    OpenForms = {TRUE}
    Prompt = TRUE
    MaxFlight = 2
    Budget <- QuietBudget
SPECIFICATION Spec
INVARIANTS
    AtRestAgree
CHECK_DEADLOCK FALSE
