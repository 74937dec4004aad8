\* Two pages, two changes, two losses and a restart: the two ends agree in the end.
CONSTANTS
    Net = {1, 2}
    HomeRoutes <- Steady
    FirstHome <- OwnHome
    PageSize = 1
    MaxNumber = 4
    Retries = 2
    TickleRetries = 1
    OpenForms = {TRUE}
    Prompt = TRUE
    MaxFlight = 2
    Budget <- LiveBudget
SPECIFICATION LiveSpec
PROPERTIES
    Converges
CHECK_DEADLOCK FALSE
