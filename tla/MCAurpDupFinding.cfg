\* No loss, no restart: an update sent between Open-Rsp and RI-Req.
CONSTANTS
    Net = {1}
    HomeRoutes <- Steady
    FirstHome <- OwnHome
    PageSize = 1
    MaxNumber = 5
    Retries = 2
    TickleRetries = 2
    OpenForms = {TRUE}
    Prompt = TRUE
    MaxFlight = 2
    Budget <- QuietBudget
SPECIFICATION Spec
PROPERTIES
    AlwaysTransferred
CHECK_DEADLOCK FALSE
