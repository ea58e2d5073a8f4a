SPECIFICATION FairSpec
CONSTANTS
    Requests = {"term", "ctrlc", "usr1", "swap"}
    MaxDeaths = 1
    MaxRequests = 2
INVARIANTS KillAfterUnaskedDeath
PROPERTIES RequestsSettle SwapHonoured
CHECK_DEADLOCK FALSE
