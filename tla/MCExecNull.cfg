SPECIFICATION FairSpec
CONSTANTS
    Live = FALSE
    Px = {1}
    FillPx = {}
    Qty = {1}
    Tif = {"GTC", "IOC"}
    Mids = {0}
    AllowReplace = TRUE
    Callbacks = {"on_start", "on_exec", "on_timer", "on_stop"}
    Quote0 = 4
    Base0 = 3
    MaxPosition = 3
    MaxPositionNotional = 0
    MaxOpen = 2
    MaxRows = 2
    QUEUE = 8
    MaxSubmits = 2
    MaxOps = 2
INVARIANTS NothingResting KillHonoured
PROPERTIES CancelCompletes ShutdownCompletes
CHECK_DEADLOCK FALSE
