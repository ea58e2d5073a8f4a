SPECIFICATION Spec
CONSTANTS
    Live = TRUE
    Px = {0, 2}
    FillPx = {1, 2}
    Qty = {1, 2}
    Tif = {"GTC"}
    Mids = {0, 1}
    AllowReplace = TRUE
    Callbacks = {}
    Quote0 = 3
    Base0 = 0
    MaxPosition = 2
    MaxPositionNotional = 0
    MaxOpen = 3
    MaxRows = 2
    QUEUE = 2
    MaxSubmits = 2
    MaxOps = 0
INVARIANTS BooksBalance AgreesWithVenue WithinPositionLimit NeverOverReserved
CHECK_DEADLOCK FALSE
