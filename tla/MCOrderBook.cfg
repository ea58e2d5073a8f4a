SPECIFICATION Spec
CONSTANTS
    Ref = {r1, r2, r3}
    Price = {2, 4, 6, 8, 10}
    Shares = {1, 2}
    PRICE_TICK = 2
    MAX_LEVELS = 4
    PriceMod = 32
    Depth = 2
INVARIANTS LevelsMatchOrders TopOfBook WalkIsSortedBook BookTracksExchange
SYMMETRY RefSymmetry
