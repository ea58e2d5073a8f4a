SPECIFICATION Spec
CONSTANTS
    Ref = {r1, r2, r3}
    Price = {4, 5, 6, 7}
    Shares = {1, 2}
    PRICE_TICK = 2
    MAX_LEVELS = 4
    PriceMod = 32
    Depth = 2
SYMMETRY RefSymmetry
INVARIANTS BestIsOccupied
