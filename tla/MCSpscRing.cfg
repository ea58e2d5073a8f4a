SPECIFICATION FairSpec
CONSTANTS
    Capacity = 2
    CounterMod = 4
    Word = {w1, w2}
    Item = {a, b}
    MaxCrashes = 1
INVARIANTS TypeOK NoSlotRace
PROPERTIES RefinesFifo Delivers
