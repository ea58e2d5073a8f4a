SPECIFICATION FairSpec
CONSTANTS
    Word = {w1, w2}
    Item = {a, b}
    Zero = a
    Reader = {r1, r2}
    MaxStores = 2
PROPERTIES RefinesCell EventuallyVisible
