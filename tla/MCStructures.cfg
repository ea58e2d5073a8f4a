SPECIFICATION AllSpec
CONSTANTS
    Key = {k1, k2, k3, k4}
    OrderId = {i1, i2, i3, i4}
    NoId = NoId
    Entry = {1, 2}
    MapCapacity = 4
    NoKey = NoKey
    MAX_ROWS = 3
    INDEX_SLOTS = 4
    NBits = 10
    Radix = 3
    Tiers = 3
    Px = {2, 3}
    Qty = {1, 2, 3}
    Fee = {1}
    BaseFee = {2}
    Mark2 = {5, 8}
    TLMul = 2
    BasePerLot = 4
    MaxFills = 4
    MaxMarks = 1
    RateOrder = {o1, o2}
    RateMax = 8
    RateMargin = 2
    Decay = 1
    MaxTransit = 2
    ClockSteps = {1, 5, 40}
    MaxRequests = 4
    MaxTicks = 3
    Width = 4
    Permille = {0, 500, 990, 999, 1000}
    MaxSamples = 3
    EventCap = 2
    FrameCap = 1
    Depth = 2
    MaxMsgs = 3
    Image = {good, newer, tls, junk, bare, alien}
    NotElf = {junk}
    HasTls = {tls}
    NoTable = {bare}
    OtherAbi = {alien}
    MaxFd = 2
    MaxLoads = 4
    MaxRewrites = 2
    CfgKey = {"a", "b", "c"}
    CfgVal = {"1", "x"}
    Convertible = {"1"}
    MAX_ENTRIES = 2
    MaxLines = 4
    Capacity = 2
    CounterMod = 8
    Word = {w1}
    Item = {a}
    MaxCrashes = 0
    MaxLag = 4
INVARIANTS
    TablesFindTheLive
    BitmapFindsLevels
    AccountExact
    RateHeadroom
    PercentileBrackets
    NoStaleField
    LoaderSound
    ConfigIsTheFile
    SizeOverReports
CHECK_DEADLOCK FALSE
