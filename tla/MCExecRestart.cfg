SPECIFICATION PanelSpec
CONSTANTS
    Word = {"generation", "tick_to_order"}
    Item = {0, 1, 2, 3}
    Zero = 0
    Reader = {dashboard}
    MaxStores = 2
    GenerationMod = 16
    MaxSpawns = 3
    MaxIds = 2
INVARIANTS IdsDistinctUnlessOrphaned RegistersWholeRows RatesNeverWrap
PROPERTIES SetupSettles
CHECK_DEADLOCK FALSE
