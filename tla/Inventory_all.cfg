SPECIFICATION FairSpec
CONSTANTS
    Calls = {c1, c2}
    a = a
    b = b
    Variants = {a, b}
    ItemLists <- MixedLists
    Ops = {"reserve", "release", "deduct"}
    InitialStocks = {2, 3}
    LowStockThreshold = 1
    MAX_RETRY = 2
    NoRow = NoRow
INVARIANTS TypeOK NoOversell VersionVouchesForRead ReservedUnitsAccounted ConflictMeansContention LowStockAnnounced
PROPERTIES ImplementsLedger CallsReturn
