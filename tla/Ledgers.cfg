SPECIFICATION LedgersSpec
CONSTANTS
    Requests = {r1, r2, r3}
    Kinds = {"stream", "word", "abort"}
    Keys <- ClientKeys
    NoKey = NoKey
    Wants = {1, 2}
    Words = 3
    Price = 1
    Budget = 3
    Access = "paid"
    Adapter = "postgres"
    SettleInline = FALSE
    MaxCrashes = 1
SYMMETRY Symmetry
INVARIANTS TypeOK LedgerTiles  KeysPayOnce
PROPERTIES KeepsPromise
CHECK_DEADLOCK FALSE
