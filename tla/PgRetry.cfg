SPECIFICATION Spec
CONSTANTS
    Requests = {r1, r2}
    Kinds = {"stream"}
    Keys <- ClientKeys
    NoKey = NoKey
    Wants = {1, 2}
    Words = 3
    Price = 1
    Budget = 3
    Access = "paid"
    Adapter = "postgres"
    SettleInline = FALSE
    MaxCrashes = 0
SYMMETRY Symmetry
PROPERTIES RetryGetsItsWords
CHECK_DEADLOCK FALSE
