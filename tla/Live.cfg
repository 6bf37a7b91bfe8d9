SPECIFICATION LiveSpec
CONSTANTS
    Requests = {r1, r2}
    Kinds = {"stream", "word", "abort"}
    Keys <- ClientKeys
    NoKey = NoKey
    Wants = {1, 2}
    Words = 2
    Price = 1
    Budget = 2
    Access = "paid"
    Adapter = "postgres"
    SettleInline = FALSE
    MaxCrashes = 0
    Items = {i1, i2}
    Refs = {t1, t2}
    NoRef = NoRef
PROPERTIES   EverythingSettles DrainEnds
CHECK_DEADLOCK FALSE
