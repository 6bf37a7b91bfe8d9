SPECIFICATION ModesSpec
CONSTANTS
    Items = {i1, i2, i3}
    Sessions = {s1}
    SessionOf <- Owners
    Refs = {t1, t2}
    NoRef = NoRef
    BatchSize = 2
    PersistFails = TRUE
    MaxCrashes = 1
    Keys <- ClientKeys
    NoKey = NoKey
    Wants = {1, 2}
    Words = 3
    Price = 2
    Budget = 5
SYMMETRY Symmetry
INVARIANTS TypeOK NothingStranded SettledOnce DrainSettles FailureHalts ChargedBeforeRelease InlineInBudget
PROPERTIES BillsStand
CHECK_DEADLOCK FALSE
