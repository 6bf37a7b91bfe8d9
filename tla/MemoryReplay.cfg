SPECIFICATION Spec
CONSTANTS
    Requests = {r1, r2, r3, r4}
    Kinds = {"stream"}
    Keys = {k1, k2}
    NoKey = NoKey
    Wants = {1}
    Words = 2
    Price = 1
    Budget = 2
    Access = "paid"
    Adapter = "memory"
    SettleInline = FALSE
    MaxCrashes = 0
SYMMETRY Symmetry
INVARIANTS NeverDeliveredTwice
CHECK_DEADLOCK FALSE
