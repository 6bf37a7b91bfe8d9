SPECIFICATION Spec
CONSTANTS
    Old = {1, 2}
    New = {3, 4}
    SessionOf <- InSession
    Sequence <- FirstWord
    Ordinal <- NewOrdinal
    PaidAt <- Stamps
    SettledAt <- Settled
    Evidence = {1}
    Milli = 2
    BatchSize = 3
    Options <- Ranges
    MaxKills = 1
INVARIANTS EachPaymentOnce
CHECK_DEADLOCK FALSE
