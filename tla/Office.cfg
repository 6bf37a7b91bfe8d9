SPECIFICATION OfficeSpec
CONSTANTS
    Events <- TwoEvents
    Workers = {w1, w2}
    Nobody = Nobody
    BatchSize = 2
    MaxAttempts = 3
    MaxFaults = 3
    Old = {1, 2}
    New = {3, 4}
    SessionOf <- InSession
    Sequence <- FirstWord
    Ordinal <- NewOrdinal
    PaidAt <- Stamps
    SettledAt <- Settled
    Evidence = {1}
    Milli = 2
    PageSize = 3
    Options <- Ranges
    MaxKills = 1
INVARIANTS TypesOK ProcessedIsInserted AttemptsArePaid StoppedHoldsNothing LegacyCarried BackfillComplete
PROPERTIES DeliversLog LockIsOwners Ingested BackfillEnds
CHECK_DEADLOCK FALSE
