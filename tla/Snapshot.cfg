SPECIFICATION Spec
CONSTANTS
    Texts = {"v1", "v2"}
    NoText = "none"
    Length <- Lengths
    Rows <- SectionRows
    Prices = {0, 1}
    Wallets = {"w1", "w2"}
    Selections <- Asked
    MaxPrice = 2
    Readers = {q1}
    Purchases = {p1}
    MaxEdits = 1
    MaxRestarts = 1
INVARIANTS SnapshotKept
CHECK_DEADLOCK FALSE
