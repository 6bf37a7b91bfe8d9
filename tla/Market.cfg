SPECIFICATION MCMarketSpec
CONSTANTS
    Sections = {"a", "b", "title"}
    FullArticle = "full-article"
    WordCount <- Counts
    Practical = {"b"}
    Price = 2
    Chunk = 2
    Commands <- AllCommands
    Assessments <- SellerSays
    Chain = "arc"
    Wallets = {"w1", "w2"}
    Ends <- CliEndings
    Reports <- CliReports
    MaxRuns = 2
    MaxKills = 1
    Texts <- Versions
    NoText = "none"
    Length <- Lengths
    SectionRows <- RowsOf
    Prices = {0, 1}
    Selections <- Asked
    MaxPrice = 3
    Readers = {q1}
    Purchases = {p1, p2}
    MaxEdits = 2
    MaxRestarts = 1
    Ids = {"s1", "s2"}
    Contents = {"x", "y"}
    Absent = "-"
    Runners = {n1, n2}
    Batch = 1
    MaxChanges = 1
    Clients = {k1, k2}
    SessionWords = 3
    Budgets = {5, 6}
    Wants = {2}
    Fees <- SomeFees
    Ranges <- SomeRanges
    Bodies <- SomeBodies
    Balances <- SomeBalances
INVARIANTS TypesOK CapHoldsPerRun ReceiptIsLedger ChargesAreTraced  RebuiltAsChosen BaseSaleIsExact EmbeddingsConverge FeesAgree InputsFit PaidAsSigned
  
CHECK_DEADLOCK FALSE
