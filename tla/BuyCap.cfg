SPECIFICATION Spec
CONSTANTS
    Sections = {"a", "b", "title"}
    FullArticle = "full-article"
    WordCount <- Counts
    Practical = {"b"}
    Price = 2
    Chunk = 2
    Commands <- AllCommands
    Assessments <- SellerSays
    Chain = "arc"
    Wallets = {"w1", "w2"}
    Ends <- CliEndings
    Reports <- CliReports
    MaxRuns = 2
    MaxKills = 1
INVARIANTS OriginalCapHolds
CHECK_DEADLOCK FALSE
