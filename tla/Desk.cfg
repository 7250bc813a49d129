SPECIFICATION DeskSpec
CONSTANTS
    Reviewers = {"ada"}
    Proven <- FirstProven
    Journalable <- FirstInSql
    Workers = {w1}
    Runs = {"head", "full"}
    Credits = {"k1", "k2", "k3", "k4"}
    Items = {1, 2, 3, 4, 5, 6, 7, 8}
    Serves <- ServeAll
    CreditsOf <- DeskCredits
    Explanations <- DeskFindings
    Raising <- LastRaises
    Locking = TRUE
    CloseCommits = TRUE
    MaxSeq = 12
    MaxFaults = 1
INVARIANTS
    FlaggedIsListed
    AutoClearedIsPosted
    OfferedIsAccepted
