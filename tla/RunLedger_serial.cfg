SPECIFICATION FairSpec
CONSTANTS
    Workers = {w1}
    Runs = {"head", "full"}
    Credits = {"k1", "k2", "k3"}
    Items = {1, 2, 3, 4, 5, 6}
    Serves <- ServeAll
    CreditsOf <- SameCredits
    Explanations <- OwnFindings
    Raising <- LastRaises
    Locking = TRUE
    CloseCommits = TRUE
    MaxSeq = 12
    MaxFaults = 2
INVARIANTS
    LoggedIsWritten
    OneResult
    CompleteIsCovered
PROPERTIES
    EventuallyDecided
    ImplementsAuditChain
    ClearedIsFinal
