SPECIFICATION Spec
CONSTANTS
    Workers = {"w1"}
    Runs = {"head", "full"}
    Credits = {"k1", "k2", "k3"}
    Items = {1, 2, 3, 4, 5, 6}
    Serves <- ServeAll
    CreditsOf <- SameCredits
    Explanations <- OwnFindings
    Raising <- LastRaises
    Locking = TRUE
    CloseCommits = FALSE
    MaxSeq = 12
    MaxFaults = 2
INVARIANTS
    ChainVerifies
