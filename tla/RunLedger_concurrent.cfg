SPECIFICATION Spec
CONSTANTS
    Workers = {"w1", "w2"}
    Runs = {"head", "full"}
    Credits = {"k1", "k2", "k3"}
    Items = {1, 2, 3, 4, 5, 6}
    Serves <- ServeOwn
    CreditsOf <- SameCredits
    Explanations <- OwnFindings
    Raising <- LastRaises
    Locking = FALSE
    CloseCommits = FALSE
    MaxSeq = 12
    MaxFaults = 1
INVARIANTS
    LedgerInv
    ExclusiveInv
PROPERTIES
    BeliefIsKept
    CompletedRowsStay
    ClearedIsFinal
