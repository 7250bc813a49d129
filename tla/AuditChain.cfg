SPECIFICATION ChainSpec
CONSTANTS
    Writers = {w1, w2}
    Runs = {r1, r2}
    Payloads = {c1, c2}
    Locking = TRUE
    MaxSeq = 3
INVARIANTS
    ChainInv
    NoFork
    LockedAppendNeverCollides
    VerifiesUntilCut
