SPECIFICATION FairSpec
CONSTANTS
    Events = {1, 2, 3, 4, 5, 6}
    Payments = {4, 5}
    Refunds = {1, 2, 3}
    Poison = {}
    Named = {1, 2, 3, 4, 5, 6}
    ItemOf <- Item
    ParentOf <- Parent
    MaxCrashes = 1
INVARIANTS
    Settled
    ParentFirst
PROPERTIES
    ImplementsLedger
    EventuallyApplied
