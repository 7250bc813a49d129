SPECIFICATION Spec
CONSTANT Statements <- MCStatements
INVARIANTS OneExplanation LedgerAddsUp OnlyParentsLift QueueIsHonest
