SPECIFICATION Spec
CONSTANT Statements <- MCStatements
INVARIANTS NoClearIntroduced
