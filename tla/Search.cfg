SPECIFICATION FairSpec
CONSTANT Questions <- MCQuestions
INVARIANTS SolutionsKept WalkIsExact VerdictIsTrue ExactIsFound
PROPERTY EventuallyAnswered
