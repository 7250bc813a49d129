SPECIFICATION Spec
CONSTANTS
    Total = 4
    CallCap = 3
    MinCall = 1
    Ops = 3
    AgentMax = 3
    MaxTools = 4
    MaxRepeat = 2
    MaxPicks = 3
    Tools = {"lookup", "evidence"}
    Playbook <- MCPlaybook
    Horizon = 5
INVARIANTS WithinBudget FailureShows
PROPERTIES EventuallyEnds
