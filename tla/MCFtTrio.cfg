CONSTANTS
    N = 3
    Hb = 1
    Act = 3
    Prep = 0
    Odd = {}
    MaxAge = 4
    Lose_ = 0
    Crash_ = 1
    Stall_ = 0
    Stop_ = 0
    Rejoin_ = 0
    Node <- MCNode
    Weight <- MCWeight
    Param <- MCParam
    Budget <- MCBudget
CHECK_DEADLOCK FALSE
SPECIFICATION Spec
INVARIANTS OnePrimaryWhenQuiet
ACTION_CONSTRAINT Prompt
