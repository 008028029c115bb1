CONSTANTS
    N = 2
    Hb = 2
    Act = 5
    Prep = 4
    Odd = {}
    MaxAge = 6
    Lose_ = 0
    Crash_ = 0
    Stall_ = 0
    Stop_ = 0
    Rejoin_ = 1
    Node <- MCNode
    Weight <- MCWeight
    Param <- MCParam
    Budget <- MCBudget
CHECK_DEADLOCK FALSE
SPECIFICATION Spec
INVARIANT RankMatchesState
