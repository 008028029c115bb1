CONSTANTS
    N = 2
    Hb = 2
    Act = 5
    Prep = 4
    Odd = {2}
    MaxAge = 6
    Lose_ = 1
    Crash_ = 1
    Stall_ = 0
    Stop_ = 1
    Rejoin_ = 0
    Node <- MCNode
    Weight <- MCWeight
    Param <- MCParam
    Budget <- MCBudget
CHECK_DEADLOCK FALSE
SPECIFICATION FairSpec
INVARIANTS TypeOK QueueIsGroup CountsMatch IntervalsSane
PROPERTIES StepsDownForHigherRank EventuallySettled StopExits
