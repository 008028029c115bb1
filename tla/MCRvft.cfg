SPECIFICATION FairSpec
CONSTANTS
    mon1 = mon1  d1 = d1  d2 = d2
    Members = {1, 2}
    Weights = {1, 2}
    Goal = 1
    Hb = 1
    Prepare = 2
    Activate = 3
    Lost = 2
    Dispatchers = {d1}
    Monitor = mon1
    Any_ = 1
    Lose_ = 1
    Crash_ = 1
    Stall_ = 1
    Destroy_ = 1
    Weight_ = 1
    Blip_ = 1
    Budget <- MCBudget
INVARIANTS TypeOK  
PROPERTIES Settles MonitorSees
CHECK_DEADLOCK FALSE
