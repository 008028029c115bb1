CONSTANTS
    Modulus = 16
    Reliability = 1
    MaxPkts = 6
    First = 13
    Lose_ = 1
    Repeat_ = 1
    Nak_ = 1
    Pkts <- MCPkts
    Budget <- MCBudget
CHECK_DEADLOCK FALSE
SPECIFICATION Spec
INVARIANTS TypeOK Intact SavedOnce 
PROPERTY KeepsPromise
