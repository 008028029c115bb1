SPECIFICATION FairSpec
CONSTANTS
    a = a  b = b  l1 = l1  l2 = l2  x = x  y = y  inbox = inbox  none = none
    Threads = {a, b}
    Requesters = {a}
    Listeners = {l1, l2}
    NoListener = none
    Subject <- Distinct
    Inbox = inbox
    Modes = {"default", "timer", "single"}
    BatchSize = 2
    MaxTicks = 2
    Calls_ = 2
    Faults = 2
    Budget <- MCBudget
INVARIANTS TypeOK NotDeaf InOrder NoneStranded  
PROPERTY Recovers
CHECK_DEADLOCK FALSE
