SPECIFICATION Spec
CONSTANTS
    a = a  b = b  l1 = l1  l2 = l2  x = x  y = y  inbox = inbox  none = none
    Threads = {a, b}
    Requesters = {a}
    Listeners = {l1, l2}
    NoListener = none
    Subject <- SameTopic
    Inbox = inbox
    Modes = {"default"}
    BatchSize = 2
    MaxTicks = 2
    Calls_ = 3
    Faults = 1
    Budget <- MCBudget
INVARIANT NotDeaf
CHECK_DEADLOCK FALSE
