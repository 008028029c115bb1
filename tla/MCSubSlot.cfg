CONSTANTS
    Hosts = {"h1", "h2", "h3"}
    Sessions = {"own", "s2", "t3"}
    Subjects = {"x"}
    Daemons = {}
    Own = "own"
    HostOf <- MCHostOf
    QueryIval = 1
    SessTimeout = 2
    LateSecs = 2
    HostTimeout = 3
    Sass3Timeout = 3
    StatusIval = 2
    Wrap = 4
    Ops = 2
    Faults = 1
    Budget <- MCBudget
CHECK_DEADLOCK FALSE
SPECIFICATION Spec
INVARIANT FreeSlotFound
