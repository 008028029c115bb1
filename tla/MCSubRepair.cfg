CONSTANTS
    Hosts = {"h1", "h2"}
    Sessions = {"own", "s2", "d2"}
    Subjects = {"x"}
    Daemons = {"d2"}
    Own = "own"
    HostOf <- MCHostOf
    QueryIval = 1
    SessTimeout = 2
    LateSecs = 2
    HostTimeout = 3
    Sass3Timeout = 3
    StatusIval = 2
    Wrap = 4
    Ops = 3
    Faults = 1
    Budget <- MCBudget
CHECK_DEADLOCK FALSE
SPECIFICATION FairSpec
INVARIANTS TypeOK RefsAreHolders ListenerInSync DigestIsHeld
 
