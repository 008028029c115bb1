CONSTANTS
    s1 = s1  s2 = s2  n1 = n1  n2 = n2
    a1 = a1  a2 = a2  c1 = c1  b1 = b1
    x = x  y = y  xs = xs  inb = inb  p1 = p1  p2 = p2
    NoNet = NoNet  BadNet = BadNet
    Clients = {a1, a2, b1}
    Gob = {a1, a2}
    Subjects = {x, xs, inb}
    Topics = {x, y}
    Restricted = {inb}
    Publishers = {p1, p2}
    HasPrefix = TRUE
    Delays = {FALSE, TRUE}
    Service <- MCService
    Networks <- MCNetworks
    Matched <- MCMatched
    Budget <- MCBudget
    Conns = 3  Subs = 2  Losses = 2
SPECIFICATION Spec
INVARIANTS TypeOK ClientsCounted AdvisoriesTrue RefsAreSum  LossTold
CHECK_DEADLOCK FALSE
