CONSTANTS
    s1 = s1  s2 = s2  n1 = n1  n2 = n2
    a1 = a1  a2 = a2  c1 = c1  b1 = b1
    x = x  y = y  xs = xs  inb = inb  p1 = p1  p2 = p2
    NoNet = NoNet  BadNet = BadNet
    Clients = {a1, b1}
    Gob = {a1}
    Subjects = {x}
    Topics = {}
    Restricted = {}
    Publishers = {}
    HasPrefix = FALSE
    Delays = {FALSE}
    Service <- MCService
    Networks <- MCNetworks
    Matched <- MCMatched
    Budget <- MCBudget
    Conns = 2  Subs = 1  Losses = 0
SPECIFICATION Spec
INVARIANT DigestIsReply
CHECK_DEADLOCK FALSE
