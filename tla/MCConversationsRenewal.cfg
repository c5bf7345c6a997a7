SPECIFICATION ConvSpec
CONSTANTS
    v1 = v1
    a1 = a1
    a2 = a2
    a3 = a3
    r1 = r1
    r2 = r2
    Visitors = {v1}
    Agents = {a1, a2}
    Admins = {a2}
    Requests = {r1}
    InitialConvs <- ServedVisitor
    MaxConvs = 2
    MaxVisits = 1
    MaxClaims = 1
    MaxDesk = 0
    MaxDrops = 0
    MaxUnread = 0
    NoOne = NoOne
PROPERTIES
    RenewalKeepsTheAgent
CHECK_DEADLOCK FALSE
