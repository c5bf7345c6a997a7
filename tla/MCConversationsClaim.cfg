SPECIFICATION ConvSpec
CONSTANTS
    v1 = v1
    a1 = a1
    a2 = a2
    a3 = a3
    r1 = r1
    r2 = r2
    Visitors = {v1}
    Agents = {a1, a2}
    Admins = {}
    Requests = {r1}
    InitialConvs <- NewVisitor
    MaxConvs = 1
    MaxVisits = 1
    MaxClaims = 2
    MaxDesk = 0
    MaxDrops = 0
    MaxUnread = 0
    NoOne = NoOne
PROPERTIES
    OneClaimSucceeds
CHECK_DEADLOCK FALSE
