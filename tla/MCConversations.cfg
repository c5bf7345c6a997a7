SPECIFICATION ConvSpec
CONSTANTS
    v1 = v1
    a1 = a1
    a2 = a2
    a3 = a3
    r1 = r1
    r2 = r2
    Visitors = {v1}
    Agents = {a1, a2}
    Admins = {a1}
    Requests = {r1}
    InitialConvs <- ServedVisitor
    MaxConvs = 2
    MaxVisits = 2
    MaxClaims = 1
    MaxDesk = 3
    MaxDrops = 1
    MaxUnread = 1
    NoOne = NoOne
PROPERTIES
    PurgeSparesRestored
    OwnershipIsNotSeized
CHECK_DEADLOCK FALSE
