SPECIFICATION PipelineSpec
CONSTANTS
    v1 = v1
    v2 = v2
    a1 = a1
    a2 = a2
    r1 = r1
    s1 = s1
    s2 = s2
    m1 = m1
    m2 = m2
    NoOne = NoOne
    NoMsg = NoMsg
    Visitors = {v1}
    Agents = {a1, a2}
    Admins = {a2}
    Requests = {r1}
    InitialConvs <- OneVisitor
    MaxConvs = 2
    MaxVisits = 1
    MaxClaims = 1
    MaxDesk = 1
    MaxDrops = 0
    MaxUnread = 3
    Msgs = {m1}
    Author <- AgentWrites
    Slots = {s1, s2}
    MaxSends = 2
    MaxQueue = 2
    MaxFaults = 1
    MaxCrashes = 0
    MaxBlocks = 0
INVARIANTS
    PipelineTypeOK
    RowIsEntitled
    AckedIsStored
    PushedOncePerRow
CHECK_DEADLOCK FALSE
