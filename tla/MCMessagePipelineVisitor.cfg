SPECIFICATION PipelineSpec
CONSTANTS
    v1 = v1
    v2 = v2
    a1 = a1
    a2 = a2
    r1 = r1
    s1 = s1
    s2 = s2
    m1 = m1
    m2 = m2
    NoOne = NoOne
    NoMsg = NoMsg
    Visitors = {v1}
    Agents = {a1}
    Admins = {}
    Requests = {r1}
    InitialConvs <- OneVisitor
    MaxConvs = 2
    MaxVisits = 1
    MaxClaims = 0
    MaxDesk = 2
    MaxDrops = 0
    MaxUnread = 3
    Msgs = {m1, m2}
    Author <- VisitorTalks
    Slots = {s1}
    MaxSends = 1
    MaxQueue = 2
    MaxFaults = 0
    MaxCrashes = 1
    MaxBlocks = 2
INVARIANTS
    FramesAreAccounted
PROPERTIES
    BlockedIsSilent
CHECK_DEADLOCK FALSE
