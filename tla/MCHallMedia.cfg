SPECIFICATION Spec
CONSTANTS
    v1 = v1
    v2 = v2
    a1 = a1
    Visitors = {v1, v2}
    Agents = {}
    Kinds = {"mic"}
    LeaseTicks = 1
    Slots <- OneEach
    Holders <- FirstSpeaks
    MaxRequests = 2
    BgSlots = 1
    MaxCalls = 1
    MaxEvents = 2
    Nobody = Nobody
INVARIANTS
    TypeOK
PROPERTIES
    SlotsArePools
    StrayGrantEnds
    UnwelcomeLeaves
CHECK_DEADLOCK FALSE
