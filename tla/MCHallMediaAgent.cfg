SPECIFICATION Spec
CONSTANTS
    v1 = v1
    v2 = v2
    a1 = a1
    Visitors = {}
    Agents = {a1}
    Kinds = {"mic"}
    LeaseTicks = 1
    Slots <- OneEach
    Holders <- NobodySpeaks
    MaxRequests = 0
    BgSlots = 2
    MaxCalls = 1
    MaxEvents = 2
    Nobody = Nobody
PROPERTIES
    AgentMicReturns
CHECK_DEADLOCK FALSE
