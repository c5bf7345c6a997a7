SPECIFICATION Spec
CONSTANTS
    v1 = v1
    v2 = v2
    c1 = c1
    c2 = c2
    Calls = {c1, c2, c3}
    Agents = {a1, a2}
    Visitors = {v1}
    Caller <- OneCaller
    MaxAccepts = 2
    MaxDrops = 1
    MaxQueue = 1
    MaxEvents = 3
    NoCall = NoCall
    NoOne = NoOne
    NoEntry = NoEntry
INVARIANTS
    TypeOK
    OneAgentTalks
PROPERTIES
    HubIsVoiceHub
SYMMETRY Symmetry
CHECK_DEADLOCK FALSE
