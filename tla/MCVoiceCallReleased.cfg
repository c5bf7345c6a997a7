SPECIFICATION FairSpec
CONSTANTS
    v1 = v1
    v2 = v2
    c1 = c1
    c2 = c2
    Calls = {c1}
    Agents = {a1}
    Visitors = {v1}
    Caller <- OneCaller
    MaxAccepts = 2
    MaxDrops = 0
    MaxQueue = 2
    MaxEvents = 3
    NoCall = NoCall
    NoOne = NoOne
    NoEntry = NoEntry
PROPERTIES
    AcceptedVisitorIsReleased
CHECK_DEADLOCK FALSE
