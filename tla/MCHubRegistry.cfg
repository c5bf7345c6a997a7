SPECIFICATION FairSpec
CONSTANTS
    v1 = v1
    a1 = a1
    c1 = c1
    c2 = c2
    Visitors = {v1}
    Agents = {a1}
    Clients = {c1, c2}
    Account <- TwoTabs
    Convs = {k1}
    Workers = {w1}
    Loop = Loop
    RegisterCap = 2
    UnregisterCap = 2
    HighCap = 1
    Jobs = {"fan", "hall"}
    None = None
INVARIANTS
    TypeOK
    LiveIsListed
    GoneIsForgotten
    LoopNeverStuck
PROPERTIES
    ClosedIsHandled
