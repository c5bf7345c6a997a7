SPECIFICATION Spec
CONSTANTS
    v1 = v1
    a1 = a1
    c1 = c1
    c2 = c2
    Visitors = {v1}
    Agents = {a1}
    Clients = {c1}
    Account <- OneDevice
    Convs = {k1, k2}
    Workers = {w1}
    Loop = Loop
    RegisterCap = 2
    UnregisterCap = 1
    HighCap = 1
    Jobs = {"close_all"}
    None = None
INVARIANTS
    RevokedIsClosed
CHECK_DEADLOCK FALSE
