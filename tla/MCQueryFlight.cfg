SPECIFICATION Spec
CONSTANTS
    Requests = {r1, r2, r3}
    Keys = {k1, k2}
    MaxVersion = 1
    NoFlight = NoFlight
    NoKey = NoKey
    Failed = Failed
    Cancelled = Cancelled
INVARIANTS
    OneQueryPerKey
    SharedOutcomeIsTheLeaders
    NoOlderThanTheFlight
PROPERTIES
    EveryRequestReturns
CHECK_DEADLOCK FALSE
