SPECIFICATION HubSpec
CONSTANTS
    Calls = {c1}
    Agents = {a1, a2}
    MaxAccepts = 3
    NoCall = NoCall
    NoEntry = NoEntry
INVARIANTS
    EntryIsWatched
    AcceptSettledOnce
    LoopWritesOneNote
    FinishedIsNotRung
PROPERTIES
    AcceptIsSettled
CHECK_DEADLOCK FALSE
