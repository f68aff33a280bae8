SPECIFICATION FairSpec
CONSTANTS
    e1 = e1
    Events = {e1}
    Proposals = {p1}
    Prefs = {}
    Asks = {}
    EventOf <- OnlyEvent
    Clients = {c1, c2}
    Batch = 1
    MaxPuts = 1
    MaxOutages = 2
    MaxRestarts = 1
    None = None
INVARIANTS TypeOK Drainable
PROPERTIES  Refines Drains
CHECK_DEADLOCK FALSE
