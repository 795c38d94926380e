SPECIFICATION FairSpec
CONSTANTS
    c1 = c1
    c2 = c2
    c3 = c3
    a1 = a1
    a2 = a2
    NoClient = NoClient
    Clients = {c1, c2}
    Addresses = {a1, a2}
    Address <- SamePeer
    Limit = 1
    Accepts = 2
    Callers = {"uid", "timer", "handler"}
INVARIANTS TypeOK DisconnectEventOnce
PROPERTY PlaceIsGivenBack
\* Every connection is over, or DebugBreak has stopped the process.
CHECK_DEADLOCK FALSE
