SPECIFICATION FairSpec
CONSTANTS
    l1 = l1
    p1 = p1
    k1 = k1
    t1 = t1
    t2 = t2
    NoListener = NoListener
    Terminators = {t1, t2}
    Workers = 2
    MaxFaults = 1
    Listeners = {l1}
    Posts = 2
    Peers = {p1}
    Connections = {k1}
    MaxSockets = 2
    MaxSends = 1
    Families = {"v4", "v6"}
    MaxDatagrams = 1
    MaxNotices = 1
    Configurations <- OneByOne
INVARIANTS TypeOK AcceptAccounting AcceptsKept OneLifeline UdpAccounting
    OnlyLateSurvive UndefinedOnlyByRace
PROPERTIES KeyFreedLast TerminateReturns
CHECK_DEADLOCK FALSE
