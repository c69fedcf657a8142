SPECIFICATION FairSpec
CONSTANTS
    p1 = p1
    p2 = p2
    Peers = {p1, p2}
    Local = Local
    NoNode = NoNode
    Makes <- MCMakes
    Delegates = {TRUE, FALSE}
    fDSLimited = FALSE
    Ignored = {}
    PingGaps = {5, 8}
    kFWSpeedReserved = 3
    kFWSpeed800MBit = 3
    MaxTrouble = 2
CHECK_DEADLOCK FALSE
INVARIANTS TopologyFromSelfIDs ScanEndsOnce SettlesWell
PROPERTIES Settles
