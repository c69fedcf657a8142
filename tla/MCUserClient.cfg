SPECIFICATION ClientSpec
CONSTANTS
    NoClient = NoClient
    NoObject = NoObject
    OtherNub = OtherNub
    Clients = {u1, u2}
    Threads = {t1, t2}
    Objects = {1, 2, 3}
    Maker = u1
    InitialCapacity = 1
    MaxCapacity = 1
    Applications = {{"open", "seize"}, {"make"}}
    ClientRaces = {"callDuringRelease", "reopen"}
INVARIANTS OwnersAreKnown
PROPERTIES ClientsGo
CHECK_DEADLOCK FALSE
