SPECIFICATION FairSpec
CONSTANTS
    Ports = {p1, p2}
    MaxObjects = 2
    MaxServers = 3
    Users = {u1, u2}
    Connections = {c1, c2}
INVARIANTS
    TypeOK
    NoLostServer
    DeactivatedIsQuiet
    AnsweredOrGone
PROPERTIES
    StopSettles
    RequestSettles
CHECK_DEADLOCK FALSE
