SPECIFICATION FairSpec
CONSTANTS
    c1 = c1
    u1 = u1
    Conns = {c1, c2}
    Users = {u1, u2}
    User <- MCUser
    MaxConnections = 2
    MaxConnectionsPerUser = 1
    ReceiveCap = 2
    SendCap = 1
    MaxFrames <- MCFrames
INVARIANTS
    AcksAreTrue
    AdmissionExact
    ShutdownIsQuiet
PROPERTIES
    HandlerEnds
    ShutdownDrains
CHECK_DEADLOCK FALSE
