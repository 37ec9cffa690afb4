SPECIFICATION Spec
CONSTANTS
    Connections = 3
    ConnectionsPerUser = 2
    Senders = 2
    TargetMessages = 2
    MaxRejected = 1
    Workers = {w1, w2}
    PageSize = 1
    None = None
    MaxFaults = 2
INVARIANTS
    PassedIsSound
    NothingIsLeft
PROPERTY
    RunEnds
CHECK_DEADLOCK FALSE
