SPECIFICATION ClientFairSpec
CONSTANTS
    Callers = {w1, w2}
    MaxDials = 4
    MaxFailures = 2
INVARIANTS
    ReadyChannelSound
    NoLeakedConnection
PROPERTIES
    NobodyWaitsForever
CHECK_DEADLOCK FALSE
