SPECIFICATION FairSpec
CONSTANTS
    Pubs = {p1, p2}
    Lanes = {l1}
    Queues = {persistence, realtime}
    PersistenceQueue = persistence
    None = None
    MaxFaults = 3
INVARIANTS
    ConfirmedWasRouted
    ResultIsOwn
    LanesAccounted
    ClosedIsQuiet
PROPERTIES
    CloseReturns
CHECK_DEADLOCK FALSE
