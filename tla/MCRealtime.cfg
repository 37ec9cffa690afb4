SPECIFICATION RealtimeFairSpec
CONSTANTS
    Sessions = {s1}
    Clients = {c1, c2}
    Rooms = {r1, r2}
    NoRoom = NoRoom
    NoSession = NoSession
    RoomQueueCap = 1
    ClientQueueCap = 1
    MaxBroadcasts = 2
    MaxChat = 1
    MaxAnnouncements = 1
INVARIANTS
    NoOrphanClient
    ShutdownClosedClients
    NoGap
    GateClosedOnMembers
PROPERTIES
    UnmappedRoomsEnd
    EndIsObserved
CHECK_DEADLOCK FALSE
