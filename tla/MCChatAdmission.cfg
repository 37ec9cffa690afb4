SPECIFICATION Spec
CONSTANTS
    r3 = r3
    u1 = u1
    u2 = u2
    Requests = {r1, r2, r3}
    Users = {u1, u2}
    User <- MCUser
    Room = Room
    UserBurst = 1
    UserRate = 1
    RoomBurst = 2
    RoomRate = 2
    Cost = 2
    MinTtl = 1
    None = None
    MaxTime = 4
    MaxFaults = 2
INVARIANTS
    LevelIsExact
    RateBound
    PublishedWasGranted
CHECK_DEADLOCK FALSE
