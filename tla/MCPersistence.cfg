SPECIFICATION FairSpec
CONSTANTS
    e1 = e1
    e2 = e2
    e3 = e3
    e4 = e4
    k1 = k1
    w1 = w1
    w2 = w2
    c1 = c1
    c2 = c2
    Events = {e1, e2, e3, e4}
    Keys = {k1}
    Key <- MCKey
    Content <- MCContent
    Malformed = {e4}
    Consumers = {c1, c2}
    Workers = {w1, w2}
    Owner <- MCOwner
    Prefetch = 2
    DeliveryLimit = 2
    None = None
    MaxFaults = 1
INVARIANTS
    AckedIsDurable
    InboxMatchesRow
    DeadForCause
PROPERTIES
    ImplementsChatLog
    EventuallySettled
CHECK_DEADLOCK FALSE
