SPECIFICATION FairSpec
CONSTANTS
    s1 = s1
    s2 = s2
    host = host
    Sessions = {s1, s2}
    Host <- MCHost
    Requests = {q1, q2}
    Relays = {r1, r2}
    Invalid = {s2}
    BatchSize = 2
    MaxAttempts = 2
    MaxFaults = 2
INVARIANTS
    OneLivePerHost
PROPERTIES
    TerminalIsFinal
    EndedIsAnnounced
CHECK_DEADLOCK FALSE
