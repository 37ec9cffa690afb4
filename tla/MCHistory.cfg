SPECIFICATION HistoryFairSpec
CONSTANTS
    Writers = {w1, w2}
    MaxId = 5
    Limit = 2
    NoId = NoId
INVARIANTS
    SkippedWasInFlight
PROPERTIES
    CommittedIsRead
CHECK_DEADLOCK FALSE
