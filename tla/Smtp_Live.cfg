CONSTANTS
    c1 = c1
    c2 = c2
    Clients = {c1, c2}
    KindsOf <- Ordinary
    Cuts = "content"
    Departs = FALSE
    MaxSessions = 2
    ReadBufferSize = 5
    DataBufferSize = 4
    QueueSize = 2
SPECIFICATION FairSpec
INVARIANTS AckedIsQueued RepliesMatch
PROPERTY EveryLineAnswered
CHECK_DEADLOCK FALSE
