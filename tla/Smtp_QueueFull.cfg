CONSTANTS
    c1 = c1
    c2 = c2
    Clients = {c1, c2}
    KindsOf <- TwoGood
    Cuts = "nowhere"
    Departs = FALSE
    MaxSessions = 1
    ReadBufferSize = 5
    DataBufferSize = 5
    QueueSize = 1
SPECIFICATION Spec
INVARIANT AckedIsQueued
CHECK_DEADLOCK FALSE
