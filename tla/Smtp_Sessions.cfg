CONSTANTS
    c1 = c1
    c2 = c2
    Clients = {c1, c2}
    KindsOf <- Everything
    Cuts = "content"
    Departs = TRUE
    MaxSessions = 1
    ReadBufferSize = 5
    DataBufferSize = 5
    QueueSize = 2
SPECIFICATION Spec
INVARIANTS TypeOK NeverBlocksInRead ContentIntact AckedIsQueued
CHECK_DEADLOCK FALSE
