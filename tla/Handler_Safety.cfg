CONSTANTS
    KindOf <- Everything
    QueueSize = 2
    DnsMayFail = TRUE
    WebMayFail = TRUE
    WebMayHang = TRUE
    MayBeKilled = TRUE
    HeapIsZero = FALSE
    MaxBoots = 2
SPECIFICATION FairSpec
INVARIANTS TypeOK OnlySignedPosted 
PROPERTY QueueDrains
CHECK_DEADLOCK FALSE
