CONSTANTS
    KindOf <- OnlyOne
    QueueSize = 3
    DnsMayFail = FALSE
    WebMayFail = TRUE
    WebMayHang = FALSE
    MayBeKilled = FALSE
    HeapIsZero = TRUE
    MaxBoots = 1
SPECIFICATION Spec
INVARIANT ReportNeverLost
