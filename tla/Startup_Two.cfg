CONSTANTS
    q1 = q1
    q2 = q2
    w1 = w1
    w2 = w2
    h1 = h1
    h2 = h2
    old = old
    Queues = {q1, q2}
    Producers = {w1, w2}
    Consumers = {h1, h2}
    FileOf <- TwoFiles
    MessageMaxCount = 2
    Mail = {m1, m2}
    NoMail = NoMail
    KillPoints <- KillNowhere
    InitOnlyWhenQuiet = FALSE
    Interrupts = FALSE
    WorkerSeq <- Two
    HandlerSeq <- TwoHandlers
    Survivors = {}
    SleepCoversStartup = TRUE
SPECIFICATION StartupSpec
INVARIANT MutualExclusion
