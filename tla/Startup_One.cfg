CONSTANTS
    q1 = q1
    q2 = q2
    w1 = w1
    w2 = w2
    h1 = h1
    h2 = h2
    old = old
    Queues = {q1}
    Producers = {w1}
    Consumers = {h1}
    FileOf <- OneFile
    MessageMaxCount = 2
    Mail = {m1, m2}
    NoMail = NoMail
    KillPoints <- KillNowhere
    InitOnlyWhenQuiet = FALSE
    Interrupts = FALSE
    WorkerSeq <- One
    HandlerSeq <- OneHandler
    Survivors = {}
    SleepCoversStartup = TRUE
SPECIFICATION StartupFairSpec
INVARIANT MutualExclusion
PROPERTIES BootIsQuiet EventuallyTaken
