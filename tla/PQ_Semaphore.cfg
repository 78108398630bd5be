CONSTANTS
    q1 = q1
    q2 = q2
    w1 = w1
    w2 = w2
    h1 = h1
    h2 = h2
    Queues = {q1, q2}
    Producers = {w1, w2}
    Consumers = {h1, h2}
    FileOf <- TwoFiles
    MessageMaxCount = 1
    Mail = {m1}
    NoMail = NoMail
    KillPoints <- KillAnywhere
    InitOnlyWhenQuiet = FALSE
    Interrupts = TRUE
SPECIFICATION Spec
INVARIANTS SemaphoreNeverLost
