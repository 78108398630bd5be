CONSTANTS
    q1 = q1
    w1 = w1
    h1 = h1
    Queues = {q1}
    Producers = {w1}
    Consumers = {h1}
    FileOf <- OnePair
    MessageMaxCount = 2
    Mail = {m1}
    NoMail = NoMail
    KillPoints <- KillAnywhere
    InitOnlyWhenQuiet = TRUE
    Interrupts = FALSE
    Aligned = {0}
    MaxFailures = 2
SPECIFICATION DurableSpec
INVARIANT NothingForgotten
