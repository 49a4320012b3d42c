SPECIFICATION FairSpec
CONSTANTS
    n1 = n1
    w1 = w1
    w2 = w2
    j1 = j1
    j2 = j2
    q1 = q1
    q2 = q2
    NoJob = NoJob
    NoWorker = NoWorker
    Nodes = {n1}
    Workers = {w1, w2}
    Jobs = {j1}
    Queues = {q1}
    NodeOf <- MCNodeOf
    QueueOf <- OneQueue
    QueueLimit <- NoLimit
    Priority <- Rank
    RetryMax <- RetryTwice
    AttemptCap = 2
    BatchSize = 2
    MaxQueue = 2
    Ops = {"schedule", "orphan", "cleanup", "requeue", "cancel", "delete"}
    MaxApiOps = 1
    Punctual = TRUE
INVARIANTS
    TypeOK
    Tracked
    NoDanglingKeys
    ActiveAccurate
    CancelHitsItsJob
PROPERTIES
    EventuallySettled
CHECK_DEADLOCK FALSE
