SPECIFICATION Spec
CONSTANTS
    n1 = n1
    w1 = w1
    w2 = w2
    j1 = j1
    q1 = q1
    NoJob = NoJob
    NoWorker = NoWorker
    Nodes = {n1}
    Workers = {w1, w2}
    Jobs = {j1}
    Queues = {q1}
    NodeOf <- OneNode
    QueueOf <- OneQueue
    QueueLimit <- NoLimit
    Priority <- Rank
    DefaultQueue = q1
    RetryMax <- RetryTwice
    AttemptCap = 2
    BatchSize = 2
    MaxQueue = 2
    Ops = {"schedule", "requeue", "delete", "cancel", "cleanup", "timeout", "fault", "dial", "crash", "stop"}
    MaxEvents = 1
    Punctual = TRUE
SYMMETRY Symmetry
INVARIANTS
    TypeOK
    NothingLost
PROPERTIES
    SweepSparesLive
