SPECIFICATION FairSpec
CONSTANTS
    n1 = n1
    n2 = n2
    w1 = w1
    w2 = w2
    j1 = j1
    j2 = j2
    q1 = q1
    NoJob = NoJob
    NoWorker = NoWorker
    Nodes = {n1}
    Workers = {w1, w2}
    Jobs = {j1, j2}
    Queues = {q1}
    NodeOf <- OneNode
    QueueOf <- OneQueue
    QueueLimit <- NoLimit
    RetryMax <- RetryTwiceOrNever
    AttemptCap = 3
    BatchSize = 2
    NonJson = {}
    Ops = {"schedule", "cancel", "continue", "crash", "stop", "fault", "dial", "timeout", "cleanup"}
    MaxApiOps = 1
    MaxMishaps = 2
    Punctual = TRUE
INVARIANTS
    SingleRunner
    RetryBudget
PROPERTIES
    IrreversibleStable
    EventuallySettled
CHECK_DEADLOCK FALSE
