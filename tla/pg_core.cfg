SPECIFICATION Spec
CONSTANTS
    n1 = n1
    n2 = n2
    w1 = w1
    w2 = w2
    j1 = j1
    j2 = j2
    q1 = q1
    NoJob = NoJob
    NoWorker = NoWorker
    Nodes = {n1, n2}
    Workers = {w1, w2}
    Jobs = {j1}
    Queues = {q1}
    NodeOf <- TwoNodes
    QueueOf <- OneQueue
    QueueLimit <- NoLimit
    RetryMax <- RetryTwice
    AttemptCap = 2
    BatchSize = 2
    NonJson = {}
    Ops = {"schedule", "requeue", "delete", "cleanup"}
    MaxApiOps = 1
    MaxMishaps = 0
    Punctual = FALSE
INVARIANTS
    TypeOK
    Findable
    FailedOwned
