SPECIFICATION Spec
CONSTANTS
    n1 = n1
    w1 = w1
    w2 = w2
    j1 = j1
    j2 = j2
    q1 = q1
    q2 = q2
    NoJob = NoJob
    NoWorker = NoWorker
    Nodes = {n1}
    Workers = {w1, w2}
    Jobs = {j1, j2}
    Queues = {q1, q2}
    NodeOf <- MCNodeOf
    QueueOf <- TwoQueues
    QueueLimit <- LimitOne
    Priority <- Rank
    RetryMax <- RetryDefaultOrNever
    AttemptCap = 11
    BatchSize = 2
    MaxQueue = 2
    Ops = {"schedule", "cancel", "continue", "stop"}
    MaxApiOps = 1
    Punctual = TRUE
SYMMETRY Symmetry
INVARIANTS
    ExactlyOneClaim
    ParentResultIsOwn
PROPERTIES
    ImplementsLifecycle
CHECK_DEADLOCK FALSE
