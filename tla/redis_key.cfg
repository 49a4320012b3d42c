SPECIFICATION RedisSpec
CONSTANTS
    k1 = k1
    r1 = r1
    r2 = r2
    r3 = r3
    r4 = r4
    k2 = k2
    n1 = n1
    n2 = n2
    n3 = n3
    NoJob = NoJob
    Requests = {r1, r2, r3, r4}
    Keys = {k1, k2}
    KeyOf <- MCKeyOf
    Nodes = {n1, n2, n3}
    UnregisterAge = 1
    MaxMishaps = 0
INVARIANTS
    KeyNamesOneJob
CHECK_DEADLOCK FALSE
