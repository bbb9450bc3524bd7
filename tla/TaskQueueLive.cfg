\* Two processes with ids of their own, one execution at a time, one fault of each kind.
CONSTANTS
    t1 = t1
    t2 = t2
    t3 = t3
    p1 = p1
    p2 = p2
    w1 = w1
    w2 = w2
    k1 = k1
    i1 = i1
    None = None
    Tasks = {t1, t2}
    ResourceKeys = {k1}
    IdempotencyKeys = {i1}
    Requests <- AllRequests
    Procs = {p1, p2}
    WorkerIds = {w1, w2}
    workerId <- DistinctIds
    Concurrency = 1
    FaultKinds = {"crash", "stall", "db"}
    MaxFaults = 1
CHECK_DEADLOCK FALSE
SPECIFICATION FairSpec
PROPERTIES PromiseKept LatestAttemptEnds
