CONSTANTS
    t1 = t1
    t2 = t2
    t3 = t3
    p1 = p1
    p2 = p2
    w1 = w1
    w2 = w2
    k1 = k1
    i1 = i1
    None = None
    Tasks = {t1, t2}
    ResourceKeys = {k1}
    IdempotencyKeys = {i1}
    Requests <- KeyedAndFree
    Procs = {p1, p2}
    WorkerIds = {w1}
    workerId <- SharedIds
    Concurrency = 1
    FaultKinds = {"crash", "stop"}
    MaxFaults = 1
CHECK_DEADLOCK FALSE

SPECIFICATION FairSpec
INVARIANTS HandlersExclude HandlersBounded
PROPERTIES QueuedCancelHonoured
