\* Every lifecycle operation on two vmids and two nodes, with fairness.
SPECIFICATION FairSpec
CONSTANTS
    g1 = g1  j1 = j1  j2 = j2  j3 = j3  n1 = n1  n2 = n2  k1 = k1  k2 = k2  a = a  b = b  q1 = q1  q2 = q2
    None = None
    Template = k1
    Vmids <- TwoVmids
    Nodes = {n1, n2}
    Kinds = {"qemu", "lxc"}
    Keys = {k1}
    Values = {a}
    Seeded = {g1}
    Seed <- RunningVm
    Jobs = {j1, j2}
    Requests = {}
    Ops = {"start", "stop", "suspend", "resume", "create", "clone", "delete", "update", "migrate", "snapshot-create", "snapshot-delete", "snapshot-rollback"}
    Cancels = TRUE
    MaxInterrupts = 1
INVARIANTS VmidUnique AppliedMeansAchieved
PROPERTIES OperationsSettle EnginePromise
