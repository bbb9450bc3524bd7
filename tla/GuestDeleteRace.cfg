\* A machine is started between the check and the task of its deletion.
SPECIFICATION Spec
CONSTANTS
    g1 = g1  j1 = j1  j2 = j2  j3 = j3  n1 = n1  n2 = n2  k1 = k1  k2 = k2  a = a  b = b  q1 = q1  q2 = q2
    None = None
    Template = k1
    Vmids <- OneVmid
    Nodes = {n1}
    Kinds = {"qemu"}
    Keys = {k1}
    Values = {a}
    Seeded = {g1}
    Seed <- StoppedVm
    Jobs = {j1, j2}
    Requests = {}
    Ops = {"delete", "start"}
    Cancels = FALSE
    MaxInterrupts = 0
SYMMETRY SymmetricJobs
PROPERTIES DeletesOnlyStopped
