\* A PUT of the configuration while a power operation runs.
SPECIFICATION Spec
CONSTANTS
    g1 = g1  j1 = j1  j2 = j2  j3 = j3  n1 = n1  n2 = n2  k1 = k1  k2 = k2  a = a  b = b  q1 = q1  q2 = q2
    None = None
    Template = k1
    Vmids <- OneVmid
    Nodes = {n1}
    Kinds = {"qemu"}
    Keys = {k1}
    Values = {a}
    Seeded = {g1}
    Seed <- RunningVm
    Jobs = {j1}
    Requests = {q1}
    Ops = {"put", "stop"}
    Cancels = FALSE
    MaxInterrupts = 0
PROPERTIES PutKeepsTheRest
