\* Three tasks on one machine, cancelled or lost with their process at any point.
SPECIFICATION Spec
CONSTANTS
    g1 = g1  j1 = j1  j2 = j2  j3 = j3  n1 = n1  n2 = n2  k1 = k1  k2 = k2  a = a  b = b  q1 = q1  q2 = q2
    None = None
    Template = k1
    Vmids <- TwoVmids
    Nodes = {n1}
    Kinds = {"qemu"}
    Keys = {k1, k2}
    Values = {a}
    Seeded = {g1}
    Seed <- RunningVm
    Jobs = {j1, j2, j3}
    Requests = {}
    Ops = {"start", "stop", "clone", "delete", "update", "move-disk", "snapshot-create", "snapshot-delete", "snapshot-rollback"}
    Cancels = TRUE
    MaxInterrupts = 1
CONSTRAINT FewChanges
SYMMETRY SymmetricJobs
INVARIANTS CopiesAgree
PROPERTIES StatusFollowsTable
