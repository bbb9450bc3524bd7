\* Direct calls: on a guest among the tasks that count versions, and among those
\* that do not; on the cluster document, on access control, and on a guest's HA
\* resource.
SPECIFICATION DirectSpec
CONSTANTS
    g1 = g1  j1 = j1  j2 = j2  j3 = j3  n1 = n1  n2 = n2  k1 = k1  k2 = k2  a = a  b = b  q1 = q1  q2 = q2
    None = None
    Template = k1
    Vmids <- OneVmid
    Nodes = {n1, n2}
    Kinds = {"qemu"}
    Keys = {k1, k2}
    Values = {a}
    Seeded = {g1}
    Seed <- RunningVm
    Jobs = {j1, j2}
    Requests = {q1, q2}
    Ops = {"start", "stop", "update", "snapshot-create", "snapshot-rollback", "put", "look", "volume", "resize", "agent", "template", "status all", "migrate all"}
    Cancels = FALSE
    MaxInterrupts = 1
    z1 = z1  v1 = v1  f1 = f1  x1 = x1  ha1 = ha1  h1 = h1
    Editors = {1, 2, 3}
    Zones = {z1}
    Fabrics = {f1}
    FabricNodes = {x1}
    Groups = {ha1}
    Hosts = {h1}
    Contents = {v1}
    Earlier = Earlier
    Absent = Absent
    Present = Present
    SeedDocument <- Configured
    SeedRows <- NoRows
    u1 = u1  u2 = u2  ug1 = ug1  r1 = r1  pam = pam  ldap = ldap  hu1 = hu1  hg1 = hg1
    Callers = {1, 2, 3}
    UserIds = {u1, u2}
    GroupIds = {ug1}
    RoleIds = {r1}
    RealmIds = {pam, ldap}
    Root = u1
    Builtin = {pam}
    RealmOf <- Realms
    SeedHolders = {hu1, hg1}
    SeedHolder <- Names
    SeedRealm <- SeedRealms
    Nobody = Nobody
    MaxNames = 2
    m1 = m1  m2 = m2
    HaCalls = {1, 2, 3}
    HaNodes = {m1, m2}
    HomeNode = m1
    Missing = Missing
SYMMETRY SymmetricCalls
INVARIANTS TransientExplained SnapshotsSettled
INVARIANTS DocumentWhole ConfirmedChangeKept LockGrantedOnce
INVARIANTS ReferencesWhole OneDefaultRealm MembersAsReplaced GrantsAsConfirmed PlacesAgree
PROPERTIES PutKeepsTheRest
CHECK_DEADLOCK FALSE
