\* Two writing requests of any kind while a client pages through a collection;
\* three calls on volumes and their attachments; three on aggregates; three on
\* ports and router interfaces.
SPECIFICATION ServicesSpec
CONSTANTS
    image = image  server = server  action = action
    s1 = s1  s2 = s2  s3 = s3  s4 = s4  web = web  default = default
    Seeds <- SeededIds
    SeedName <- SeededNames
    SeedDoc <- SeededDocs
    SeedType <- SeededTypes
    Shared = {s2}
    EngineTypes = {image, action}
    RouteTypes = {server}
    ById = {image}
    ActionType = action
    Calls = {c1, c2}
    Unknown = {u}
    Names = {web, s2}
    Default = default
    Blank = Blank
    None = None
    Addresses = {s1, s2, s4, u, web}
    Bodies <- SomeBodies
    Walkers = {w}
    Limits = {0, 1, 2}
    free = free  used = used  agg = agg  att = att
    VolumeCalls = {1, 2, 3}
    SeedVolumes = {free, used}
    SeedStatus <- FreeAndUsed
    SeedAttachments = {att}
    SeedTarget <- OneAttachment
    SeedServers = {server}
    Statuses = {"available", "in-use"}
    Sizes = {1, 2, 3}
    Orders = {1, 2, 3}
    Titles = {web, 1, 2}
    SeedTitles <- OneAggregate
    net = net  sub = sub  r1 = r1  r2 = r2  p1 = p1
    NetworkCalls = {1, 2, 3}
    Networks = {net}
    Subnets = {sub}
    NetworkOf <- TheNetwork
    Routers = {r1, r2}
    Servers = {server}
    SeedPorts = {p1}
    SeedSubnet <- ThePort
    SeedServer <- TheServer
    Bindings <- FreePort
CONSTRAINTS FewRouters FewFailures FewMixed
INVARIANTS ExtensionKept InUseMeansAttached AggregateKept InterfacesWhole
INVARIANTS WalkMissesNothing PagesDisjoint ShownNameFinds
PROPERTIES AstrayExplained WalkEnds
CHECK_DEADLOCK FALSE
