----------------------------- MODULE Networking -----------------------------
(***************************************************************************)
(* Ports, routers and their interfaces (app/openstack/routes/neutron.py,   *)
(* and the interfaces of servers in nova.py).  An interface of a router is *)
(* kept twice: a row of os_ports bound to the router, and a document of    *)
(* os_api_objects under the port's id that says which router and subnet.   *)
(* Nothing ties the two but the calls that write both, and every statement *)
(* commits by itself.                                                      *)
(*                                                                         *)
(* One project calls.  Calls are numbered in the order they begin, and a   *)
(* fresh uuid is the number of the call that makes it.  0 stands for what  *)
(* is not there.  Of a row the columns that bind it are kept, and the call *)
(* that wrote them last; of fixed_ips one subnet.  Servers exist.          *)
(*                                                                         *)
(* A call that fails before one of its statements (what it needs has gone, *)
(* the process or the connection has) takes no more steps and stands where *)
(* it stood: nobody reads that, so no action says so, and no step of it is *)
(* ever due.                                                               *)
(***************************************************************************)
EXTENDS Naturals

CONSTANTS NetworkCalls,   \* the calls, 1..n
          Networks,       \* the networks to begin with
          Subnets,        \* the subnets to begin with
          NetworkOf,      \* NetworkOf[s]: the network of subnet s
          Routers,        \* the routers to begin with
          Servers,        \* the servers
          SeedPorts,      \* the seeded ports, each a server's
          SeedSubnet,     \* SeedSubnet[p]: the subnet of a seeded port
          SeedServer,     \* SeedServer[p]: and its server
          Bindings        \* bound: how creations and updates of ports bind them

PortIds == SeedPorts \cup NetworkCalls
Owners  == {"router", "compute", "nobody"}
Binding == [device : Routers \cup Servers \cup {0}, owner : Owners, subnet : Subnets \cup {0}]

ASSUME NetworkingAssumption ==
  /\ NetworkCalls \subseteq Nat \ {0}
  /\ NetworkOf \in [Subnets -> Networks]
  /\ SeedSubnet \in [SeedPorts -> Subnets] /\ SeedServer \in [SeedPorts -> Servers]
  /\ SeedPorts \cap (NetworkCalls \cup {0}) = {}
  /\ 0 \notin Routers \cup Servers \cup Subnets
  /\ Bindings \subseteq Binding

VARIABLES port,      \* port[p]: network, binding and last writer of a port that exists
          interface, \* interface[p]: router, subnet and writer of the document of port p
          routers,   \* the routers that exist
          subnets,   \* the subnets that exist
          networks,  \* the networks that exist
          wire,      \* wire[c]: what call c asked for, has read and done so far
          writes     \* statements that have written a port or a document

networkVars == <<port, interface, routers, subnets, networks, wire, writes>>

Unwired == [at |-> "idle", op |-> "none", router |-> 0, subnet |-> 0, ports |-> {},
            readAt |-> 0, storedAt |-> 0]

NetworkingInit ==
  /\ port = [p \in SeedPorts |-> [network |-> NetworkOf[SeedSubnet[p]],
                                  device |-> SeedServer[p], owner |-> "compute",
                                  subnet |-> SeedSubnet[p], by |-> 0]]
  /\ interface = [p \in {} |-> p]
  /\ routers = Routers
  /\ subnets = Subnets
  /\ networks = Networks
  /\ wire = [c \in NetworkCalls |-> Unwired]
  /\ writes = 0

-----------------------------------------------------------------------------
Unbegun(c) ==
  /\ wire[c].at = "idle"
  /\ \A b \in NetworkCalls : b < c => wire[b].at # "idle"

(* What call c asks for: the request is accepted by its first SELECT.      *)
Begins(c, at, op, r, s, ps) ==
  /\ Unbegun(c)
  /\ wire' = [wire EXCEPT ![c] =
       [at |-> at, op |-> op, router |-> r, subnet |-> s, ports |-> ps,
        readAt |-> writes, storedAt |-> 0]]
  /\ UNCHANGED <<port, interface, routers, subnets, networks, writes>>

Goes(c, at, ps) ==
  /\ wire' = [wire EXCEPT ![c].at = at, ![c].ports = ps]
  /\ UNCHANGED <<port, interface, routers, subnets, networks, writes>>

(* A statement of call c that writes ports or documents, those of ps.      *)
Commits(c, at, ps) ==
  /\ writes' = writes + 1
  /\ wire' = [wire EXCEPT ![c].at = at, ![c].ports = ps, ![c].storedAt = writes + 1]
  /\ UNCHANGED <<routers, subnets, networks>>

(* A call of one statement. *)
Does(c, op, ps) ==
  /\ Unbegun(c)
  /\ writes' = writes + 1
  /\ wire' = [wire EXCEPT ![c] =
       [at |-> "done", op |-> op, router |-> 0, subnet |-> 0, ports |-> ps,
        readAt |-> writes, storedAt |-> writes + 1]]

With(f, p, row) == [q \in DOMAIN f \cup {p} |-> IF q = p THEN row ELSE f[q]]
Without(f, ps)  == [q \in DOMAIN f \ ps |-> f[q]]

(* UPDATE os_ports ... WHERE id: nothing if the row has gone.              *)
Rebinds(c, p, device, owner, s) ==
  port' = [q \in DOMAIN port |->
             IF q = p THEN [network |-> port[q].network, device |-> device, owner |-> owner,
                            subnet |-> s, by |-> c]
                      ELSE port[q]]

-----------------------------------------------------------------------------
(* add_router_interface: by a subnet, by a port, or by both.               *)

AskToAdd(c) ==
  \E r \in routers, s \in Subnets \cup {0}, p \in DOMAIN port \cup {0} :
    /\ s # 0 \/ p # 0
    /\ Begins(c, IF s # 0 THEN "subnet" ELSE "port", "add", r, s, {p} \ {0})

FindSubnet(c) ==
  /\ wire[c].at = "subnet"
  /\ wire[c].subnet \in subnets
  /\ Goes(c, IF wire[c].ports = {} THEN "insert" ELSE "port", wire[c].ports)

(* Without a port of its own the interface gets a fresh one, bound; the    *)
(* foreign key refuses it if the network has gone.                         *)
InsertPort(c) ==
  /\ wire[c].at = "insert"
  /\ NetworkOf[wire[c].subnet] \in networks
  /\ port' = With(port, c, [network |-> NetworkOf[wire[c].subnet], device |-> wire[c].router,
                            owner |-> "router", subnet |-> wire[c].subnet, by |-> c])
  /\ Commits(c, "note", {c})
  /\ UNCHANGED interface

FindPort(c) ==
  /\ wire[c].at = "port"
  /\ wire[c].ports \subseteq DOMAIN port
  /\ Goes(c, "bind", wire[c].ports)

(* Mutant: the port keeps the device it has. *)
BindNothing(c) ==
  /\ wire[c].at = "bind"
  /\ Commits(c, "note", wire[c].ports)
  /\ UNCHANGED <<port, interface>>

BindPort(c) ==
  /\ wire[c].at = "bind"
  /\ \E p \in wire[c].ports :
       IF p \in DOMAIN port THEN Rebinds(c, p, wire[c].router, "router", port[p].subnet)
                            ELSE UNCHANGED port
  /\ Commits(c, "note", wire[c].ports)
  /\ UNCHANGED interface

(* The document of the port's id, inserted or overwritten. *)
NoteInterface(c) ==
  /\ wire[c].at = "note"
  /\ \E p \in wire[c].ports :
       interface' = With(interface, p, [router |-> wire[c].router, subnet |-> wire[c].subnet,
                                        by |-> c])
  /\ Commits(c, "done", wire[c].ports)
  /\ UNCHANGED port

-----------------------------------------------------------------------------
(* remove_router_interface: by the port, which need not be an interface of *)
(* this router, or else by the subnet.                                     *)

(* The ports somebody may name, those that have gone included.             *)
Nameable == SeedPorts \cup {c \in NetworkCalls : c \in wire[c].ports}

AskToRemove(c) ==
  \E r \in routers :
    \/ \E p \in Nameable : Begins(c, "unnote", "remove", r, 0, {p})
    \/ \E s \in Subnets : Begins(c, "find", "remove", r, s, {})

(* One of the router's interfaces on the subnet, if there is a document.   *)
Noted(r, s) == {p \in DOMAIN interface : interface[p].router = r /\ interface[p].subnet = s}

FindInterface(c) ==
  LET found == Noted(wire[c].router, wire[c].subnet) IN
  /\ wire[c].at = "find"
  /\ \/ \E p \in found : Goes(c, "unnote", {p})
     \/ found = {} /\ Goes(c, "unnote all", {})

(* Mutant: the document stays. *)
RemoveNoNote(c) ==
  /\ wire[c].at = "unnote"
  /\ Commits(c, "unbind", wire[c].ports)
  /\ UNCHANGED <<port, interface>>

RemoveNote(c) ==
  /\ wire[c].at = "unnote"
  /\ interface' = Without(interface, wire[c].ports)
  /\ Commits(c, "unbind", wire[c].ports)
  /\ UNCHANGED port

RemovePort(c) ==
  /\ wire[c].at = "unbind"
  /\ port' = Without(port, wire[c].ports)
  /\ Commits(c, "done", wire[c].ports)
  /\ UNCHANGED interface

(* Without a document both statements go by router and subnet. *)
RemoveNotes(c) ==
  /\ wire[c].at = "unnote all"
  /\ interface' = Without(interface, Noted(wire[c].router, wire[c].subnet))
  /\ Commits(c, "unbind all", Noted(wire[c].router, wire[c].subnet))
  /\ UNCHANGED port

BoundTo(r, s) ==
  {p \in DOMAIN port : port[p].device = r /\ port[p].owner = "router" /\ port[p].subnet = s}

RemovePorts(c) ==
  LET bound == BoundTo(wire[c].router, wire[c].subnet) IN
  /\ wire[c].at = "unbind all"
  /\ port' = Without(port, bound)
  /\ Commits(c, "done", wire[c].ports \cup bound)
  /\ UNCHANGED interface

-----------------------------------------------------------------------------
(* Everything else that writes ports, one statement each: ports themselves *)
(* (neutron.py), the interfaces of servers (nova.py), and the deletion of  *)
(* what they refer to.  Only the network takes its ports along.            *)

CreatePort(c) ==
  /\ \E n \in networks, b \in Bindings :
       port' = With(port, c, [network |-> n, device |-> b.device, owner |-> b.owner,
                              subnet |-> b.subnet, by |-> c])
  /\ Does(c, "port", {c})
  /\ UNCHANGED <<interface, routers, subnets, networks>>

(* What the request does not name stays. *)
UpdatePort(c) ==
  /\ \E p \in DOMAIN port, b \in Bindings :
       \E device \in {b.device, port[p].device}, owner \in {b.owner, port[p].owner},
          s \in {b.subnet, port[p].subnet} :
         Rebinds(c, p, device, owner, s) /\ Does(c, "port", {p})
  /\ UNCHANGED <<interface, routers, subnets, networks>>

DeletePort(c) ==
  /\ \E p \in DOMAIN port : port' = Without(port, {p}) /\ Does(c, "port", {p})
  /\ UNCHANGED <<interface, routers, subnets, networks>>

AttachToServer(c) ==
  /\ \E s \in Servers :
       \/ \E p \in DOMAIN port :
            Rebinds(c, p, s, "compute", port[p].subnet) /\ Does(c, "server", {p})
       \/ \E n \in networks :
            /\ port' = With(port, c, [network |-> n, device |-> s, owner |-> "compute",
                                      subnet |-> 0, by |-> c])
            /\ Does(c, "server", {c})
  /\ UNCHANGED <<interface, routers, subnets, networks>>

DetachFromServer(c) ==
  /\ \E p \in DOMAIN port :
       /\ port[p].device \in Servers
       /\ Rebinds(c, p, 0, "nobody", port[p].subnet)
       /\ Does(c, "server", {p})
  /\ UNCHANGED <<interface, routers, subnets, networks>>

DeleteNetwork(c) ==
  \E n \in networks :
    LET gone == {p \in DOMAIN port : port[p].network = n} IN
    /\ networks' = networks \ {n}
    /\ subnets' = {s \in subnets : NetworkOf[s] # n}
    /\ port' = Without(port, gone)
    /\ Does(c, "network", gone)
    /\ UNCHANGED <<interface, routers>>

DeleteSubnet(c) ==
  /\ \E s \in subnets : subnets' = subnets \ {s}
  /\ Does(c, "subnet", {})
  /\ UNCHANGED <<port, interface, routers, networks>>

DeleteRouter(c) ==
  /\ \E r \in routers : routers' = routers \ {r}
  /\ Does(c, "router", {})
  /\ UNCHANGED <<port, interface, subnets, networks>>

-----------------------------------------------------------------------------
NetworkCall(c) ==
  \/ AskToAdd(c) \/ FindSubnet(c) \/ InsertPort(c) \/ FindPort(c) \/ BindPort(c)
  \/ NoteInterface(c)
  \/ AskToRemove(c) \/ FindInterface(c) \/ RemoveNote(c) \/ RemovePort(c)
  \/ RemoveNotes(c) \/ RemovePorts(c)
  \/ CreatePort(c) \/ UpdatePort(c) \/ DeletePort(c)
  \/ AttachToServer(c) \/ DetachFromServer(c)
  \/ DeleteNetwork(c) \/ DeleteSubnet(c) \/ DeleteRouter(c)

NetworkingNext == \E c \in NetworkCalls : NetworkCall(c)

NetworkingSpec == NetworkingInit /\ [][NetworkingNext]_networkVars
=============================================================================
