------------------------- MODULE NetworkingProperties -------------------------
(* What ports and router interfaces promise to those who add and remove.   *)
EXTENDS Networking

(* Type invariant of ports, interfaces and calls (neutron.py, nova.py).    *)
NetworkingTypeOK ==
  /\ DOMAIN port \subseteq PortIds
  /\ port \in [DOMAIN port ->
       [network : Networks, device : Routers \cup Servers \cup {0}, owner : Owners,
        subnet : Subnets \cup {0}, by : NetworkCalls \cup {0}]]
  /\ DOMAIN interface \subseteq PortIds
  /\ interface \in [DOMAIN interface ->
       [router : Routers, subnet : Subnets \cup {0}, by : NetworkCalls]]
  /\ routers \subseteq Routers /\ subnets \subseteq Subnets /\ networks \subseteq Networks
  /\ wire \in [NetworkCalls ->
       [at : {"idle", "subnet", "port", "insert", "bind", "note", "find", "unnote", "unbind",
              "unnote all", "unbind all", "done"},
        op : {"none", "add", "remove", "port", "server", "network", "subnet", "router"},
        router : Routers \cup {0}, subnet : Subnets \cup {0}, ports : SUBSET PortIds,
        readAt : Nat, storedAt : Nat]]
  /\ writes \in Nat

(* Row and document of p say the same. *)
Agree(p) ==
  /\ p \in DOMAIN port /\ p \in DOMAIN interface
  /\ port[p].owner = "router" /\ port[p].device = interface[p].router

Halfway == {"note", "unbind", "unbind all"}

(* What may set row and document of p apart after call c has written them: *)
(* a call d that writes p later and is not about interfaces, is halfway    *)
(* (for ever, if it was lost there), overlaps c, or removes p by a subnet  *)
(* that c did not say.                                                     *)
Disturbs(d, c, p) ==
  /\ d # c /\ p \in wire[d].ports /\ wire[d].storedAt > wire[c].readAt
  /\ \/ wire[d].op \notin {"add", "remove"}
     \/ wire[d].at \in Halfway
     \/ wire[d].readAt < wire[c].storedAt
     \/ wire[d].op = "remove" /\ wire[d].subnet \notin {0, wire[c].subnet}

(* A router interface that was confirmed is whole, and one whose removal   *)
(* was confirmed is gone: the document has a port bound to its router, and *)
(* a port that an addition has bound has its document, unless one of the   *)
(* causes above has set them apart (add_router_interface,                  *)
(* remove_router_interface).                                               *)
InterfacesWhole ==
  /\ \A p \in DOMAIN interface :
       Agree(p) \/ \E d \in NetworkCalls : Disturbs(d, interface[p].by, p)
  /\ \A p \in DOMAIN port : \A c \in NetworkCalls :
       (port[p].by = c /\ wire[c].op = "add" /\ wire[c].at = "done") =>
         Agree(p) \/ \E d \in NetworkCalls : Disturbs(d, c, p)
=============================================================================
