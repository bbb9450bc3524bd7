---------------------------- MODULE MCDirectWrites ----------------------------
(***************************************************************************)
(* Instance for TLC of the Proxmox handlers that write without a task.     *)
(* They share no table, so one run takes them one at a time: scene says    *)
(* which component runs, and the others keep their initial state.          *)
(***************************************************************************)
EXTENDS MCGuests, ClusterDocumentProperties, AccessProperties, HighAvailabilityProperties

CONSTANTS z1, v1, f1, x1, ha1, h1,
          u1, u2, ug1, r1, pam, ldap, hu1, hg1, m1, m2

VARIABLE scene

(* A zone and a fabric with a node; no lock, and a host yet to join. *)
Configured ==
  [p \in Paths |-> CASE p \in {Zone(z1), Fabric(f1), FabricNode(f1, x1)} -> Present
                     [] OTHER -> Absent]

NoRows == [h \in Hosts |-> "none"]

(* root@pam and a group, and a second realm without users. *)
Realms    == [u \in UserIds |-> IF u = u1 THEN pam ELSE ldap]
Names     == [i \in SeedHolders |-> IF i = hu1 THEN u1 ELSE ug1]
SeedRealms == [r \in RealmIds |-> IF r = pam THEN "default" ELSE "plain"]

(* Bounds: three calls only on one of members, new ACL entries and realms, *)
(* and of one name each; one call of the ACL is sent with delete, and      *)
(* names one user or group.                                                *)
Families ==
  {{"members"}, {"acl"}, {"domain create", "domain update", "domain sync", "domain delete"}}

FewCalls ==
  /\ \/ \E c \in Callers : call'[c].at = "idle"
     \/ \E family \in Families : \A c \in Callers :
          /\ call'[c].op \in family \cup {"create", "delete"}
          /\ Cardinality(call'[c].asked) <= 1
  /\ \A c, d \in Callers : call'[c].op = "acl delete" =>
       /\ Cardinality(call'[c].asked) = 1
       /\ call'[d].op = "acl delete" => c = d

(* Calls are interchangeable, so the numbered ones begin in their order. *)
EditsInOrder == \A c \in 2..3 : edit'[c].at # "idle" => edit[c - 1].at # "idle"
CallsInOrder == \A c \in 2..3 : call'[c].at # "idle" => call[c - 1].at # "idle"

(* Bound: HA groups and rules, entries like the zones, take part as long   *)
(* as there are two calls.                                                 *)
FewEdits ==
  \/ \E c \in Editors : edit'[c].at = "idle"
  \/ \A c \in Editors : edit'[c].writes \cap {Group(ha1), Rules} = {}

(* Guests, in two scenes: those who count versions, to which PUT compares; *)
(* and everybody who writes or captures statuses but the Rewriters.        *)
(* Bounds: of the first there is one task, and one look or volume, and     *)
(* nothing is interrupted; the second have one option, and one call of the *)
(* agent or of migrate all.  An update of the first sets its option or     *)
(* deletes it; one of the second sets it.                                  *)
UpdatesSimple ==
  \A j \in Jobs : job'[j].op = "update" => (job'[j].args.value = None <=> job'[j].args.drop)

Called(calls, ops) == \A c \in DOMAIN calls : calls[c].op \in ops \cup {None}

Counting ==
  /\ Called(job', {"update"}) /\ Called(request', {"put", "resize", "look", "volume"})
  /\ Cardinality({j \in Jobs : job'[j].op # None}) <= 1
  /\ Cardinality({q \in Requests : request'[q].op \in {"look", "volume"}}) <= 1
  /\ interrupts' = 0 /\ UpdatesSimple
  /\ \A q \in Requests : request'[q].op = "look" => request'[q].key = k1

Unrewritten ==
  /\ Called(request', {"agent", "template", "status all", "migrate all"})
  /\ Cardinality({q \in Requests : request'[q].op \in {"agent", "migrate all"}}) <= 1
  /\ \A q \in Requests : request'[q].key \in {None, k1}
  /\ \A j \in Jobs : job'[j].op = "update" =>
       job'[j].args.key = k1 /\ job'[j].args.value # None /\ ~job'[j].args.drop

DirectInit ==
  /\ Init /\ DocumentInit /\ AccessInit /\ HaInit
  /\ scene \in {"versions", "statuses", "document", "access", "ha"}

DirectNext ==
  \/ scene = "versions" /\ Next /\ Counting
     /\ UNCHANGED <<documentVars, accessVars, haVars, scene>>
  \/ scene = "statuses" /\ Next /\ Unrewritten
     /\ UNCHANGED <<documentVars, accessVars, haVars, scene>>
  \/ scene = "document" /\ DocumentNext /\ EditsInOrder /\ FewEdits
     /\ UNCHANGED <<vars, accessVars, haVars, scene>>
  \/ scene = "access" /\ AccessNext /\ CallsInOrder /\ FewCalls
     /\ UNCHANGED <<vars, documentVars, haVars, scene>>
  \/ scene = "ha" /\ HaNext /\ UNCHANGED <<vars, documentVars, accessVars, scene>>

DirectSpec ==
  DirectInit /\ [][DirectNext]_<<vars, documentVars, accessVars, haVars, scene>>
=============================================================================
