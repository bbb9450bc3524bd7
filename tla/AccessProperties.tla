--------------------------- MODULE AccessProperties ---------------------------
(* What the calls of access control leave behind.                          *)
EXTENDS Access

(* Type invariant of the tables and the calls (handlers/access.py).        *)
AccessTypeOK ==
  /\ holder \in [Holders -> HolderNames \cup {Nobody}]
  /\ members \subseteq Holders \X Holders
  /\ roles \subseteq RoleIds
  /\ grant \in [Holders \X RoleIds -> GrantStates]
  /\ realm \in [RealmIds -> RealmStates]
  /\ call \in [Callers ->
       [at : {"idle", "clear", "find", "insert", "remove", "role", "grant", "store",
              "done", "failed"},
        op : {"none", "create", "delete", "role", "members", "acl", "acl delete",
              "domain create", "domain update", "domain sync", "domain delete"},
        target : HolderNames \cup Holders \cup RoleIds \cup RealmIds \cup {Nobody},
        asked : SUBSET ((1..3) \X HolderNames), todo : SUBSET ((1..3) \X HolderNames),
        found : Holders \cup {Nobody}, value : RealmStates \cup GrantStates,
        before : SUBSET Callers]]

(* No member, ACL entry or user outlives what it refers to, whatever is    *)
(* deleted between a call's SELECT and its INSERT, and a name is held once *)
(* (the foreign keys of migrations 002, 004 and 006 against the handlers). *)
ReferencesWhole ==
  /\ \A m \in members : holder[m[1]] \in GroupIds /\ holder[m[2]] \in UserIds
  /\ \A i \in Holders, r \in RoleIds : grant[<<i, r>>] # "none" => holder[i] # Nobody /\ r \in roles
  /\ \A i \in Holders : holder[i] \in UserIds => realm[RealmOf[holder[i]]] # "none"
  /\ \A i, j \in Holders : holder[i] = holder[j] /\ holder[i] # Nobody => i = j

Confirmed(c, op) == call[c].at = "done" /\ call[c].op = op

(* d had not ended when c began. *)
NotBefore(d, c) == d # c /\ call[d].at # "idle" /\ d \notin call[c].before

Overlap(c, d) == NotBefore(c, d) /\ NotBefore(d, c)

Writes(c, r) ==
  call[c].op \in {"domain create", "domain update", "domain sync"} /\ call[c].target = r

(* Two realms are the default only when calls that wrote each of them      *)
(* overlapped: calls one after another, lost ones among them, never leave  *)
(* two (domain_create and domain_update clear and set in two statements).  *)
OneDefaultRealm ==
  \A r, s \in RealmIds : realm[r] = "default" /\ realm[s] = "default" /\ r # s =>
    \E c, d \in Callers : Writes(c, r) /\ Writes(d, s) /\ Overlap(c, d)

Lists(c, n, loops) == \E loop \in loops : <<loop, n>> \in call[c].asked

(* The members a group update means to leave among those it names. *)
Keeps(c, u) == Lists(c, u, {1, 2}) /\ ~Lists(c, u, {3})

Updates(d, g) == call[d].op = "members" /\ call[d].target = g

Deletes(d, n) == call[d].op = "delete" /\ call[d].target = n

(* A confirmed replacement of a group's members leaves exactly the users   *)
(* it names: another member was added, and a named one removed, only by a  *)
(* call that had not ended when the replacement began (group_update).      *)
MembersAsReplaced ==
  \A c \in Callers : Confirmed(c, "members") /\ Replaces(call[c].asked) =>
    LET g == call[c].target
    IN /\ \A p \in Holders : <<g, p>> \in members =>
            \/ Keeps(c, holder[p])
            \/ \E d \in Callers : NotBefore(d, c) /\ Updates(d, g) /\ Lists(d, holder[p], {1, 2})
       /\ \A u \in UserIds : Keeps(c, u) =>
            \/ \E p \in Holders : holder[p] = u /\ <<g, p>> \in members
            \/ \E d \in Callers : NotBefore(d, c) /\
                 \/ Updates(d, g) /\ (Replaces(call[d].asked) \/ Lists(d, u, {3}))
                 \/ Deletes(d, u) \/ \E n \in GroupIds : Deletes(d, n)

(* Permissions that a confirmed call adds are there for every user and     *)
(* group it names, as told, until a call that had not ended when it began  *)
(* names the same or deletes the holder: none is skipped, and an entry     *)
(* that was there is changed as well (acl_update).  It says nothing of a   *)
(* call sent with delete, which the handler answers by adding them too.    *)
GrantsAsConfirmed ==
  \A c \in Callers : Confirmed(c, "acl") =>
    \A n \in HolderNames : Lists(c, n, {1, 2}) =>
      \/ \E i \in Holders : holder[i] = n /\ grant[<<i, call[c].target>>] = call[c].value
      \/ \E d \in Callers : NotBefore(d, c) /\
           \/ call[d].op \in AclOps /\ call[d].target = call[c].target /\ Lists(d, n, {1, 2})
           \/ Deletes(d, n)
=============================================================================
