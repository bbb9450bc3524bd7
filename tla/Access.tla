-------------------------------- MODULE Access --------------------------------
(***************************************************************************)
(* Access control: users, groups and their members, roles, ACL entries and *)
(* authentication realms (handlers/access.py over the tables principals,   *)
(* identity_groups, identity_group_members, roles, acl_entries,            *)
(* group_acl_entries and realms).  A call is several statements, and every *)
(* statement commits by itself.                                            *)
(*                                                                         *)
(* A SELECT that only chooses the error code is not a step of its own: the *)
(* unique name or the foreign key of the statement after it decides.  One  *)
(* path stands for all paths of ACL entries: no statement relates two.     *)
(***************************************************************************)
EXTENDS Naturals, FiniteSets

CONSTANTS Callers,        \* API calls
          UserIds, GroupIds, RoleIds, RealmIds,
          Root,           \* root@pam
          Builtin,        \* the realms pam and pve
          RealmOf,        \* the realm a user id ends in
          SeedHolders,    \* the rows of the seed, of principals and groups,
          SeedHolder,     \* their names,
          SeedRealm,      \* and the realms
          Nobody,
          MaxNames        \* bound: names a call lists

HolderNames == UserIds \cup GroupIds
Holders     == SeedHolders \cup Callers  \* a row gets a fresh uuid: its creator
RealmStates == {"none", "plain", "default"}
GrantStates == {"none", "here", "below"} \* no entry, or its propagate

ASSUME AccessConstants ==
  /\ UserIds \cap GroupIds = {} /\ Nobody \notin HolderNames \cup Holders
  /\ Root \in UserIds /\ Builtin \subseteq RealmIds /\ RealmOf \in [UserIds -> RealmIds]
  /\ MaxNames \in Nat

ASSUME AccessSeed ==
  /\ SeedHolder \in [SeedHolders -> HolderNames] /\ SeedHolders \cap Callers = {}
  /\ \A i, j \in SeedHolders : SeedHolder[i] = SeedHolder[j] => i = j
  /\ SeedRealm \in [RealmIds -> RealmStates]
  /\ \A i \in SeedHolders :
       SeedHolder[i] \in UserIds => SeedRealm[RealmOf[SeedHolder[i]]] # "none"
  /\ \A r, s \in RealmIds : SeedRealm[r] = "default" /\ SeedRealm[s] = "default" => r = s

VARIABLES holder,   \* holder[i]: the name of the principal or group with id i
          members,  \* identity_group_members: <<group, principal>>
          roles,    \* the rows of roles
          grant,    \* grant[i, role]: the ACL entry of i
          realm,    \* realm[r]: the row of realms, and its key default
          call      \* call[c]: the call c

accessVars == <<holder, members, roles, grant, realm, call>>

(* asked and todo: the names a call lists and those it has not handled,    *)
(* each with the loop it is handled in.  before: the calls that had ended  *)
(* when this one began, kept to judge it by.                               *)
IdleCall == [at |-> "idle", op |-> "none", target |-> Nobody, asked |-> {}, todo |-> {},
             found |-> Nobody, value |-> "none", before |-> {}]

Over(c) == call[c].at \in {"done", "failed"}

AccessInit ==
  /\ holder = [i \in Holders |-> IF i \in SeedHolders THEN SeedHolder[i] ELSE Nobody]
  /\ members = {} /\ roles = RoleIds
  /\ grant = [h \in Holders \X RoleIds |-> "none"]
  /\ realm = SeedRealm
  /\ call = [c \in Callers |-> IdleCall]

Begins(c, where, op, target, asked, value) ==
  /\ call[c].at = "idle"
  /\ call' = [call EXCEPT ![c] =
       [at |-> where, op |-> op, target |-> target, asked |-> asked, todo |-> asked,
        found |-> Nobody, value |-> value, before |-> {d \in Callers : Over(d)}]]

(* A call of one statement that matters. *)
Single(c, op, target) == Begins(c, "done", op, target, {}, "none")

Goes(c, where) == call' = [call EXCEPT ![c] = [@ EXCEPT !.at = where]]

Taken(name) == \E i \in Holders : holder[i] = name

(* DELETE of the row named so, and of what refers to it ON DELETE CASCADE. *)
Drop(name) ==
  LET gone == {i \in Holders : holder[i] = name}
  IN /\ holder' = [i \in Holders |-> IF i \in gone THEN Nobody ELSE holder[i]]
     /\ members' = {m \in members : m[1] \notin gone /\ m[2] \notin gone}
     /\ grant' = [h \in Holders \X RoleIds |-> IF h[1] \in gone THEN "none" ELSE grant[h]]

(***************************************************************************)
(* Users, groups and roles.                                                *)
(***************************************************************************)
UserCreate(c, u) ==
  /\ ~Taken(u) /\ realm[RealmOf[u]] # "none"
  /\ holder' = [holder EXCEPT ![c] = u]
  /\ Single(c, "create", u)
  /\ UNCHANGED <<members, roles, grant, realm>>

UserDelete(c, u) ==
  /\ u # Root /\ Taken(u)
  /\ Drop(u)
  /\ Single(c, "delete", u)
  /\ UNCHANGED <<roles, realm>>

IdentityGroupCreate(c, g) ==
  /\ ~Taken(g)
  /\ holder' = [holder EXCEPT ![c] = g]
  /\ Single(c, "create", g)
  /\ UNCHANGED <<members, roles, grant, realm>>

IdentityGroupDelete(c, g) ==
  /\ Taken(g)
  /\ Drop(g)
  /\ Single(c, "delete", g)
  /\ UNCHANGED <<roles, realm>>

(* role_create and role_update: one upsert. *)
RoleSave(c, r) ==
  /\ roles' = roles \cup {r}
  /\ Single(c, "role", r)
  /\ UNCHANGED <<holder, members, grant, realm>>

(* Mutant: ACL entries do not keep their role. *)
RoleDeleteUsed(c, r) ==
  /\ r \in roles
  /\ roles' = roles \ {r}
  /\ Single(c, "role", r)
  /\ UNCHANGED <<holder, members, grant, realm>>

(* ON DELETE RESTRICT on both tables of ACL entries. *)
RoleDelete(c, r) ==
  /\ r \in roles /\ \A i \in Holders : grant[<<i, r>>] = "none"
  /\ roles' = roles \ {r}
  /\ Single(c, "role", r)
  /\ UNCHANGED <<holder, members, grant, realm>>

(***************************************************************************)
(* group_update: users replaces the members, when it names any; then come  *)
(* add and delete.  Each name is looked up and handled by two statements.  *)
(***************************************************************************)
Replaces(asked) == \E n \in HolderNames : <<1, n>> \in asked

Named(items) == {asked \in SUBSET items : asked # {} /\ Cardinality(asked) <= MaxNames}

UserChanges == Named((1..3) \X UserIds)

IdentityGroupUpdate(c, g) ==
  /\ call[c].at = "idle" /\ holder[g] \in GroupIds
  /\ \E asked \in UserChanges :
       Begins(c, IF Replaces(asked) THEN "clear" ELSE "find", "members", g, asked, "none")
  /\ UNCHANGED <<holder, members, roles, grant, realm>>

(* Mutant: the members found are kept. *)
ClearNoMembers(c) ==
  /\ call[c].at = "clear" /\ call[c].op = "members"
  /\ Goes(c, "find")
  /\ UNCHANGED <<holder, members, roles, grant, realm>>

ClearMembers(c) ==
  /\ call[c].at = "clear" /\ call[c].op = "members"
  /\ members' = {m \in members : m[1] # call[c].target}
  /\ Goes(c, "find")
  /\ UNCHANGED <<holder, roles, grant, realm>>

(* acl_update: users, then groups; the path and the flag propagate are the *)
(* call's.  A call sent with delete, to take entries away, is an "acl      *)
(* delete": the handler does not read that parameter.                      *)
AclOps == {"acl", "acl delete"}

Grantees == Named(({1} \X UserIds) \cup ({2} \X GroupIds))

AclUpdate(c, r) ==
  /\ \E op \in AclOps, asked \in Grantees, flag \in {"here", "below"} :
       Begins(c, "find", op, r, asked, flag)
  /\ UNCHANGED <<holder, members, roles, grant, realm>>

Handled(c, item, id, where) ==
  call' = [call EXCEPT ![c] =
    [at |-> where, op |-> @.op, target |-> @.target, asked |-> @.asked, todo |-> @.todo \ {item},
     found |-> id, value |-> @.value, before |-> @.before]]

(* SELECT id; an unknown name ends the call where it is. *)
FindNamed(c) ==
  /\ call[c].at = "find"
  /\ \E item \in call[c].todo :
       /\ \A other \in call[c].todo : item[1] <= other[1]
       /\ \/ ~Taken(item[2]) /\ Goes(c, "failed")
          \/ \E i \in Holders :
               /\ holder[i] = item[2]
               /\ Handled(c, item, i, CASE call[c].op \in AclOps -> "role"
                                        [] call[c].op = "members" /\ item[1] < 3 -> "insert"
                                        [] OTHER -> "remove")
  /\ UNCHANGED <<holder, members, roles, grant, realm>>

GoesOn(c) == Goes(c, IF call[c].todo = {} THEN "done" ELSE "find")

(* INSERT ... ON CONFLICT DO NOTHING; group and user must still be there. *)
InsertMember(c) ==
  /\ call[c].at = "insert"
  /\ IF holder[call[c].target] # Nobody /\ holder[call[c].found] # Nobody
     THEN members' = members \cup {<<call[c].target, call[c].found>>} /\ GoesOn(c)
     ELSE UNCHANGED members /\ Goes(c, "failed")
  /\ UNCHANGED <<holder, roles, grant, realm>>

RemoveMember(c) ==
  /\ call[c].at = "remove"
  /\ members' = members \ {<<call[c].target, call[c].found>>}
  /\ GoesOn(c)
  /\ UNCHANGED <<holder, roles, grant, realm>>

(* The role is made if need be, by a statement of its own. *)
InsertRole(c) ==
  /\ call[c].at = "role"
  /\ roles' = roles \cup {call[c].target}
  /\ Goes(c, "grant")
  /\ UNCHANGED <<holder, members, grant, realm>>

Granting(c, value) ==
  LET entry == <<call[c].found, call[c].target>>
  IN /\ call[c].at = "grant"
     /\ IF holder[call[c].found] # Nobody /\ call[c].target \in roles
        THEN grant' = [grant EXCEPT ![entry] = value] /\ GoesOn(c)
        ELSE UNCHANGED grant /\ Goes(c, "failed")
     /\ UNCHANGED <<holder, members, roles, realm>>

(* Mutant: an entry that exists is left as it is. *)
InsertGrantOnce(c) ==
  LET entry == <<call[c].found, call[c].target>>
  IN Granting(c, IF grant[entry] = "none" THEN call[c].value ELSE grant[entry])

(* INSERT ... ON CONFLICT DO UPDATE SET propagate. *)
InsertGrant(c) == Granting(c, call[c].value)

(***************************************************************************)
(* Realms, of which one may be the default.                                *)
(***************************************************************************)
DomainCreate(c, r) ==
  \E value \in {"plain", "default"} :
    /\ realm[r] = "none"
    /\ Begins(c, IF value = "default" THEN "clear" ELSE "store", "domain create", r, {}, value)
    /\ UNCHANGED <<holder, members, roles, grant, realm>>

(* What is not sent is kept as it was read. *)
DomainUpdate(c, r) ==
  \E sent \in {"default", "plain", "kept"} :
    /\ realm[r] # "none"
    /\ Begins(c, IF sent = "default" THEN "clear" ELSE "store", "domain update", r, {},
              IF sent = "kept" THEN realm[r] ELSE sent)
    /\ UNCHANGED <<holder, members, roles, grant, realm>>

(* The configuration read, with the time of the synchronisation. *)
DomainSync(c, r) ==
  /\ realm[r] # "none" /\ r \notin Builtin
  /\ Begins(c, "store", "domain sync", r, {}, realm[r])
  /\ UNCHANGED <<holder, members, roles, grant, realm>>

DomainDelete(c, r) ==
  /\ realm[r] # "none" /\ r \notin Builtin
  /\ \A i \in Holders : holder[i] \in UserIds => RealmOf[holder[i]] # r
  /\ realm' = [realm EXCEPT ![r] = "none"]
  /\ Single(c, "domain delete", r)
  /\ UNCHANGED <<holder, members, roles, grant>>

(* Mutant: the default of before stays beside the new one. *)
ClearNoDefault(c) ==
  /\ call[c].at = "clear" /\ call[c].op \in {"domain create", "domain update"}
  /\ Goes(c, "store")
  /\ UNCHANGED <<holder, members, roles, grant, realm>>

(* No other realm is the default from here on. *)
ClearDefault(c) ==
  /\ call[c].at = "clear" /\ call[c].op \in {"domain create", "domain update"}
  /\ realm' = [r \in RealmIds |->
       IF realm[r] = "default" /\ (r # call[c].target \/ call[c].op = "domain create")
       THEN "plain" ELSE realm[r]]
  /\ Goes(c, "store")
  /\ UNCHANGED <<holder, members, roles, grant>>

(* INSERT, or UPDATE of a row that may be gone. *)
StoreRealm(c) ==
  LET r == call[c].target
  IN /\ call[c].at = "store"
     /\ IF (call[c].op = "domain create") = (realm[r] = "none")
        THEN realm' = [realm EXCEPT ![r] = call[c].value] /\ Goes(c, "done")
        ELSE UNCHANGED realm /\ Goes(c, IF call[c].op = "domain create" THEN "failed" ELSE "done")
     /\ UNCHANGED <<holder, members, roles, grant>>

(* The process ends, or a statement fails, between two statements. *)
Abandon(c) ==
  /\ call[c].at # "idle" /\ ~Over(c)
  /\ Goes(c, "failed")
  /\ UNCHANGED <<holder, members, roles, grant, realm>>

AccessCall(c) ==
  \/ \E u \in UserIds : UserCreate(c, u) \/ UserDelete(c, u)
  \/ \E g \in GroupIds : IdentityGroupCreate(c, g) \/ IdentityGroupDelete(c, g)
  \/ \E i \in Holders : IdentityGroupUpdate(c, i)
  \/ \E r \in RoleIds : RoleSave(c, r) \/ RoleDelete(c, r) \/ AclUpdate(c, r)
  \/ \E r \in RealmIds : DomainCreate(c, r) \/ DomainUpdate(c, r) \/ DomainSync(c, r) \/ DomainDelete(c, r)

AccessNext ==
  \E c \in Callers :
    \/ AccessCall(c)
    \/ ClearMembers(c) \/ FindNamed(c) \/ InsertMember(c) \/ RemoveMember(c)
    \/ InsertRole(c) \/ InsertGrant(c)
    \/ ClearDefault(c) \/ StoreRealm(c) \/ Abandon(c)

AccessSpec == AccessInit /\ [][AccessNext]_accessVars
=============================================================================
