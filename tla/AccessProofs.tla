----------------------------- MODULE AccessProofs -----------------------------
(***************************************************************************)
(* Proofs about access control: the types, the references between the      *)
(* tables, the default realm, and what a confirmed call leaves.            *)
(***************************************************************************)
EXTENDS AccessProperties, TLAPS

Ops == {"none", "create", "delete", "role", "members", "acl", "acl delete", "domain create",
        "domain update", "domain sync", "domain delete"}

Places == {"idle", "clear", "find", "insert", "remove", "role", "grant", "store",
           "done", "failed"}

Targets == HolderNames \cup Holders \cup RoleIds \cup RealmIds \cup {Nobody}

Listed == (1..3) \X HolderNames

Calls == [at : Places, op : Ops, target : Targets, asked : SUBSET Listed, todo : SUBSET Listed,
          found : Holders \cup {Nobody}, value : RealmStates \cup GrantStates,
          before : SUBSET Callers]

LEMMA CallTypes == AccessTypeOK => call \in [Callers -> Calls]
BY DEF AccessTypeOK, Calls, Places, Ops, Targets, Listed

(* Where a call goes on: the fields that the steps leave alone. *)
LEMMA GoesCall ==
  ASSUME AccessTypeOK, NEW c \in Callers, NEW where \in Places, Goes(c, where)
  PROVE  /\ call' \in [Callers -> Calls]
         /\ call'[c].at = where
         /\ \A d \in Callers : d # c => call'[d] = call[d]
         /\ \A d \in Callers :
              /\ call'[d].op = call[d].op /\ call'[d].target = call[d].target
              /\ call'[d].asked = call[d].asked /\ call'[d].todo = call[d].todo
              /\ call'[d].found = call[d].found
              /\ call'[d].value = call[d].value /\ call'[d].before = call[d].before
<1>1. call \in [Callers -> Calls]
  BY CallTypes
<1>2. call' = [call EXCEPT ![c] = [@ EXCEPT !.at = where]]
  BY DEF Goes
<1>3. call[c] \in Calls
  BY <1>1
<1>4. [call[c] EXCEPT !.at = where] \in Calls
  BY <1>3 DEF Calls
<1>5. call' \in [Callers -> Calls]
  BY <1>1, <1>2, <1>4
<1>6. call'[c] = [call[c] EXCEPT !.at = where] /\ \A d \in Callers : d # c => call'[d] = call[d]
  BY <1>1, <1>2
<1> QED
  BY <1>3, <1>5, <1>6 DEF Calls

LEMMA BeginsCall ==
  ASSUME AccessTypeOK, NEW c \in Callers, NEW where \in Places, NEW op \in Ops,
         NEW target \in Targets, NEW asked \in SUBSET Listed,
         NEW value \in RealmStates \cup GrantStates, Begins(c, where, op, target, asked, value)
  PROVE  /\ call' \in [Callers -> Calls]
         /\ call[c].at = "idle"
         /\ call'[c].at = where /\ call'[c].op = op /\ call'[c].target = target
         /\ call'[c].value = value /\ call'[c].asked = asked /\ call'[c].todo = asked
         /\ call'[c].found = Nobody
         /\ call'[c].before = {d \in Callers : Over(d)}
         /\ \A d \in Callers : d # c => call'[d] = call[d]
<1> DEFINE new == [at |-> where, op |-> op, target |-> target, asked |-> asked, todo |-> asked,
                   found |-> Nobody, value |-> value, before |-> {d \in Callers : Over(d)}]
<1>1. call \in [Callers -> Calls]
  BY CallTypes
<1>2. new \in Calls
  BY DEF Calls
<1>3. call' = [call EXCEPT ![c] = new] /\ call[c].at = "idle"
  BY DEF Begins
<1> QED
  BY <1>1, <1>2, <1>3

LEMMA HandledCall ==
  ASSUME AccessTypeOK, NEW c \in Callers, NEW item, NEW i \in Holders, NEW where \in Places,
         Handled(c, item, i, where)
  PROVE  /\ call' \in [Callers -> Calls]
         /\ call'[c].at = where /\ call'[c].found = i /\ call'[c].todo = call[c].todo \ {item}
         /\ \A d \in Callers : d # c => call'[d] = call[d]
         /\ \A d \in Callers :
              /\ call'[d].op = call[d].op /\ call'[d].target = call[d].target
              /\ call'[d].asked = call[d].asked
              /\ call'[d].value = call[d].value /\ call'[d].before = call[d].before
<1> DEFINE old == call[c]
           new == [at |-> where, op |-> old.op, target |-> old.target, asked |-> old.asked,
                   todo |-> old.todo \ {item}, found |-> i, value |-> old.value,
                   before |-> old.before]
<1>1. call \in [Callers -> Calls] /\ old \in Calls
  BY CallTypes
<1>2. new \in Calls
  BY <1>1 DEF Calls
<1>3. call' = [call EXCEPT ![c] = new]
  BY DEF Handled
<1> QED
  BY <1>1, <1>2, <1>3

LEMMA TypeParts ==
  ASSUME holder' \in [Holders -> HolderNames \cup {Nobody}],
         members' \subseteq Holders \X Holders, roles' \subseteq RoleIds,
         grant' \in [Holders \X RoleIds -> GrantStates], realm' \in [RealmIds -> RealmStates],
         call' \in [Callers -> Calls]
  PROVE  AccessTypeOK'
BY DEF AccessTypeOK, Calls, Places, Ops, Targets, Listed

DomainOps == {"domain create", "domain update", "domain sync"}

(* A row that is there or was: its id is not given again. *)
Born(i) == i \in Holders /\ (i \in Callers => call[i].at # "idle")

(* What a call is about, where it stands. *)
Aimed(c) ==
  /\ call[c].at = "idle" => call[c].op = "none"
  /\ call[c].op = "members" =>
       /\ Born(call[c].target) /\ holder[call[c].target] \in GroupIds \cup {Nobody}
       /\ \A item \in call[c].todo : item[2] \in UserIds
  /\ call[c].op \in AclOps => call[c].target \in RoleIds /\ call[c].value \in {"here", "below"}
  /\ call[c].op \in DomainOps => call[c].target \in RealmIds
  /\ call[c].at \in {"insert", "remove"} =>
       call[c].op = "members" /\ Born(call[c].found) /\ holder[call[c].found] \in UserIds \cup {Nobody}
  /\ call[c].at \in {"role", "grant"} => call[c].op \in AclOps /\ Born(call[c].found)
  /\ call[c].at = "find" => call[c].op \in {"members", "acl", "acl delete"}
  /\ call[c].at = "store" => call[c].op \in DomainOps /\ call[c].value \in {"plain", "default"}
  /\ call[c].at = "clear" =>
       call[c].op = "members" \/ (call[c].op \in DomainOps /\ call[c].value = "default")

Aims ==
  /\ \A c \in Callers : Aimed(c)
  /\ \A c \in Callers : call[c].at = "idle" => holder[c] = Nobody

LEMMA NamedBorn == Aims => \A i \in Holders : holder[i] # Nobody => Born(i)
BY DEF Aims, Born

(* What a call that begins is about. *)
Fits(where, op, target, asked, value) ==
  /\ op = "members" =>
       /\ Born(target) /\ holder[target] \in GroupIds /\ \A item \in asked : item[2] \in UserIds
       /\ where = IF Replaces(asked) THEN "clear" ELSE "find"
  /\ op \in AclOps =>
       /\ target \in RoleIds /\ value \in {"here", "below"} /\ where = "find"
       /\ \A item \in asked : item[1] \in {1, 2}
  /\ op \in DomainOps => target \in RealmIds
  /\ where \notin {"idle", "insert", "remove", "role", "grant"}
  /\ where = "find" => op \in {"members", "acl", "acl delete"}
  /\ where = "store" => op \in DomainOps /\ value \in {"plain", "default"}
  /\ where = "clear" => op = "members" \/ (op \in DomainOps /\ value = "default")

Starts(c) ==
  \E where \in Places, op \in Ops, target \in Targets, asked \in SUBSET Listed,
     value \in RealmStates \cup GrantStates :
       Begins(c, where, op, target, asked, value) /\ Fits(where, op, target, asked, value)

LEMMA CallStarts ==
  ASSUME AccessTypeOK, Aims, NEW c \in Callers, AccessCall(c)
  PROVE  Starts(c)
<1>1. call \in [Callers -> Calls] /\ holder \in [Holders -> HolderNames \cup {Nobody}]
      /\ realm \in [RealmIds -> RealmStates]
  BY CallTypes DEF AccessTypeOK
<1>2. \A u \in HolderNames \cup RoleIds \cup RealmIds,
         op \in {"create", "delete", "role", "domain delete"} : Single(c, op, u) => Starts(c)
  <2>1. ASSUME NEW u \in HolderNames \cup RoleIds \cup RealmIds,
               NEW op \in {"create", "delete", "role", "domain delete"}, Single(c, op, u)
        PROVE  Starts(c)
    <3>1. Begins(c, "done", op, u, {}, "none") /\ Fits("done", op, u, {}, "none")
      BY <2>1 DEF Single, Fits, DomainOps, AclOps
    <3>2. /\ "done" \in Places /\ op \in Ops /\ u \in Targets /\ {} \in SUBSET Listed
          /\ "none" \in RealmStates \cup GrantStates
      BY DEF Places, Ops, Targets, RealmStates
    <3> QED
      BY <3>1, <3>2 DEF Starts
  <2> QED
    BY <2>1
<1>3. ASSUME NEW u \in UserIds, UserCreate(c, u) \/ UserDelete(c, u) PROVE Starts(c)
  BY <1>2, <1>3 DEF UserCreate, UserDelete, Ops, HolderNames
<1>4. ASSUME NEW g \in GroupIds, IdentityGroupCreate(c, g) \/ IdentityGroupDelete(c, g)
      PROVE  Starts(c)
  BY <1>2, <1>4 DEF IdentityGroupCreate, IdentityGroupDelete, Ops, HolderNames
<1>5. ASSUME NEW g \in Holders, IdentityGroupUpdate(c, g) PROVE Starts(c)
  <2>1. PICK asked \in SUBSET ((1..3) \X UserIds) :
          Begins(c, IF Replaces(asked) THEN "clear" ELSE "find", "members", g, asked, "none")
    BY <1>5 DEF IdentityGroupUpdate, UserChanges, Named
  <2>2. asked \in SUBSET Listed /\ g \in Targets /\ "members" \in Ops /\ "none" \in RealmStates
    BY DEF Listed, HolderNames, Targets, Ops, RealmStates
  <2>3. (IF Replaces(asked) THEN "clear" ELSE "find") \in {"clear", "find"}
    OBVIOUS
  <2>4. Fits(IF Replaces(asked) THEN "clear" ELSE "find", "members", g, asked, "none")
    BY <1>5, <2>1, <2>3, NamedBorn, AccessConstants
       DEF IdentityGroupUpdate, Fits, DomainOps, HolderNames, AclOps
  <2> QED
    BY <2>1, <2>2, <2>3, <2>4 DEF Starts, Places
<1>6. ASSUME NEW r \in RoleIds, RoleSave(c, r) \/ RoleDelete(c, r) PROVE Starts(c)
  BY <1>2, <1>6 DEF RoleSave, RoleDelete, Ops
<1>7. ASSUME NEW r \in RoleIds, AclUpdate(c, r) PROVE Starts(c)
  <2>1. PICK asked \in SUBSET (({1} \X UserIds) \cup ({2} \X GroupIds)), flag \in {"here", "below"} :
          \E op \in AclOps : Begins(c, "find", op, r, asked, flag)
    BY <1>7 DEF AclUpdate, Grantees, Named
  <2> PICK op \in AclOps : Begins(c, "find", op, r, asked, flag)
    BY <2>1
  <2>4. op \in Ops
    BY DEF Ops, AclOps
  <2>5. asked \in SUBSET Listed
    BY <2>1 DEF Listed, HolderNames
  <2>2. asked \in SUBSET Listed /\ r \in Targets /\ op \in Ops /\ flag \in GrantStates
    BY <2>4, <2>5 DEF Targets, GrantStates
  <2>3. Fits("find", op, r, asked, flag)
    BY DEF Fits, DomainOps, AclOps
  <2> QED
    BY <2>1, <2>2, <2>3 DEF Starts, Places
<1>8. ASSUME NEW r \in RealmIds, DomainCreate(c, r) \/ DomainUpdate(c, r) \/ DomainSync(c, r)
      PROVE  Starts(c)
  <2>1. r \in Targets /\ {} \in SUBSET Listed /\ realm[r] \in RealmStates
    BY <1>1 DEF Targets
  <2>2. CASE DomainCreate(c, r)
    <3>1. PICK value \in {"plain", "default"} :
            Begins(c, IF value = "default" THEN "clear" ELSE "store", "domain create", r, {}, value)
      BY <2>2 DEF DomainCreate
    <3>2. /\ (IF value = "default" THEN "clear" ELSE "store") \in Places /\ value \in RealmStates
          /\ "domain create" \in Ops
      BY DEF Places, RealmStates, Ops
    <3>3. Fits(IF value = "default" THEN "clear" ELSE "store", "domain create", r, {}, value)
      BY DEF Fits, DomainOps, AclOps
    <3> QED
      BY <2>1, <3>1, <3>2, <3>3 DEF Starts
  <2>3. CASE DomainUpdate(c, r)
    <3>1. PICK sent \in {"default", "plain", "kept"} :
            Begins(c, IF sent = "default" THEN "clear" ELSE "store", "domain update", r, {},
                   IF sent = "kept" THEN realm[r] ELSE sent)
      BY <2>3 DEF DomainUpdate
    <3>2. /\ (IF sent = "default" THEN "clear" ELSE "store") \in Places
          /\ (IF sent = "kept" THEN realm[r] ELSE sent) \in {"plain", "default"}
          /\ "domain update" \in Ops
      BY <2>1, <2>3 DEF Places, RealmStates, DomainUpdate, Ops
    <3>3. Fits(IF sent = "default" THEN "clear" ELSE "store", "domain update", r, {},
               IF sent = "kept" THEN realm[r] ELSE sent)
      BY <3>2 DEF Fits, DomainOps, AclOps
    <3> QED
      BY <2>1, <3>1, <3>2, <3>3 DEF Starts, RealmStates
  <2>4. CASE DomainSync(c, r)
    <3>1. Begins(c, "store", "domain sync", r, {}, realm[r]) /\ realm[r] # "none"
      BY <2>4 DEF DomainSync
    <3>2. Fits("store", "domain sync", r, {}, realm[r])
      BY <2>1, <3>1 DEF Fits, DomainOps, RealmStates, AclOps
    <3> QED
      BY <2>1, <3>1, <3>2 DEF Starts, Places, Ops
  <2> QED
    BY <1>8, <2>2, <2>3, <2>4
<1>9. ASSUME NEW r \in RealmIds, DomainDelete(c, r) PROVE Starts(c)
  BY <1>2, <1>9 DEF DomainDelete, Ops
<1> QED
  BY <1>3, <1>4, <1>5, <1>6, <1>7, <1>8, <1>9 DEF AccessCall

LEMMA StartCall ==
  ASSUME AccessTypeOK, NEW c \in Callers, Starts(c)
  PROVE  /\ call' \in [Callers -> Calls]
         /\ call[c].at = "idle" /\ call'[c].at # "idle"
         /\ call'[c].before = {d \in Callers : Over(d)}
         /\ \A d \in Callers : d # c => call'[d] = call[d]
<1>1. PICK where \in Places, op \in Ops, target \in Targets, asked \in SUBSET Listed,
           value \in RealmStates \cup GrantStates :
             Begins(c, where, op, target, asked, value) /\ Fits(where, op, target, asked, value)
  BY DEF Starts
<1>2. where # "idle"
  BY <1>1 DEF Fits
<1>3. Begins(c, where, op, target, asked, value)
  BY <1>1
<1>4. /\ call' \in [Callers -> Calls] /\ call[c].at = "idle" /\ call'[c].at = where
      /\ call'[c].before = {d \in Callers : Over(d)}
      /\ \A d \in Callers : d # c => call'[d] = call[d]
  BY <1>3, BeginsCall
<1> QED
  BY <1>2, <1>4

TablesTyped ==
  /\ holder \in [Holders -> HolderNames \cup {Nobody}]
  /\ members \subseteq Holders \X Holders /\ roles \subseteq RoleIds
  /\ grant \in [Holders \X RoleIds -> GrantStates] /\ realm \in [RealmIds -> RealmStates]

LEMMA DropTypes ==
  ASSUME AccessTypeOK, NEW name, Drop(name), UNCHANGED <<roles, realm>>
  PROVE  TablesTyped'
<1> DEFINE gone == {i \in Holders : holder[i] = name}
<1>1. /\ holder' = [i \in Holders |-> IF i \in gone THEN Nobody ELSE holder[i]]
      /\ members' = {m \in members : m[1] \notin gone /\ m[2] \notin gone}
      /\ grant' = [h \in Holders \X RoleIds |-> IF h[1] \in gone THEN "none" ELSE grant[h]]
  BY DEF Drop
<1> HIDE DEF gone
<1> QED
  BY <1>1 DEF TablesTyped, AccessTypeOK, GrantStates

Later(c) ==
  \/ ClearMembers(c) \/ FindNamed(c) \/ InsertMember(c) \/ RemoveMember(c)
  \/ InsertRole(c) \/ InsertGrant(c) \/ ClearDefault(c) \/ StoreRealm(c) \/ Abandon(c)

LEMMA NextCases == AccessNext => \E c \in Callers : AccessCall(c) \/ Later(c)
BY DEF AccessNext, Later

(* What the statements of a call do to the tables keeps their types. *)
LEMMA TableTypes ==
  ASSUME AccessTypeOK, Aims, NEW c \in Callers, AccessCall(c) \/ Later(c)
  PROVE  TablesTyped'
<1>1. TablesTyped /\ c \in Holders /\ Aimed(c)
  BY DEF TablesTyped, AccessTypeOK, Holders, Aims
<1>2. call[c] \in Calls
  BY CallTypes
<1>3. ASSUME UNCHANGED <<holder, members, roles, grant, realm>> PROVE TablesTyped'
  BY <1>1, <1>3 DEF TablesTyped
<1>4. ASSUME NEW n \in HolderNames, holder' = [holder EXCEPT ![c] = n],
             UNCHANGED <<members, roles, grant, realm>>
      PROVE  TablesTyped'
  BY <1>1, <1>4 DEF TablesTyped
<1>5. ASSUME NEW u \in UserIds, UserCreate(c, u) \/ UserDelete(c, u) PROVE TablesTyped'
  BY <1>4, <1>5, DropTypes DEF UserCreate, UserDelete, HolderNames
<1>6. ASSUME NEW g \in GroupIds, IdentityGroupCreate(c, g) \/ IdentityGroupDelete(c, g)
      PROVE  TablesTyped'
  BY <1>4, <1>6, DropTypes DEF IdentityGroupCreate, IdentityGroupDelete, HolderNames
<1>7. ASSUME NEW r \in RoleIds, RoleSave(c, r) \/ RoleDelete(c, r) \/ AclUpdate(c, r)
      PROVE  TablesTyped'
  <2>1. CASE RoleSave(c, r) \/ RoleDelete(c, r)
    BY <1>1, <2>1 DEF RoleSave, RoleDelete, TablesTyped
  <2>2. CASE AclUpdate(c, r)
    BY <1>3, <2>2 DEF AclUpdate
  <2> QED
    BY <1>7, <2>1, <2>2
<1>8. ASSUME NEW r \in RealmIds,
             DomainCreate(c, r) \/ DomainUpdate(c, r) \/ DomainSync(c, r) \/ DomainDelete(c, r)
      PROVE  TablesTyped'
  <2>1. CASE DomainDelete(c, r)
    BY <1>1, <2>1 DEF DomainDelete, TablesTyped, RealmStates
  <2>2. CASE DomainCreate(c, r) \/ DomainUpdate(c, r) \/ DomainSync(c, r)
    BY <1>3, <2>2 DEF DomainCreate, DomainUpdate, DomainSync
  <2> QED
    BY <1>8, <2>1, <2>2
<1>9. CASE AccessCall(c)
  <2>1. ASSUME NEW i \in Holders, IdentityGroupUpdate(c, i) PROVE TablesTyped'
    BY <1>3, <2>1 DEF IdentityGroupUpdate
  <2> QED
    BY <1>5, <1>6, <1>7, <1>8, <1>9, <2>1 DEF AccessCall
<1>10. CASE ClearMembers(c) \/ RemoveMember(c)
  BY <1>1, <1>10 DEF ClearMembers, RemoveMember, TablesTyped
<1>11. CASE FindNamed(c) \/ Abandon(c)
  BY <1>3, <1>11 DEF FindNamed, Abandon
<1>12. CASE InsertMember(c)
  <2>1. call[c].target \in Holders /\ call[c].found \in Holders
    BY <1>1, <1>12 DEF InsertMember, Aimed, Born
  <2>2. /\ members' \subseteq members \cup {<<call[c].target, call[c].found>>}
        /\ UNCHANGED <<holder, roles, grant, realm>>
    BY <1>12 DEF InsertMember
  <2>3. members' \subseteq Holders \X Holders
    BY <1>1, <2>1, <2>2 DEF TablesTyped
  <2> QED
    BY <1>1, <2>2, <2>3 DEF TablesTyped
<1>13. CASE InsertRole(c)
  BY <1>1, <1>13 DEF InsertRole, TablesTyped, Aimed
<1>14. CASE InsertGrant(c)
  <2> DEFINE entry == <<call[c].found, call[c].target>>
  <2>1. /\ call[c].found \in Holders /\ call[c].target \in RoleIds
        /\ call[c].value \in {"here", "below"}
    BY <1>1, <1>14 DEF InsertGrant, Granting, Aimed, Born
  <2>2. /\ grant' = grant \/ grant' = [grant EXCEPT ![entry] = call[c].value]
        /\ UNCHANGED <<holder, members, roles, realm>>
    BY <1>14 DEF InsertGrant, Granting
  <2>3. grant' \in [Holders \X RoleIds -> GrantStates]
    BY <1>1, <2>1, <2>2 DEF TablesTyped, GrantStates
  <2> QED
    BY <1>1, <2>2, <2>3 DEF TablesTyped
<1>15. CASE ClearDefault(c)
  BY <1>1, <1>15 DEF ClearDefault, TablesTyped, RealmStates
<1>16. CASE StoreRealm(c)
  <2>1. call[c].target \in RealmIds /\ call[c].value \in RealmStates
    BY <1>1, <1>16 DEF StoreRealm, Aimed, RealmStates
  <2> QED
    BY <1>1, <1>16, <2>1 DEF StoreRealm, TablesTyped
<1> QED
  BY <1>9, <1>10, <1>11, <1>12, <1>13, <1>14, <1>15, <1>16 DEF Later

(* What a step of a call that has begun leaves as it is. *)
LEMMA LaterCall ==
  ASSUME AccessTypeOK, Aims, NEW c \in Callers, Later(c)
  PROVE  /\ call' \in [Callers -> Calls]
         /\ call[c].at \notin {"idle", "done", "failed"} /\ call'[c].at # "idle"
         /\ \A d \in Callers : d # c => call'[d] = call[d]
         /\ \A d \in Callers :
              /\ call'[d].op = call[d].op /\ call'[d].target = call[d].target
              /\ call'[d].asked = call[d].asked
              /\ call'[d].value = call[d].value /\ call'[d].before = call[d].before
<1>1. \E where \in Places \ {"idle"} :
        \/ Goes(c, where)
        \/ \E item \in call[c].todo, i \in Holders : Handled(c, item, i, where)
  <2>1. CASE FindNamed(c)
    <3>1. PICK item \in call[c].todo :
            \/ Goes(c, "failed")
            \/ \E i \in Holders :
                 Handled(c, item, i, CASE call[c].op \in AclOps -> "role"
                                       [] call[c].op = "members" /\ item[1] < 3 -> "insert"
                                       [] OTHER -> "remove")
      BY <2>1 DEF FindNamed
    <3>2. (CASE call[c].op \in AclOps -> "role"
             [] call[c].op = "members" /\ item[1] < 3 -> "insert"
             [] OTHER -> "remove") \in {"role", "insert", "remove"}
      OBVIOUS
    <3> QED
      BY <3>1, <3>2 DEF Places
  <2>2. CASE InsertGrant(c)
    BY <2>2 DEF InsertGrant, Granting, GoesOn, Places
  <2>3. CASE InsertMember(c) \/ RemoveMember(c) \/ StoreRealm(c)
    BY <2>3 DEF InsertMember, RemoveMember, StoreRealm, GoesOn, Places
  <2>4. CASE ClearMembers(c) \/ InsertRole(c) \/ ClearDefault(c) \/ Abandon(c)
    BY <2>4 DEF ClearMembers, InsertRole, ClearDefault, Abandon, Places
  <2> QED
    BY <2>1, <2>2, <2>3, <2>4 DEF Later
<1>2. call[c].at \notin {"idle", "done", "failed"}
  BY DEF Later, ClearMembers, FindNamed, InsertMember, RemoveMember, InsertRole, InsertGrant,
         Granting, ClearDefault, StoreRealm, Abandon, Over
<1>3. PICK where \in Places \ {"idle"} :
        \/ Goes(c, where)
        \/ \E item \in call[c].todo, i \in Holders : Handled(c, item, i, where)
  BY <1>1
<1>4. CASE Goes(c, where)
  BY <1>2, <1>3, <1>4, GoesCall
<1>5. CASE \E item \in call[c].todo, i \in Holders : Handled(c, item, i, where)
  BY <1>2, <1>3, <1>5, HandledCall
<1> QED
  BY <1>3, <1>4, <1>5

LEMMA TypeStep ==
  ASSUME AccessTypeOK, Aims, NEW c \in Callers, AccessCall(c) \/ Later(c)
  PROVE  AccessTypeOK'
BY TableTypes, CallStarts, StartCall, LaterCall, TypeParts DEF TablesTyped

(* A call that has begun keeps what it is about, and stays begun or over.  *)
LEMMA CallsSteady ==
  ASSUME AccessTypeOK, Aims, NEW c \in Callers, AccessCall(c) \/ Later(c)
  PROVE  /\ \A d \in Callers : call[d].at # "idle" =>
              /\ call'[d].at # "idle"
              /\ call'[d].op = call[d].op /\ call'[d].target = call[d].target
              /\ call'[d].asked = call[d].asked /\ call'[d].value = call[d].value
              /\ call'[d].before = call[d].before
         /\ \A d \in Callers : Over(d) => Over(d)'
         /\ \A i : Born(i) => Born(i)'
<1>1. CASE Later(c)
  BY <1>1, LaterCall DEF Over, Born
<1>2. CASE AccessCall(c)
  <2>1. Starts(c)
    BY <1>2, CallStarts
  <2>2. call[c].at = "idle" /\ \A d \in Callers : d # c => call'[d] = call[d]
    BY <2>1, StartCall
  <2> QED
    BY <2>2 DEF Over, Born
<1> QED
  BY <1>1, <1>2

LEMMA DropNames ==
  ASSUME NEW name, Drop(name)
  PROVE  /\ \A i \in Holders : holder'[i] = IF holder[i] = name THEN Nobody ELSE holder[i]
         /\ members' = {m \in members : ~(\E i \in Holders : holder[i] = name /\ (m[1] = i \/ m[2] = i))}
         /\ \A i \in Holders, r \in RoleIds :
              grant'[<<i, r>>] = IF holder[i] = name THEN "none" ELSE grant[<<i, r>>]
BY DEF Drop

(* Only the row a creating call makes gets a name. *)
LEMMA HolderMoves ==
  ASSUME AccessTypeOK, Aims, NEW c \in Callers, AccessCall(c) \/ Later(c)
  PROVE  /\ \A i \in Holders : i # c \/ call[c].at # "idle" => holder'[i] \in {holder[i], Nobody}
         /\ call'[c].at # "idle"
<1>1. holder \in [Holders -> HolderNames \cup {Nobody}] /\ c \in Holders
  BY DEF AccessTypeOK, Holders
<1>2. CASE Later(c)
  <2>1. holder' = holder
    BY <1>2 DEF Later, ClearMembers, FindNamed, InsertMember, RemoveMember, InsertRole, InsertGrant,
                Granting, ClearDefault, StoreRealm, Abandon
  <2> QED
    BY <1>2, <2>1, LaterCall
<1>3. CASE AccessCall(c)
  <2>0. call[c].at = "idle"
    BY <1>3, CallStarts DEF Starts, Begins
  <2>1. ASSUME NEW n, Drop(n) PROVE \A i \in Holders : holder'[i] \in {holder[i], Nobody}
    BY <2>1, DropNames
  <2>2. ASSUME NEW n, holder' = [holder EXCEPT ![c] = n]
        PROVE  \A i \in Holders : i # c => holder'[i] = holder[i]
    BY <1>1, <2>2
  <2>3. \A i \in Holders : i # c => holder'[i] \in {holder[i], Nobody}
    <3>1. ASSUME NEW u \in UserIds, UserCreate(c, u) \/ UserDelete(c, u)
          PROVE  \A i \in Holders : i # c => holder'[i] \in {holder[i], Nobody}
      BY <2>1, <2>2, <3>1 DEF UserCreate, UserDelete
    <3>2. ASSUME NEW g \in GroupIds, IdentityGroupCreate(c, g) \/ IdentityGroupDelete(c, g)
          PROVE  \A i \in Holders : i # c => holder'[i] \in {holder[i], Nobody}
      BY <2>1, <2>2, <3>2 DEF IdentityGroupCreate, IdentityGroupDelete
    <3>3. ASSUME \/ \E i \in Holders : IdentityGroupUpdate(c, i)
                 \/ \E r \in RoleIds : RoleSave(c, r) \/ RoleDelete(c, r) \/ AclUpdate(c, r)
                 \/ \E r \in RealmIds : DomainCreate(c, r) \/ DomainUpdate(c, r)
                                         \/ DomainSync(c, r) \/ DomainDelete(c, r)
          PROVE  holder' = holder
      BY <3>3 DEF IdentityGroupUpdate, RoleSave, RoleDelete, AclUpdate, DomainCreate, DomainUpdate,
                  DomainSync, DomainDelete
    <3> QED
      BY <1>3, <3>1, <3>2, <3>3 DEF AccessCall
  <2>4. call'[c].at # "idle"
    BY <1>3, CallStarts, StartCall
  <2> QED
    BY <2>0, <2>3, <2>4
<1> QED
  BY <1>2, <1>3

(* The calls that do not move keep their aim. *)
LEMMA OthersAimed ==
  ASSUME AccessTypeOK, Aims, NEW c \in Callers, AccessCall(c) \/ Later(c),
         NEW d \in Callers, d # c
  PROVE  Aimed(d)' /\ (call'[d].at = "idle" => holder'[d] = Nobody)
<1>1. call'[d] = call[d] /\ Aimed(d)
  <2>1. CASE Later(c)
    BY <2>1, LaterCall DEF Aims
  <2>2. CASE AccessCall(c)
    BY <2>2, CallStarts, StartCall DEF Aims
  <2> QED
    BY <2>1, <2>2
<1>2. \A i : Born(i) => i \in Holders /\ (i # c \/ call[c].at # "idle")
  BY DEF Born
<1>3. \A i : Born(i) => Born(i)' /\ holder'[i] \in {holder[i], Nobody}
  BY <1>2, HolderMoves, CallsSteady
<1>4. d \in Holders /\ (call[d].at = "idle" => holder[d] = Nobody)
  BY DEF Holders, Aims
<1>5. call'[d].at = "idle" => holder'[d] = Nobody
  BY <1>1, <1>4, HolderMoves
<1>6. Aimed(d)'
  <2>1. call[d].op = "members" =>
          /\ Born(call[d].target)' /\ holder'[call[d].target] \in GroupIds \cup {Nobody}
          /\ \A item \in call[d].todo : item[2] \in UserIds
    BY <1>1, <1>3 DEF Aimed
  <2>2. call[d].at \in {"insert", "remove"} =>
          /\ call[d].op = "members" /\ Born(call[d].found)'
          /\ holder'[call[d].found] \in UserIds \cup {Nobody}
    BY <1>1, <1>3 DEF Aimed
  <2>3. call[d].at \in {"role", "grant"} => call[d].op \in AclOps /\ Born(call[d].found)'
    BY <1>1, <1>3 DEF Aimed
  <2> QED
    BY <1>1, <2>1, <2>2, <2>3 DEF Aimed
<1> QED
  BY <1>5, <1>6

LEMMA StartAimed ==
  ASSUME AccessTypeOK, Aims, NEW c \in Callers, AccessCall(c)
  PROVE  Aimed(c)'
<1>1. PICK where \in Places, op \in Ops, target \in Targets, asked \in SUBSET Listed,
           value \in RealmStates \cup GrantStates :
             Begins(c, where, op, target, asked, value) /\ Fits(where, op, target, asked, value)
  BY CallStarts DEF Starts
<1>2. /\ call'[c].at = where /\ call'[c].op = op /\ call'[c].target = target
      /\ call'[c].value = value /\ call'[c].todo = asked /\ call[c].at = "idle"
  BY <1>1, CallTypes DEF Begins
<1>3. op = "members" => Born(target)' /\ holder'[target] \in GroupIds \cup {Nobody}
  <2>1. Born(target) => Born(target)' /\ (target # c) /\ target \in Holders
    BY <1>2, CallsSteady DEF Born
  <2> QED
    BY <1>1, <2>1, HolderMoves DEF Fits
<1> QED
  BY <1>1, <1>2, <1>3 DEF Fits, Aimed

LEMMA LaterAimed ==
  ASSUME AccessTypeOK, Aims, NEW c \in Callers, Later(c)
  PROVE  Aimed(c)'
<1>1. Aimed(c) /\ call[c] \in Calls /\ call \in [Callers -> Calls]
  BY CallTypes DEF Aims
<1>2. UNCHANGED holder /\ \A i : Born(i) => Born(i)'
  BY CallsSteady DEF Later, ClearMembers, FindNamed, InsertMember, RemoveMember, InsertRole,
     InsertGrant, Granting, ClearDefault, StoreRealm, Abandon
<1>3. /\ call'[c].op = call[c].op /\ call'[c].target = call[c].target
      /\ call'[c].value = call[c].value /\ call[c].at # "idle"
  BY LaterCall
<1>4. ASSUME NEW where \in {"find", "store", "grant", "done", "failed"}, Goes(c, where),
             where = "find" => call[c].op \in {"members", "acl", "acl delete"},
             where = "store" => call[c].op \in DomainOps /\ call[c].value \in {"plain", "default"},
             where = "grant" => call[c].at = "role"
      PROVE  Aimed(c)'
  <2>1. /\ call'[c].at = where /\ call'[c].todo = call[c].todo /\ call'[c].found = call[c].found
    BY <1>1, <1>4 DEF Goes, Calls
  <2> QED
    BY <1>1, <1>2, <1>3, <1>4, <2>1 DEF Aimed
<1>5. CASE FindNamed(c)
  <2>1. PICK item \in call[c].todo :
          \/ Goes(c, "failed")
          \/ \E i \in Holders :
               /\ holder[i] = item[2]
               /\ Handled(c, item, i, CASE call[c].op \in AclOps -> "role"
                                        [] call[c].op = "members" /\ item[1] < 3 -> "insert"
                                        [] OTHER -> "remove")
    BY <1>5 DEF FindNamed
  <2>2. call[c].at = "find" /\ call[c].op \in {"members", "acl", "acl delete"}
    BY <1>1, <1>5 DEF FindNamed, Aimed
  <2>3. CASE Goes(c, "failed")
    BY <1>4, <2>3
  <2>4. ASSUME NEW i \in Holders, NEW where \in {"role", "insert", "remove"},
               holder[i] = item[2], Handled(c, item, i, where),
               (where = "role") = (call[c].op \in AclOps)
        PROVE  Aimed(c)'
    <3>1. call'[c].at = where /\ call'[c].found = i /\ call'[c].todo = call[c].todo \ {item}
      BY <1>1, <2>4 DEF Handled, Calls
    <3>2. item[2] \in HolderNames /\ Nobody \notin HolderNames
      BY <1>1, AccessConstants DEF Calls, Listed
    <3>3. Born(i)
      BY <2>4, <3>2, NamedBorn
    <3>4. call[c].op = "members" => item[2] \in UserIds
      BY <1>1 DEF Aimed
    <3> QED
      BY <1>1, <1>2, <1>3, <2>2, <2>4, <3>1, <3>3, <3>4 DEF Aimed, AclOps
  <2>5. CASE call[c].op \in AclOps
    BY <2>1, <2>3, <2>4, <2>5 DEF AclOps
  <2>6. CASE call[c].op = "members"
    <3>1. CASE item[1] < 3
      BY <2>1, <2>3, <2>4, <2>6, <3>1 DEF AclOps
    <3>2. CASE ~(item[1] < 3)
      BY <2>1, <2>3, <2>4, <2>6, <3>2
    <3> QED
      BY <3>1, <3>2
  <2> QED
    BY <2>2, <2>5, <2>6 DEF AclOps
<1>6. CASE InsertMember(c) \/ RemoveMember(c)
  BY <1>1, <1>4, <1>6 DEF InsertMember, RemoveMember, GoesOn, Aimed
<1>7. CASE InsertGrant(c)
  BY <1>1, <1>4, <1>7 DEF InsertGrant, Granting, GoesOn, Aimed, AclOps
<1>8. CASE InsertRole(c) \/ ClearMembers(c) \/ Abandon(c)
  BY <1>4, <1>8 DEF InsertRole, ClearMembers, Abandon
<1>9. CASE ClearDefault(c)
  BY <1>1, <1>4, <1>9 DEF ClearDefault, Aimed, DomainOps
<1>10. CASE StoreRealm(c)
  BY <1>4, <1>10 DEF StoreRealm
<1> QED
  BY <1>5, <1>6, <1>7, <1>8, <1>9, <1>10 DEF Later

LEMMA AimsStep ==
  ASSUME AccessTypeOK, Aims, NEW c \in Callers, AccessCall(c) \/ Later(c)
  PROVE  Aims'
<1>1. Aimed(c)'
  BY StartAimed, LaterAimed
<1>2. call'[c].at # "idle"
  BY HolderMoves
<1> QED
  BY <1>1, <1>2, OthersAimed DEF Aims

LEMMA InitTyped == AccessInit => AccessTypeOK /\ Aims
<1> SUFFICES ASSUME AccessInit PROVE AccessTypeOK /\ Aims
  OBVIOUS
<1>1. call = [c \in Callers |-> IdleCall]
  BY DEF AccessInit
<1>2. IdleCall \in Calls
  BY DEF IdleCall, Calls, Places, Ops, Targets, RealmStates
<1>3. call \in [Callers -> Calls]
  BY <1>1, <1>2
<1>4. TablesTyped
  BY AccessSeed, AccessConstants DEF AccessInit, TablesTyped, GrantStates
<1>5. AccessTypeOK
  BY <1>3, <1>4 DEF AccessTypeOK, TablesTyped, Calls, Places, Ops, Targets, Listed
<1>6. \A c \in Callers : call[c].at = "idle" /\ call[c].op = "none"
  BY <1>1 DEF IdleCall
<1>7. \A c \in Callers : holder[c] = Nobody
  BY AccessSeed DEF AccessInit, Holders
<1> QED
  BY <1>5, <1>6, <1>7 DEF Aims, Aimed, DomainOps, AclOps

LEMMA StutterTyped == AccessTypeOK /\ Aims /\ UNCHANGED accessVars => AccessTypeOK' /\ Aims'
<1> SUFFICES ASSUME AccessTypeOK, Aims, UNCHANGED accessVars PROVE AccessTypeOK' /\ Aims'
  OBVIOUS
<1>1. UNCHANGED <<holder, members, roles, grant, realm, call>>
  BY DEF accessVars
<1>2. AccessTypeOK'
  BY <1>1 DEF AccessTypeOK
<1>3. \A c \in Callers : Aimed(c)'
  BY <1>1 DEF Aims, Aimed, Born
<1>4. \A c \in Callers : call'[c].at = "idle" => holder'[c] = Nobody
  BY <1>1 DEF Aims
<1> QED
  BY <1>2, <1>3, <1>4 DEF Aims

(* A new row: nothing refers to an id before it is given. *)
LEMMA CreateReferences ==
  ASSUME AccessTypeOK, Aims, ReferencesWhole, NEW c \in Callers, NEW n \in HolderNames,
         call[c].at = "idle", ~Taken(n), holder' = [holder EXCEPT ![c] = n],
         n \in UserIds => realm[RealmOf[n]] # "none", UNCHANGED <<members, roles, grant, realm>>
  PROVE  ReferencesWhole'
<1>1. holder \in [Holders -> HolderNames \cup {Nobody}] /\ c \in Holders /\ Nobody \notin HolderNames
  BY AccessConstants DEF AccessTypeOK, Holders
<1>2. holder[c] = Nobody
  BY DEF Aims
<1>3. holder'[c] = n /\ \A i \in Holders : i # c => holder'[i] = holder[i]
  BY <1>1
<1>4. \A m \in members : m[1] \in Holders /\ m[2] \in Holders /\ m[1] # c /\ m[2] # c
  BY <1>1, <1>2 DEF ReferencesWhole, AccessTypeOK, HolderNames
<1>5. \A m \in members' : holder'[m[1]] \in GroupIds /\ holder'[m[2]] \in UserIds
  BY <1>3, <1>4 DEF ReferencesWhole
<1>6. \A i \in Holders, r \in RoleIds : grant'[<<i, r>>] # "none" => holder'[i] # Nobody /\ r \in roles'
  BY <1>1, <1>2, <1>3 DEF ReferencesWhole
<1>7. \A i \in Holders : holder'[i] \in UserIds => realm'[RealmOf[holder'[i]]] # "none"
  BY <1>3 DEF ReferencesWhole
<1>8. \A i, j \in Holders : holder'[i] = holder'[j] /\ holder'[i] # Nobody => i = j
  BY <1>3 DEF ReferencesWhole, Taken
<1> QED
  BY <1>5, <1>6, <1>7, <1>8 DEF ReferencesWhole

LEMMA DropReferences ==
  ASSUME AccessTypeOK, ReferencesWhole, NEW n, Drop(n), UNCHANGED <<roles, realm>>
  PROVE  ReferencesWhole'
<1>1. /\ \A i \in Holders : holder'[i] = IF holder[i] = n THEN Nobody ELSE holder[i]
      /\ members' = {m \in members : ~(\E i \in Holders : holder[i] = n /\ (m[1] = i \/ m[2] = i))}
      /\ \A i \in Holders, r \in RoleIds :
           grant'[<<i, r>>] = IF holder[i] = n THEN "none" ELSE grant[<<i, r>>]
  BY DropNames
<1>2. \A m \in members : m[1] \in Holders /\ m[2] \in Holders
  BY DEF AccessTypeOK
<1>3. Nobody \notin UserIds
  BY AccessConstants DEF HolderNames
<1>4. \A m \in members' : holder'[m[1]] \in GroupIds /\ holder'[m[2]] \in UserIds
  BY <1>1, <1>2 DEF ReferencesWhole
<1>5. \A i \in Holders, r \in RoleIds : grant'[<<i, r>>] # "none" => holder'[i] # Nobody /\ r \in roles'
  BY <1>1 DEF ReferencesWhole
<1>6. \A i \in Holders : holder'[i] \in UserIds => realm'[RealmOf[holder'[i]]] # "none"
  BY <1>1, <1>3 DEF ReferencesWhole
<1>7. \A i, j \in Holders : holder'[i] = holder'[j] /\ holder'[i] # Nobody => i = j
  BY <1>1 DEF ReferencesWhole
<1> QED
  BY <1>4, <1>5, <1>6, <1>7 DEF ReferencesWhole

LEMMA StartReferences ==
  ASSUME AccessTypeOK, Aims, ReferencesWhole, NEW c \in Callers, AccessCall(c)
  PROVE  ReferencesWhole'
<1>0. call[c].at = "idle"
  BY CallStarts, StartCall
<1>1. ASSUME UNCHANGED <<holder, members, roles, grant, realm>> PROVE ReferencesWhole'
  BY <1>1 DEF ReferencesWhole
<1>2. ASSUME NEW u \in UserIds, UserCreate(c, u) \/ UserDelete(c, u) PROVE ReferencesWhole'
  <2>1. CASE UserCreate(c, u)
    BY <1>0, <2>1, CreateReferences DEF UserCreate, HolderNames
  <2>2. CASE UserDelete(c, u)
    BY <2>2, DropReferences DEF UserDelete
  <2> QED
    BY <1>2, <2>1, <2>2
<1>3. ASSUME NEW g \in GroupIds, IdentityGroupCreate(c, g) \/ IdentityGroupDelete(c, g)
      PROVE  ReferencesWhole'
  <2>1. CASE IdentityGroupCreate(c, g)
    <3>1. g \notin UserIds /\ g \in HolderNames
      BY AccessConstants DEF HolderNames
    <3> QED
      BY <1>0, <2>1, <3>1, CreateReferences DEF IdentityGroupCreate
  <2>2. CASE IdentityGroupDelete(c, g)
    BY <2>2, DropReferences DEF IdentityGroupDelete
  <2> QED
    BY <1>3, <2>1, <2>2
<1>4. ASSUME NEW r \in RoleIds, RoleSave(c, r) \/ RoleDelete(c, r) \/ AclUpdate(c, r)
      PROVE  ReferencesWhole'
  <2>1. CASE RoleSave(c, r)
    BY <2>1 DEF RoleSave, ReferencesWhole
  <2>2. CASE RoleDelete(c, r)
    BY <2>2 DEF RoleDelete, ReferencesWhole
  <2>3. CASE AclUpdate(c, r)
    BY <1>1, <2>3 DEF AclUpdate
  <2> QED
    BY <1>4, <2>1, <2>2, <2>3
<1>5. ASSUME NEW r \in RealmIds,
             DomainCreate(c, r) \/ DomainUpdate(c, r) \/ DomainSync(c, r) \/ DomainDelete(c, r)
      PROVE  ReferencesWhole'
  <2>1. CASE DomainDelete(c, r)
    <3>1. \A s \in RealmIds : s # r => realm'[s] = realm[s]
      BY <2>1 DEF DomainDelete, AccessTypeOK
    <3>2. \A i \in Holders : holder[i] \in UserIds => RealmOf[holder[i]] # r
                                                  /\ RealmOf[holder[i]] \in RealmIds
      BY <2>1, AccessConstants DEF DomainDelete
    <3> QED
      BY <2>1, <3>1, <3>2 DEF DomainDelete, ReferencesWhole
  <2>2. CASE DomainCreate(c, r) \/ DomainUpdate(c, r) \/ DomainSync(c, r)
    BY <1>1, <2>2 DEF DomainCreate, DomainUpdate, DomainSync
  <2> QED
    BY <1>5, <2>1, <2>2
<1>6. ASSUME NEW i \in Holders, IdentityGroupUpdate(c, i) PROVE ReferencesWhole'
  BY <1>1, <1>6 DEF IdentityGroupUpdate
<1> QED
  BY <1>2, <1>3, <1>4, <1>5, <1>6 DEF AccessCall

LEMMA LaterReferences ==
  ASSUME AccessTypeOK, Aims, ReferencesWhole, NEW c \in Callers, Later(c)
  PROVE  ReferencesWhole'
<1>0. Aimed(c)
  BY DEF Aims
<1>1. CASE FindNamed(c) \/ Abandon(c)
  BY <1>1 DEF FindNamed, Abandon, ReferencesWhole
<1>2. CASE ClearMembers(c) \/ RemoveMember(c)
  BY <1>2 DEF ClearMembers, RemoveMember, ReferencesWhole
<1>3. CASE InsertMember(c)
  <2>1. /\ holder[call[c].target] \in GroupIds \cup {Nobody}
        /\ holder[call[c].found] \in UserIds \cup {Nobody}
    BY <1>0, <1>3 DEF InsertMember, Aimed
  <2>2. \A m \in members' : m \in members \/
          (m = <<call[c].target, call[c].found>> /\ holder[m[1]] # Nobody /\ holder[m[2]] # Nobody)
    BY <1>3 DEF InsertMember
  <2>3. \A m \in members' : holder[m[1]] \in GroupIds /\ holder[m[2]] \in UserIds
    BY <2>1, <2>2 DEF ReferencesWhole
  <2> QED
    BY <1>3, <2>3 DEF InsertMember, ReferencesWhole
<1>4. CASE InsertRole(c)
  BY <1>4 DEF InsertRole, ReferencesWhole
<1>5. CASE InsertGrant(c)
  <2> DEFINE entry == <<call[c].found, call[c].target>>
  <2>1. /\ grant' = grant \/ (/\ grant' = [grant EXCEPT ![entry] = call[c].value]
                              /\ holder[call[c].found] # Nobody /\ call[c].target \in roles)
        /\ UNCHANGED <<holder, members, roles, realm>>
    BY <1>5 DEF InsertGrant, Granting
  <2>2. \A i \in Holders, r \in RoleIds : grant'[<<i, r>>] # "none" =>
          grant[<<i, r>>] # "none" \/ (i = call[c].found /\ r = call[c].target
                                        /\ holder[i] # Nobody /\ r \in roles)
    BY <2>1 DEF AccessTypeOK
  <2> QED
    BY <2>1, <2>2 DEF ReferencesWhole
<1>6. CASE ClearDefault(c)
  <2>1. \A r \in RealmIds : realm[r] # "none" => realm'[r] # "none"
    BY <1>6 DEF ClearDefault
  <2> QED
    BY <1>6, <2>1, AccessConstants DEF ClearDefault, ReferencesWhole
<1>7. CASE StoreRealm(c)
  <2>1. call[c].value # "none"
    BY <1>0, <1>7 DEF StoreRealm, Aimed
  <2>2. \A r \in RealmIds : realm[r] # "none" => realm'[r] # "none"
    BY <1>7, <2>1 DEF StoreRealm, AccessTypeOK
  <2> QED
    BY <1>7, <2>2, AccessConstants DEF StoreRealm, ReferencesWhole
<1> QED
  BY <1>1, <1>2, <1>3, <1>4, <1>5, <1>6, <1>7 DEF Later

(***************************************************************************)
(* The default realm.  A realm holds the default from the moment the       *)
(* others are cleared for it, while the call that will store it is under   *)
(* way: seen so, two realms hold it only if calls that overlap wrote them, *)
(* and every step keeps that.                                              *)
(***************************************************************************)
Storing(c, r) == call[c].at = "store" /\ call[c].target = r /\ call[c].value = "default"

Holding(r) == realm[r] = "default" \/ \E c \in Callers : Storing(c, r)

Pair(r, s) == \E c, d \in Callers : Writes(c, r) /\ Writes(d, s) /\ Overlap(c, d)

HoldersPaired ==
  \A r, s \in RealmIds : Holding(r) /\ Holding(s) /\ r # s => Pair(r, s)

BeforeOver == \A c, d \in Callers : d \in call[c].before => Over(d)

LEMMA BeforeStep ==
  ASSUME AccessTypeOK, Aims, BeforeOver, NEW c \in Callers, AccessCall(c) \/ Later(c)
  PROVE  BeforeOver'
<1>1. \A d \in Callers : Over(d) => Over(d)'
  BY CallsSteady
<1>2. CASE Later(c)
  BY <1>1, <1>2, LaterCall DEF BeforeOver
<1>3. CASE AccessCall(c)
  <2>1. /\ call'[c].before = {d \in Callers : Over(d)}
        /\ \A d \in Callers : d # c => call'[d] = call[d]
    BY <1>3, CallStarts, StartCall
  <2> QED
    BY <1>1, <2>1 DEF BeforeOver
<1> QED
  BY <1>2, <1>3

LEMMA PairStays ==
  ASSUME AccessTypeOK, Aims, NEW c \in Callers, AccessCall(c) \/ Later(c),
         NEW r \in RealmIds, NEW s \in RealmIds, Pair(r, s)
  PROVE  Pair(r, s)'
<1>1. PICK p, q \in Callers : Writes(p, r) /\ Writes(q, s) /\ Overlap(p, q)
  BY DEF Pair
<1>2. /\ call'[p].at # "idle" /\ call'[p].op = call[p].op /\ call'[p].target = call[p].target
      /\ call'[p].before = call[p].before
      /\ call'[q].at # "idle" /\ call'[q].op = call[q].op /\ call'[q].target = call[q].target
      /\ call'[q].before = call[q].before
  BY <1>1, CallsSteady DEF Overlap, NotBefore
<1>3. Writes(p, r)' /\ Writes(q, s)' /\ Overlap(p, q)'
  BY <1>1, <1>2 DEF Writes, Overlap, NotBefore
<1> QED
  BY <1>3 DEF Pair

LEMMA PairTurns == \A r, s : Pair(r, s) => Pair(s, r)
BY DEF Pair, Overlap

(* Two calls under way overlap. *)
LEMMA UnderWay ==
  ASSUME BeforeOver, NEW p \in Callers, NEW q \in Callers, p # q,
         call[p].at \in {"clear", "store"}, call[q].at \in {"clear", "store"}
  PROVE  Overlap(p, q)
BY DEF BeforeOver, Over, Overlap, NotBefore

(* A realm begins to hold the default only when the others are cleared. *)
LEMMA HoldingGrows ==
  ASSUME AccessTypeOK, Aims, NEW c \in Callers, AccessCall(c) \/ Later(c),
         NEW r \in RealmIds, Holding(r)', ~Holding(r)
  PROVE  ClearDefault(c) /\ call[c].target = r
<1>1. realm[r] # "default" /\ \A d \in Callers : ~Storing(d, r)
  BY DEF Holding
<1>2. Aimed(c) /\ realm \in [RealmIds -> RealmStates] /\ call \in [Callers -> Calls]
  BY CallTypes DEF Aims, AccessTypeOK
<1>3. realm'[r] # "default"
  <2>1. CASE AccessCall(c)
    <3>1. ASSUME NEW u \in UserIds, UserCreate(c, u) \/ UserDelete(c, u) PROVE UNCHANGED realm
      BY <3>1 DEF UserCreate, UserDelete
    <3>2. ASSUME NEW g \in GroupIds, IdentityGroupCreate(c, g) \/ IdentityGroupDelete(c, g)
          PROVE  UNCHANGED realm
      BY <3>2 DEF IdentityGroupCreate, IdentityGroupDelete
    <3>3. ASSUME NEW i \in Holders, IdentityGroupUpdate(c, i) PROVE UNCHANGED realm
      BY <3>3 DEF IdentityGroupUpdate
    <3>4. ASSUME NEW x \in RoleIds, RoleSave(c, x) \/ RoleDelete(c, x) \/ AclUpdate(c, x)
          PROVE  UNCHANGED realm
      BY <3>4 DEF RoleSave, RoleDelete, AclUpdate
    <3>5. ASSUME NEW x \in RealmIds, DomainCreate(c, x) \/ DomainUpdate(c, x) \/ DomainSync(c, x)
          PROVE  UNCHANGED realm
      BY <3>5 DEF DomainCreate, DomainUpdate, DomainSync
    <3>6. ASSUME NEW x \in RealmIds, DomainDelete(c, x) PROVE realm'[r] # "default"
      BY <1>1, <1>2, <3>6 DEF DomainDelete
    <3>7. UNCHANGED realm \/ realm'[r] # "default"
      BY <2>1, <3>1, <3>2, <3>3, <3>4, <3>5, <3>6 DEF AccessCall
    <3> QED
      BY <1>1, <3>7
  <2>2. CASE Later(c)
    <3>1. CASE StoreRealm(c)
      BY <1>1, <1>2, <3>1 DEF StoreRealm, Storing
    <3>2. CASE ClearDefault(c)
      BY <1>1, <3>2 DEF ClearDefault
    <3>3. CASE ~StoreRealm(c) /\ ~ClearDefault(c)
      BY <1>1, <2>2, <3>3 DEF Later, ClearMembers, FindNamed, InsertMember, RemoveMember, InsertRole,
         InsertGrant, Granting, Abandon
    <3> QED
      BY <3>1, <3>2, <3>3
  <2> QED
    BY <2>1, <2>2
<1>4. PICK d \in Callers : Storing(d, r)'
  BY <1>3 DEF Holding
<1>5. d = c
  <2>1. \A q \in Callers : q # c => call'[q] = call[q]
    BY CallStarts, StartCall, LaterCall
  <2> QED
    BY <1>1, <1>4, <2>1 DEF Storing
<1>6. call'[c].at = "store" /\ call'[c].target = r /\ call'[c].value = "default"
  BY <1>4, <1>5 DEF Storing
<1>7. CASE Later(c)
  <2>1. call[c].target = r /\ call[c].value = "default" /\ call[c].at # "store"
    BY <1>1, <1>6, <1>7, LaterCall DEF Storing
  <2>2. ASSUME NEW where, Goes(c, where) PROVE where = "store"
    BY <1>2, <1>6, <2>2 DEF Goes, Calls
  <2>3. ASSUME NEW item, NEW i, NEW where, Handled(c, item, i, where) PROVE where = "store"
    BY <1>2, <1>6, <2>3 DEF Handled, Calls
  <2>4. ~FindNamed(c)
    <3>1. ASSUME FindNamed(c) PROVE FALSE
      <4>1. PICK item \in call[c].todo :
              \/ Goes(c, "failed")
              \/ \E i \in Holders :
                   Handled(c, item, i, CASE call[c].op \in AclOps -> "role"
                                         [] call[c].op = "members" /\ item[1] < 3 -> "insert"
                                         [] OTHER -> "remove")
        BY <3>1 DEF FindNamed
      <4>2. (CASE call[c].op \in AclOps -> "role"
               [] call[c].op = "members" /\ item[1] < 3 -> "insert"
               [] OTHER -> "remove") # "store"
        OBVIOUS
      <4> QED
        BY <2>2, <2>3, <4>1, <4>2
    <3> QED
      BY <3>1
  <2>5. ClearDefault(c)
    BY <1>7, <2>1, <2>2, <2>4 DEF Later, ClearMembers, InsertMember, RemoveMember, InsertRole,
       InsertGrant, Granting, GoesOn, StoreRealm, Abandon
  <2> QED
    BY <2>1, <2>5
<1>8. CASE AccessCall(c)
  <2>1. ASSUME NEW where, NEW op, NEW t, NEW asked, NEW value, Begins(c, where, op, t, asked, value)
        PROVE  where = "store" /\ t = r /\ value = "default"
    BY <1>2, <1>6, <2>1 DEF Begins
  <2>2. ASSUME NEW u \in UserIds, UserCreate(c, u) \/ UserDelete(c, u) PROVE FALSE
    BY <2>1, <2>2 DEF UserCreate, UserDelete, Single
  <2>3. ASSUME NEW g \in GroupIds, IdentityGroupCreate(c, g) \/ IdentityGroupDelete(c, g) PROVE FALSE
    BY <2>1, <2>3 DEF IdentityGroupCreate, IdentityGroupDelete, Single
  <2>4. ASSUME NEW i \in Holders, IdentityGroupUpdate(c, i) PROVE FALSE
    <3>1. PICK asked : Begins(c, IF Replaces(asked) THEN "clear" ELSE "find", "members", i, asked, "none")
      BY <2>4 DEF IdentityGroupUpdate
    <3> QED
      BY <2>1, <3>1
  <2>5. ASSUME NEW x \in RoleIds, RoleSave(c, x) \/ RoleDelete(c, x) \/ AclUpdate(c, x) PROVE FALSE
    <3>1. ASSUME AclUpdate(c, x) PROVE FALSE
      <4>1. PICK op \in AclOps, asked \in Grantees, flag \in {"here", "below"} :
              Begins(c, "find", op, x, asked, flag)
        BY <3>1 DEF AclUpdate
      <4> QED
        BY <2>1, <4>1
    <3> QED
      BY <2>1, <2>5, <3>1 DEF RoleSave, RoleDelete, Single
  <2>6. ASSUME NEW x \in RealmIds, DomainCreate(c, x) \/ DomainDelete(c, x) PROVE FALSE
    <3>1. ASSUME DomainCreate(c, x) PROVE FALSE
      <4>1. PICK value : Begins(c, IF value = "default" THEN "clear" ELSE "store", "domain create",
                                x, {}, value)
        BY <3>1 DEF DomainCreate
      <4>2. (IF value = "default" THEN "clear" ELSE "store") = "store" /\ value = "default"
        <5> DEFINE where == IF value = "default" THEN "clear" ELSE "store"
        <5>1. Begins(c, where, "domain create", x, {}, value)
          BY <4>1
        <5> HIDE DEF where
        <5>2. where = "store" /\ value = "default"
          BY <1>2, <1>6, <5>1 DEF Begins
        <5> QED
          BY <5>2 DEF where
      <4> QED
        BY <4>2
    <3> QED
      BY <2>1, <2>6, <3>1 DEF DomainDelete, Single
  <2>7. ASSUME NEW x \in RealmIds, DomainUpdate(c, x) \/ DomainSync(c, x) PROVE FALSE
    <3>1. CASE DomainSync(c, x)
      <4>1. Begins(c, "store", "domain sync", x, {}, realm[x])
        BY <3>1 DEF DomainSync
      <4>2. x = r /\ realm[x] = "default"
        BY <1>2, <1>6, <4>1 DEF Begins
      <4> QED
        BY <1>1, <4>2
    <3>2. CASE DomainUpdate(c, x)
      <4>1. PICK sent \in {"default", "plain", "kept"} :
              Begins(c, IF sent = "default" THEN "clear" ELSE "store", "domain update", x, {},
                     IF sent = "kept" THEN realm[x] ELSE sent)
        BY <3>2 DEF DomainUpdate
      <4> DEFINE where == IF sent = "default" THEN "clear" ELSE "store"
                 value == IF sent = "kept" THEN realm[x] ELSE sent
      <4>2. Begins(c, where, "domain update", x, {}, value)
        BY <4>1
      <4> HIDE DEF where, value
      <4>3. where = "store" /\ x = r /\ value = "default"
        BY <1>2, <1>6, <4>2 DEF Begins
      <4>4. sent = "kept" /\ realm[r] = "default"
        BY <4>1, <4>3 DEF where, value
      <4> QED
        BY <1>1, <4>4
    <3> QED
      BY <2>7, <3>1, <3>2
  <2> QED
    BY <1>8, <2>2, <2>3, <2>4, <2>5, <2>6, <2>7 DEF AccessCall
<1> QED
  BY <1>7, <1>8

(* A clearing leaves no other realm the default, and what holds it besides *)
(* is about to be stored by a call under way beside this one.              *)
LEMMA ClearPairs ==
  ASSUME AccessTypeOK, Aims, BeforeOver, NEW c \in Callers, ClearDefault(c),
         NEW r \in RealmIds, call[c].target = r,
         NEW s \in RealmIds, s # r, Holding(s)', BeforeOver'
  PROVE  Pair(r, s)'
<1>1. Aimed(c) /\ call \in [Callers -> Calls] /\ realm \in [RealmIds -> RealmStates]
  BY CallTypes DEF Aims, AccessTypeOK
<1>2. /\ call[c].at = "clear" /\ call[c].op \in {"domain create", "domain update"}
      /\ call'[c].at = "store" /\ call'[c].op = call[c].op /\ call'[c].target = call[c].target
      /\ \A d \in Callers : d # c => call'[d] = call[d]
  <2>1. /\ call[c].at = "clear" /\ call[c].op \in {"domain create", "domain update"}
        /\ call' = [call EXCEPT ![c] = [@ EXCEPT !.at = "store"]]
    BY DEF ClearDefault, Goes
  <2>2. /\ call[c] \in Calls /\ call'[c] = [call[c] EXCEPT !.at = "store"]
        /\ \A d \in Callers : d # c => call'[d] = call[d]
    BY <1>1, <2>1, Zenon
  <2>3. /\ call'[c].at = "store" /\ call'[c].op = call[c].op
        /\ call'[c].target = call[c].target
    BY <2>2 DEF Calls
  <2> QED
    BY <2>1, <2>2, <2>3
<1>3. realm'[s] # "default"
  <2> SUFFICES ASSUME realm'[s] = "default" PROVE FALSE
    OBVIOUS
  <2>1. realm'[s] = IF realm[s] = "default" /\ (s # call[c].target \/ call[c].op = "domain create")
                    THEN "plain" ELSE realm[s]
    BY DEF ClearDefault
  <2> QED
    BY <2>1, <1>1, SMTT(30)
<1>4. PICK d \in Callers : Storing(d, s)'
  BY <1>3 DEF Holding
<1>5. d # c /\ call'[d] = call[d]
  BY <1>2, <1>4 DEF Storing
<1>6. call[d].op \in DomainOps
  BY <1>4, <1>5 DEF Storing, Aims, Aimed
<1>7. Writes(c, r)' /\ Writes(d, s)'
  BY <1>2, <1>4, <1>5, <1>6 DEF Writes, Storing, DomainOps
<1>8. /\ c # d /\ call'[c].at \in {"clear", "store"} /\ call'[d].at \in {"clear", "store"}
  BY <1>2, <1>4, <1>5 DEF Storing
<1>9. Overlap(c, d)'
  BY <1>8 DEF BeforeOver, Over, Overlap, NotBefore
<1> QED
  BY <1>2, <1>7, <1>9 DEF Pair

LEMMA HoldersStep ==
  ASSUME AccessTypeOK, Aims, BeforeOver, HoldersPaired,
         NEW c \in Callers, AccessCall(c) \/ Later(c)
  PROVE  HoldersPaired'
<1>1. BeforeOver'
  BY BeforeStep
<1> SUFFICES ASSUME NEW r \in RealmIds, NEW s \in RealmIds, Holding(r)', Holding(s)', r # s
             PROVE  Pair(r, s)'
  BY DEF HoldersPaired
<1>2. CASE Holding(r) /\ Holding(s)
  BY <1>2, PairStays DEF HoldersPaired
<1>3. CASE ~Holding(r)
  <2>1. ClearDefault(c) /\ call[c].target = r
    BY <1>3, HoldingGrows
  <2> QED
    BY <1>1, <2>1, ClearPairs
<1>4. CASE ~Holding(s)
  <2>1. ClearDefault(c) /\ call[c].target = s
    BY <1>4, HoldingGrows
  <2>2. Pair(s, r)'
    BY <1>1, <2>1, ClearPairs
  <2> QED
    BY <2>2 DEF Pair, Overlap
<1> QED
  BY <1>2, <1>3, <1>4

LEMMA HoldersDefault == HoldersPaired => OneDefaultRealm
BY DEF HoldersPaired, OneDefaultRealm, Holding, Pair

(***************************************************************************)
(* What a confirmed call leaves.  A call that lists names has, for each of *)
(* them, either still to handle it, or just found its row, or done what it *)
(* means to do, unless a call that had not ended when it began undid it.   *)
(***************************************************************************)
Found(c, loops) == holder[call[c].found] = Nobody \/ Lists(c, holder[call[c].found], loops)

(* Where a call stands in its list: the third loop comes last, and what it *)
(* has found is a row whose name it lists.                                 *)
Steered(c) ==
  /\ call[c].todo \subseteq call[c].asked
  /\ call[c].op \in AclOps =>
       /\ \A item \in call[c].asked : item[1] \in {1, 2}
       /\ call[c].at # "clear"
  /\ call[c].op \in {"acl", "acl delete", "members"} /\ call[c].at = "done" => call[c].todo = {}
  /\ call[c].op = "members" /\ call[c].at = "clear" =>
       Replaces(call[c].asked) /\ call[c].todo = call[c].asked
  /\ call[c].at \in {"role", "grant", "insert"} => Found(c, {1, 2})
  /\ call[c].at = "remove" => Found(c, {3})

AllRemovals(c) == \A n \in HolderNames : <<3, n>> \in call[c].asked => <<3, n>> \in call[c].todo

OnlyRemovals(c) == \A item \in call[c].todo : item[1] = 3

Ordered(c) ==
  call[c].op = "members" =>
    /\ AllRemovals(c) \/ OnlyRemovals(c)
    /\ call[c].at = "insert" => AllRemovals(c)

Awaits(c, n) == \E loop \in {1, 2} : <<loop, n>> \in call[c].todo

(* Another call answers for the name n. *)
GrantUndone(c, n) ==
  \E d \in Callers : NotBefore(d, c) /\
    \/ call[d].op \in AclOps /\ call[d].target = call[c].target /\ Lists(d, n, {1, 2})
    \/ Deletes(d, n)

GrantThere(c, n) ==
  \E i \in Holders : holder[i] = n /\ grant[<<i, call[c].target>>] = call[c].value

Granters(c) ==
  call[c].op \in AclOps /\ call[c].at # "failed" =>
    \A n \in HolderNames : Lists(c, n, {1, 2}) =>
      \/ GrantUndone(c, n) \/ Awaits(c, n) \/ GrantThere(c, n)
      \/ call[c].at \in {"role", "grant"} /\ holder[call[c].found] = n

AddedBeside(c, n) ==
  \E d \in Callers : NotBefore(d, c) /\ Updates(d, call[c].target) /\ Lists(d, n, {1, 2})

RemovedBeside(c, u) ==
  \E d \in Callers : NotBefore(d, c) /\
    \/ Updates(d, call[c].target) /\ (Replaces(call[d].asked) \/ Lists(d, u, {3}))
    \/ Deletes(d, u) \/ \E n \in GroupIds : Deletes(d, n)

MemberThere(c, u) == \E p \in Holders : holder[p] = u /\ <<call[c].target, p>> \in members

Replacing(c) == call[c].op = "members" /\ call[c].at # "failed" /\ Replaces(call[c].asked)

(* The members there are once the clearing is done. *)
NoneBesides(c) ==
  Replacing(c) /\ call[c].at # "clear" =>
    \A p \in Holders : <<call[c].target, p>> \in members =>
      \/ AddedBeside(c, holder[p])
      \/ /\ Lists(c, holder[p], {1, 2})
         /\ \/ ~Lists(c, holder[p], {3})
            \/ <<3, holder[p]>> \in call[c].todo
            \/ call[c].at = "remove" /\ call[c].found = p

NoneMissing(c) ==
  Replacing(c) =>
    \A u \in UserIds : Keeps(c, u) =>
      \/ RemovedBeside(c, u) \/ Awaits(c, u) \/ MemberThere(c, u)
      \/ call[c].at = "insert" /\ holder[call[c].found] = u

Leaves(c) == Steered(c) /\ Ordered(c) /\ Granters(c) /\ NoneBesides(c) /\ NoneMissing(c)

(* A call that acts had not ended when one that is under way began. *)
LEMMA ActorNotBefore ==
  ASSUME AccessTypeOK, Aims, BeforeOver, NEW c \in Callers, AccessCall(c) \/ Later(c),
         NEW d \in Callers, d # c, call[d].at # "idle"
  PROVE  /\ NotBefore(c, d)' /\ call'[d] = call[d]
<1>1. call'[d] = call[d] /\ call'[c].at # "idle" /\ ~Over(c)
  <2>1. CASE Later(c)
    BY <2>1, LaterCall DEF Over
  <2>2. CASE AccessCall(c)
    BY <2>2, CallStarts, StartCall DEF Over
  <2> QED
    BY <2>1, <2>2
<1> QED
  BY <1>1 DEF BeforeOver, NotBefore

(* What another call answers for, it answers for from then on. *)
LEMMA ExcusesStay ==
  ASSUME AccessTypeOK, Aims, NEW c \in Callers, AccessCall(c) \/ Later(c),
         NEW d \in Callers, call[d].at # "idle", NEW n
  PROVE  /\ GrantUndone(d, n) => GrantUndone(d, n)'
         /\ AddedBeside(d, n) => AddedBeside(d, n)'
         /\ RemovedBeside(d, n) => RemovedBeside(d, n)'
<1>1. \A e \in Callers : call[e].at # "idle" =>
        /\ call'[e].at # "idle" /\ call'[e].op = call[e].op /\ call'[e].target = call[e].target
        /\ call'[e].asked = call[e].asked /\ call'[e].before = call[e].before
  BY CallsSteady
<1>2. \A e \in Callers : NotBefore(e, d) => NotBefore(e, d)' /\ call[e].at # "idle"
  BY <1>1 DEF NotBefore
<1>3. GrantUndone(d, n) => GrantUndone(d, n)'
  BY <1>1, <1>2 DEF GrantUndone, Lists, Deletes
<1>4. AddedBeside(d, n) => AddedBeside(d, n)'
  BY <1>1, <1>2 DEF AddedBeside, Lists, Updates
<1>5. RemovedBeside(d, n) => RemovedBeside(d, n)'
  BY <1>1, <1>2 DEF RemovedBeside, Lists, Updates, Deletes, Replaces
<1> QED
  BY <1>3, <1>4, <1>5

LEMMA SingleCall ==
  ASSUME AccessTypeOK, NEW c \in Callers, NEW op \in Ops, NEW n \in Targets, Single(c, op, n)
  PROVE  call'[c].op = op /\ call'[c].target = n /\ call'[c].at = "done" /\ call[c].at = "idle"
<1>1. Begins(c, "done", op, n, {}, "none")
  BY DEF Single
<1>2. "done" \in Places /\ {} \in SUBSET Listed /\ "none" \in RealmStates \cup GrantStates
  BY DEF Places, RealmStates
<1> QED
  BY <1>1, <1>2, BeginsCall

(* What a beginning call does to holders, members and entries: it gives an *)
(* unused id a name, or drops a name, or none of both.                     *)
LEMMA StartTables ==
  ASSUME AccessTypeOK, Aims, NEW c \in Callers, AccessCall(c)
  PROVE  \/ /\ \A i \in Holders : holder[i] # Nobody => holder'[i] = holder[i]
            /\ UNCHANGED <<members, grant>>
         \/ \E n \in HolderNames : Drop(n) /\ Deletes(c, n)'
<1>1. holder \in [Holders -> HolderNames \cup {Nobody}] /\ c \in Holders
  BY DEF AccessTypeOK, Holders
<1>2. \A n \in HolderNames : n \in Targets /\ "delete" \in Ops
  BY DEF Targets, Ops
<1>3. call[c].at = "idle" /\ holder[c] = Nobody
  BY CallStarts DEF Starts, Begins, Aims
<1>4. ASSUME NEW n, holder' = [holder EXCEPT ![c] = n]
      PROVE  \A i \in Holders : holder[i] # Nobody => holder'[i] = holder[i]
  BY <1>1, <1>3, <1>4
<1>5. ASSUME NEW n \in HolderNames, Single(c, "delete", n) PROVE Deletes(c, n)'
  BY <1>2, <1>5, SingleCall DEF Deletes
<1>6. ASSUME NEW u \in UserIds, UserCreate(c, u) \/ UserDelete(c, u)
      PROVE  \/ /\ \A i \in Holders : holder[i] # Nobody => holder'[i] = holder[i]
                /\ UNCHANGED <<members, grant>>
             \/ \E n \in HolderNames : Drop(n) /\ Deletes(c, n)'
  <2>1. CASE UserCreate(c, u)
    BY <1>4, <2>1 DEF UserCreate
  <2>2. CASE UserDelete(c, u)
    <3>1. u \in HolderNames /\ Drop(u) /\ Single(c, "delete", u)
      BY <2>2 DEF UserDelete, HolderNames
    <3> QED
      BY <1>5, <3>1
  <2> QED
    BY <1>6, <2>1, <2>2
<1>7. ASSUME NEW g \in GroupIds, IdentityGroupCreate(c, g) \/ IdentityGroupDelete(c, g)
      PROVE  \/ /\ \A i \in Holders : holder[i] # Nobody => holder'[i] = holder[i]
                /\ UNCHANGED <<members, grant>>
             \/ \E n \in HolderNames : Drop(n) /\ Deletes(c, n)'
  <2>1. CASE IdentityGroupCreate(c, g)
    BY <1>4, <2>1 DEF IdentityGroupCreate
  <2>2. CASE IdentityGroupDelete(c, g)
    <3>1. g \in HolderNames /\ Drop(g) /\ Single(c, "delete", g)
      BY <2>2 DEF IdentityGroupDelete, HolderNames
    <3> QED
      BY <1>5, <3>1
  <2> QED
    BY <1>7, <2>1, <2>2
<1>8. ASSUME \/ \E i \in Holders : IdentityGroupUpdate(c, i)
             \/ \E r \in RoleIds : RoleSave(c, r) \/ RoleDelete(c, r) \/ AclUpdate(c, r)
             \/ \E r \in RealmIds : DomainCreate(c, r) \/ DomainUpdate(c, r)
                                     \/ DomainSync(c, r) \/ DomainDelete(c, r)
      PROVE  UNCHANGED <<holder, members, grant>>
  BY <1>8 DEF IdentityGroupUpdate, RoleSave, RoleDelete, AclUpdate, DomainCreate, DomainUpdate,
              DomainSync, DomainDelete
<1> QED
  BY <1>6, <1>7, <1>8 DEF AccessCall

LEMMA LaterHolder ==
  ASSUME NEW c \in Callers, Later(c)
  PROVE  holder' = holder
BY DEF Later, ClearMembers, FindNamed, InsertMember, RemoveMember, InsertRole, InsertGrant,
       Granting, ClearDefault, StoreRealm, Abandon

(* A named row keeps its name until it is deleted by name. *)
LEMMA NameStays ==
  ASSUME AccessTypeOK, Aims, NEW c \in Callers, AccessCall(c) \/ Later(c),
         NEW i \in Holders, NEW n, holder[i] = n, n # Nobody
  PROVE  holder'[i] = n \/ Deletes(c, n)'
<1>1. CASE Later(c)
  BY <1>1, LaterHolder
<1>2. CASE AccessCall(c)
  <2>1. ASSUME NEW m \in HolderNames, Drop(m), Deletes(c, m)'
        PROVE  holder'[i] = n \/ Deletes(c, n)'
    BY <2>1, DropNames
  <2> QED
    BY <1>2, <2>1, StartTables
<1> QED
  BY <1>1, <1>2

(* An entry stays until its holder is deleted or a call grants it anew. *)
LEMMA GrantStays ==
  ASSUME AccessTypeOK, Aims, NEW c \in Callers, AccessCall(c) \/ Later(c),
         NEW i \in Holders, NEW r \in RoleIds, NEW n, holder[i] = n, n # Nobody
  PROVE  \/ holder'[i] = n /\ grant'[<<i, r>>] = grant[<<i, r>>]
         \/ Deletes(c, n)'
         \/ InsertGrant(c) /\ call[c].found = i /\ call[c].target = r
<1>1. CASE Later(c) /\ ~InsertGrant(c)
  BY <1>1, LaterHolder DEF Later, ClearMembers, FindNamed, InsertMember, RemoveMember, InsertRole,
     ClearDefault, StoreRealm, Abandon
<1>2. CASE InsertGrant(c)
  <2>1. holder' = holder /\ (grant' = grant \/
          grant' = [grant EXCEPT ![<<call[c].found, call[c].target>>] = call[c].value])
    BY <1>2 DEF InsertGrant, Granting
  <2>2. grant \in [Holders \X RoleIds -> GrantStates]
    BY DEF AccessTypeOK
  <2> QED
    BY <1>2, <2>1, <2>2
<1>3. CASE AccessCall(c)
  <2>1. ASSUME NEW m \in HolderNames, Drop(m), Deletes(c, m)'
        PROVE  (holder'[i] = n /\ grant'[<<i, r>>] = grant[<<i, r>>]) \/ Deletes(c, n)'
    BY <2>1, DropNames
  <2> QED
    BY <1>3, <2>1, StartTables
<1> QED
  BY <1>1, <1>2, <1>3

(* How a member comes and goes. *)
LEMMA MemberMoves ==
  ASSUME AccessTypeOK, Aims, ReferencesWhole, NEW c \in Callers, AccessCall(c) \/ Later(c),
         NEW g \in Holders, NEW p \in Holders
  PROVE  /\ <<g, p>> \in members' /\ <<g, p>> \notin members =>
              InsertMember(c) /\ call[c].target = g /\ call[c].found = p
         /\ \A u : <<g, p>> \in members /\ <<g, p>> \notin members' /\ holder[p] = u =>
              \/ ClearMembers(c) /\ call[c].target = g
              \/ RemoveMember(c) /\ call[c].target = g /\ call[c].found = p
              \/ Deletes(c, u)' \/ \E n \in GroupIds : Deletes(c, n)'
<1>1. CASE Later(c)
  <2>1. CASE InsertMember(c)
    <3>1. members' = members \/ members' = members \cup {<<call[c].target, call[c].found>>}
      BY <2>1 DEF InsertMember
    <3> QED
      BY <2>1, <3>1
  <2>2. CASE RemoveMember(c)
    <3>1. members' = members \ {<<call[c].target, call[c].found>>}
      BY <2>2 DEF RemoveMember
    <3> QED
      BY <2>2, <3>1
  <2>3. CASE ClearMembers(c)
    <3>1. members' = {m \in members : m[1] # call[c].target}
      BY <2>3 DEF ClearMembers
    <3> QED
      BY <2>3, <3>1
  <2>4. CASE ~InsertMember(c) /\ ~RemoveMember(c) /\ ~ClearMembers(c)
    <3>1. members' = members
      BY <1>1, <2>4 DEF Later, FindNamed, InsertRole, InsertGrant, Granting, ClearDefault,
         StoreRealm, Abandon
    <3> QED
      BY <3>1
  <2> QED
    BY <2>1, <2>2, <2>3, <2>4
<1>2. CASE AccessCall(c)
  <2>1. ASSUME NEW m \in HolderNames, Drop(m), Deletes(c, m)', <<g, p>> \in members,
               <<g, p>> \notin members', NEW u, holder[p] = u
        PROVE  Deletes(c, u)' \/ \E n \in GroupIds : Deletes(c, n)'
    <3>1. holder[g] = m \/ holder[p] = m
      BY <2>1, DropNames
    <3>2. holder[g] \in GroupIds
      BY <2>1 DEF ReferencesWhole
    <3>3. CASE holder[g] = m
      BY <2>1, <3>2, <3>3
    <3>4. CASE holder[p] = m
      BY <2>1, <3>4
    <3> QED
      BY <3>1, <3>3, <3>4
  <2>2. ASSUME NEW m \in HolderNames, Drop(m) PROVE members' \subseteq members
    BY <2>2, DropNames
  <2> QED
    BY <1>2, <2>1, <2>2, StartTables
<1> QED
  BY <1>1, <1>2

(***************************************************************************)
(* Where a step takes the call that makes it.                              *)
(***************************************************************************)
LEMMA GoesOnCall ==
  ASSUME AccessTypeOK, NEW c \in Callers, GoesOn(c)
  PROVE  /\ call'[c].todo = call[c].todo /\ call'[c].found = call[c].found
         /\ call'[c].at = IF call[c].todo = {} THEN "done" ELSE "find"
BY GoesCall DEF GoesOn, Places

LEMMA FindsCall ==
  ASSUME AccessTypeOK, Aims, NEW c \in Callers, FindNamed(c)
  PROVE  /\ call[c].at = "find" /\ call[c].op \in {"members", "acl", "acl delete"}
         /\ \/ call'[c].at = "failed" /\ call'[c].todo = call[c].todo /\ call'[c].found = call[c].found
            \/ \E item \in call[c].todo, i \in Holders :
                 /\ \A other \in call[c].todo : item[1] <= other[1]
                 /\ holder[i] = item[2] /\ call'[c].found = i /\ call'[c].todo = call[c].todo \ {item}
                 /\ call'[c].at \in {"role", "insert", "remove"}
                 /\ call'[c].at = "role" <=> call[c].op \in AclOps
                 /\ call'[c].at = "insert" <=> call[c].op = "members" /\ item[1] < 3
<1>1. PICK item \in call[c].todo :
        /\ \A other \in call[c].todo : item[1] <= other[1]
        /\ \/ Goes(c, "failed")
           \/ \E i \in Holders :
                /\ holder[i] = item[2]
                /\ Handled(c, item, i, CASE call[c].op \in AclOps -> "role"
                                         [] call[c].op = "members" /\ item[1] < 3 -> "insert"
                                         [] OTHER -> "remove")
  BY DEF FindNamed
<1>2. call[c].at = "find" /\ call[c].op \in {"members", "acl", "acl delete"}
  BY DEF FindNamed, Aims, Aimed
<1>3. CASE Goes(c, "failed")
  BY <1>2, <1>3, GoesCall DEF Places
<1>4. CASE ~Goes(c, "failed")
  <2>1. PICK i \in Holders :
          /\ holder[i] = item[2]
          /\ Handled(c, item, i, CASE call[c].op \in AclOps -> "role"
                                   [] call[c].op = "members" /\ item[1] < 3 -> "insert"
                                   [] OTHER -> "remove")
    BY <1>1, <1>4
  <2>2. PICK where : where = CASE call[c].op \in AclOps -> "role"
                               [] call[c].op = "members" /\ item[1] < 3 -> "insert"
                               [] OTHER -> "remove"
    OBVIOUS
  <2>3. /\ where \in {"role", "insert", "remove"}
        /\ where = "role" <=> call[c].op \in AclOps
        /\ where = "insert" <=> call[c].op = "members" /\ item[1] < 3
    BY <1>2, <2>2 DEF AclOps
  <2>4. Handled(c, item, i, where)
    BY <2>1, <2>2
  <2>5. call'[c].at = where /\ call'[c].found = i /\ call'[c].todo = call[c].todo \ {item}
    BY <2>3, <2>4, HandledCall DEF Places
  <2> QED
    BY <1>1, <1>2, <2>1, <2>3, <2>5
<1> QED
  BY <1>3, <1>4

(* Every other step: what is left to handle, and what was found, stay. *)
LEMMA RestCall ==
  ASSUME AccessTypeOK, Aims, NEW c \in Callers, Later(c), ~FindNamed(c)
  PROVE  /\ call'[c].todo = call[c].todo /\ call'[c].found = call[c].found
         /\ call[c].op \in AclOps =>
              \/ call'[c].at = "failed"
              \/ InsertRole(c) /\ call[c].at = "role" /\ call'[c].at = "grant"
              \/ /\ InsertGrant(c) /\ call[c].at = "grant" /\ holder[call[c].found] # Nobody
                 /\ grant' = [grant EXCEPT ![<<call[c].found, call[c].target>>] = call[c].value]
                 /\ call'[c].at = IF call[c].todo = {} THEN "done" ELSE "find"
         /\ call[c].op = "members" =>
              \/ call'[c].at = "failed"
              \/ ClearMembers(c) /\ call[c].at = "clear" /\ call'[c].at = "find"
              \/ /\ InsertMember(c) /\ call[c].at = "insert" /\ holder[call[c].found] # Nobody
                 /\ members' = members \cup {<<call[c].target, call[c].found>>}
                 /\ call'[c].at = IF call[c].todo = {} THEN "done" ELSE "find"
              \/ /\ RemoveMember(c) /\ call[c].at = "remove"
                 /\ call'[c].at = IF call[c].todo = {} THEN "done" ELSE "find"
         /\ call[c].op \notin {"acl", "acl delete", "members"} => call'[c].at \in {"store", "done", "failed"}
<1>0. Aimed(c) /\ call[c] \in Calls
  BY CallTypes DEF Aims
<1>1. ASSUME NEW where \in Places, Goes(c, where)
      PROVE  call'[c].at = where /\ call'[c].todo = call[c].todo /\ call'[c].found = call[c].found
  BY <1>1, GoesCall
<1>2. CASE InsertMember(c)
  <2>1. call[c].op = "members" /\ call[c].at = "insert"
    BY <1>0, <1>2 DEF InsertMember, Aimed
  <2>2. CASE holder[call[c].target] # Nobody /\ holder[call[c].found] # Nobody
    BY <1>2, <2>1, <2>2, GoesOnCall DEF InsertMember, AclOps
  <2>3. CASE ~(holder[call[c].target] # Nobody /\ holder[call[c].found] # Nobody)
    BY <1>1, <1>2, <2>1, <2>3 DEF InsertMember, Places
  <2> QED
    BY <2>2, <2>3
<1>3. CASE RemoveMember(c)
  <2>1. call[c].op = "members" /\ call[c].at = "remove"
    BY <1>0, <1>3 DEF RemoveMember, Aimed
  <2> QED
    BY <1>3, <2>1, GoesOnCall DEF RemoveMember, AclOps
<1>4. CASE InsertGrant(c)
  <2>1. call[c].op \in AclOps /\ call[c].at = "grant"
    BY <1>0, <1>4 DEF InsertGrant, Granting, Aimed
  <2>2. CASE holder[call[c].found] # Nobody /\ call[c].target \in roles
    BY <1>4, <2>1, <2>2, GoesOnCall DEF InsertGrant, Granting, AclOps
  <2>3. CASE ~(holder[call[c].found] # Nobody /\ call[c].target \in roles)
    BY <1>1, <1>4, <2>1, <2>3 DEF InsertGrant, Granting, Places
  <2> QED
    BY <2>2, <2>3
<1>5. CASE InsertRole(c)
  <2>1. call[c].op \in AclOps /\ call[c].at = "role"
    BY <1>0, <1>5 DEF InsertRole, Aimed
  <2> QED
    BY <1>1, <1>5, <2>1 DEF InsertRole, Places, AclOps
<1>6. CASE ClearMembers(c)
  <2>1. call[c].op = "members" /\ call[c].at = "clear"
    BY <1>6 DEF ClearMembers
  <2> QED
    BY <1>1, <1>6, <2>1 DEF ClearMembers, Places, AclOps
<1>7. CASE ClearDefault(c)
  <2>1. call[c].op \notin {"acl", "acl delete", "members"}
    BY <1>7 DEF ClearDefault
  <2> QED
    BY <1>1, <1>7, <2>1 DEF ClearDefault, Places, AclOps
<1>8. CASE StoreRealm(c)
  <2>1. call[c].op \notin {"acl", "acl delete", "members"}
    BY <1>0, <1>8 DEF StoreRealm, Aimed, DomainOps
  <2>2. Goes(c, "done") \/ Goes(c, "failed")
    BY <1>8 DEF StoreRealm
  <2> QED
    BY <1>1, <2>1, <2>2 DEF Places, AclOps
<1>9. CASE Abandon(c)
  <2>1. Goes(c, "failed")
    BY <1>9 DEF Abandon
  <2> QED
    BY <1>1, <2>1 DEF Places
<1> QED
  BY <1>2, <1>3, <1>4, <1>5, <1>6, <1>7, <1>8, <1>9 DEF Later

LEMMA OthersStill ==
  ASSUME AccessTypeOK, Aims, NEW c \in Callers, AccessCall(c) \/ Later(c)
  PROVE  \A d \in Callers : d # c => call'[d] = call[d]
BY CallStarts, StartCall, LaterCall

(* The id of a row that is there or was gets no other name. *)
LEMMA BornNamed ==
  ASSUME AccessTypeOK, Aims, NEW c \in Callers, AccessCall(c) \/ Later(c), NEW i, Born(i)
  PROVE  i \in Holders /\ holder'[i] \in {holder[i], Nobody}
<1>1. i \in Holders /\ (i # c \/ call[c].at # "idle")
  BY DEF Born
<1> QED
  BY <1>1, HolderMoves

LEMMA MembersBorn ==
  ASSUME AccessTypeOK, Aims, ReferencesWhole
  PROVE  \A m \in members : Born(m[1]) /\ Born(m[2])
<1>1. Nobody \notin GroupIds \cup UserIds
  BY AccessConstants DEF HolderNames
<1> QED
  BY <1>1, NamedBorn DEF ReferencesWhole, AccessTypeOK

(***************************************************************************)
(* A call that begins has everything still to handle.                      *)
(***************************************************************************)
LEMMA StartLeaves ==
  ASSUME AccessTypeOK, Aims, NEW c \in Callers, AccessCall(c)
  PROVE  Leaves(c)'
<1>1. PICK where \in Places, op \in Ops, target \in Targets, asked \in SUBSET Listed,
           value \in RealmStates \cup GrantStates :
             Begins(c, where, op, target, asked, value) /\ Fits(where, op, target, asked, value)
  BY CallStarts DEF Starts
<1>2. /\ call'[c].at = where /\ call'[c].op = op /\ call'[c].asked = asked /\ call'[c].todo = asked
  BY <1>1, BeginsCall
<1>3. /\ where \notin {"idle", "insert", "remove", "role", "grant"}
      /\ op = "members" => where = IF Replaces(asked) THEN "clear" ELSE "find"
      /\ op \in AclOps => where = "find" /\ \A item \in asked : item[1] \in {1, 2}
  BY <1>1 DEF Fits
<1>4. Steered(c)' /\ Ordered(c)'
  BY <1>2, <1>3 DEF Steered, Ordered, AllRemovals, AclOps
<1>5. Granters(c)'
  BY <1>2, <1>3 DEF Granters, Lists, Awaits
<1>6. NoneBesides(c)'
  BY <1>2, <1>3 DEF NoneBesides, Replacing
<1>7. NoneMissing(c)'
  BY <1>2, <1>3 DEF NoneMissing, Keeps, Lists, Awaits
<1> QED
  BY <1>4, <1>5, <1>6, <1>7 DEF Leaves

(***************************************************************************)
(* A call that stands still: what another call does to what it left makes  *)
(* that other call answer for it.                                          *)
(***************************************************************************)
LEMMA StillSteered ==
  ASSUME AccessTypeOK, Aims, NEW c \in Callers, AccessCall(c) \/ Later(c),
         NEW d \in Callers, d # c, Steered(d), Ordered(d)
  PROVE  Steered(d)' /\ Ordered(d)'
<1>1. call'[d] = call[d]
  BY OthersStill
<1>2. call[d].at \in {"role", "grant", "insert", "remove"} =>
        holder'[call[d].found] \in {holder[call[d].found], Nobody}
  BY BornNamed DEF Aims, Aimed
<1>3. \A loops : call[d].at \in {"role", "grant", "insert", "remove"} /\ Found(d, loops)
                   => Found(d, loops)'
  BY <1>1, <1>2 DEF Found, Lists
<1>4. Steered(d)'
  BY <1>1, <1>3 DEF Steered, Replaces
<1>5. Ordered(d)'
  BY <1>1 DEF Ordered, AllRemovals, OnlyRemovals
<1> QED
  BY <1>4, <1>5

LEMMA StillGranters ==
  ASSUME AccessTypeOK, Aims, BeforeOver, NEW c \in Callers, AccessCall(c) \/ Later(c),
         Steered(c), NEW d \in Callers, d # c, Granters(d)
  PROVE  Granters(d)'
<1> SUFFICES ASSUME call'[d].op \in AclOps, call'[d].at # "failed",
                    NEW n \in HolderNames, Lists(d, n, {1, 2})'
             PROVE  \/ GrantUndone(d, n)' \/ Awaits(d, n)' \/ GrantThere(d, n)'
                    \/ call'[d].at \in {"role", "grant"} /\ holder'[call'[d].found] = n
  BY DEF Granters
<1>1. call'[d] = call[d] /\ Aimed(d) /\ Aimed(c) /\ n # Nobody
  BY OthersStill, AccessConstants DEF Aims
<1>2. call[d].at # "idle" /\ call[d].target \in RoleIds
  BY <1>1 DEF Aimed, AclOps
<1>3. NotBefore(c, d)'
  BY <1>2, ActorNotBefore
<1>4. Deletes(c, n)' => GrantUndone(d, n)'
  BY <1>3 DEF GrantUndone
<1>5. GrantUndone(d, n) => GrantUndone(d, n)'
  BY <1>2, ExcusesStay
<1>6. Awaits(d, n) => Awaits(d, n)'
  BY <1>1 DEF Awaits
<1>7. ASSUME call[d].at \in {"role", "grant"}, holder[call[d].found] = n
      PROVE  holder'[call'[d].found] = n \/ Deletes(c, n)'
  <2>1. call[d].found \in Holders
    BY <1>1, <1>7 DEF Aimed, Born
  <2> QED
    BY <1>1, <1>7, <2>1, NameStays
<1>8. ASSUME GrantThere(d, n) PROVE GrantThere(d, n)' \/ GrantUndone(d, n)'
  <2>1. PICK i \in Holders : holder[i] = n /\ grant[<<i, call[d].target>>] = call[d].value
    BY <1>8 DEF GrantThere
  <2>2. \/ holder'[i] = n /\ grant'[<<i, call[d].target>>] = grant[<<i, call[d].target>>]
        \/ Deletes(c, n)'
        \/ InsertGrant(c) /\ call[c].found = i /\ call[c].target = call[d].target
    BY <1>1, <1>2, <2>1, GrantStays
  <2>3. CASE holder'[i] = n /\ grant'[<<i, call[d].target>>] = grant[<<i, call[d].target>>]
    BY <1>1, <2>1, <2>3 DEF GrantThere
  <2>4. CASE InsertGrant(c) /\ call[c].found = i /\ call[c].target = call[d].target
    <3>1. call[c].at = "grant" /\ call[c].op \in AclOps
      BY <1>1, <2>4 DEF InsertGrant, Granting, Aimed
    <3>2. Lists(c, n, {1, 2})
      BY <1>1, <2>1, <2>4, <3>1 DEF Steered, Found
    <3>3. call'[c].op \in AclOps /\ call'[c].target = call'[d].target /\ Lists(c, n, {1, 2})'
      BY <1>1, <2>4, <3>1, <3>2, CallsSteady DEF Lists
    <3> QED
      BY <1>3, <3>3 DEF GrantUndone
  <2> QED
    BY <1>4, <2>2, <2>3, <2>4
<1>9. \/ GrantUndone(d, n) \/ Awaits(d, n) \/ GrantThere(d, n)
      \/ call[d].at \in {"role", "grant"} /\ holder[call[d].found] = n
  BY <1>1 DEF Granters, Lists
<1> QED
  BY <1>1, <1>4, <1>5, <1>6, <1>7, <1>8, <1>9

LEMMA StillBesides ==
  ASSUME AccessTypeOK, Aims, ReferencesWhole, BeforeOver, ReferencesWhole',
         NEW c \in Callers, AccessCall(c) \/ Later(c),
         Steered(c), NEW d \in Callers, d # c, NoneBesides(d)
  PROVE  NoneBesides(d)'
<1>1. call'[d] = call[d] /\ Aimed(d) /\ Aimed(c) /\ Nobody \notin UserIds
  BY OthersStill, AccessConstants DEF Aims, HolderNames
<1> SUFFICES ASSUME Replacing(d)', call[d].at # "clear",
                    NEW p \in Holders, <<call[d].target, p>> \in members'
             PROVE  \/ AddedBeside(d, holder[p])'
                    \/ /\ Lists(d, holder[p], {1, 2})'
                       /\ \/ ~Lists(d, holder[p], {3})'
                          \/ <<3, holder'[p]>> \in call[d].todo
                          \/ call[d].at = "remove" /\ call[d].found = p
  BY <1>1 DEF NoneBesides
<1>2. PICK n : n = holder'[p]
  OBVIOUS
<1>3. n \in UserIds /\ n # Nobody
  BY <1>1, <1>2 DEF ReferencesWhole
<1>4. call[d].at # "idle" /\ call[d].target \in Holders
  BY <1>1 DEF Aimed, Replacing, Born
<1>5. NotBefore(c, d)'
  BY <1>4, ActorNotBefore
<1>6. \/ AddedBeside(d, n)'
      \/ /\ Lists(d, n, {1, 2})
         /\ \/ ~Lists(d, n, {3})
            \/ <<3, n>> \in call[d].todo
            \/ call[d].at = "remove" /\ call[d].found = p
  <2>1. CASE <<call[d].target, p>> \in members
    <3>1. holder[p] = n
      BY <1>2, <1>3, <2>1, MembersBorn, BornNamed
    <3>2. Replacing(d)
      BY <1>1 DEF Replacing, Replaces
    <3>3. \/ AddedBeside(d, n)
          \/ /\ Lists(d, n, {1, 2})
             /\ \/ ~Lists(d, n, {3})
                \/ <<3, n>> \in call[d].todo
                \/ call[d].at = "remove" /\ call[d].found = p
      BY <2>1, <3>1, <3>2 DEF NoneBesides
    <3>4. AddedBeside(d, n) => AddedBeside(d, n)'
      BY <1>4, ExcusesStay
    <3> QED
      BY <3>3, <3>4
  <2>2. CASE <<call[d].target, p>> \notin members
    <3>1. InsertMember(c) /\ call[c].target = call[d].target /\ call[c].found = p
      BY <1>4, <2>2, MemberMoves
    <3>2. call[c].at = "insert" /\ call[c].op = "members" /\ holder[p] = n
      BY <1>1, <1>2, <3>1 DEF InsertMember, Aimed
    <3>3. Lists(c, n, {1, 2})
      BY <1>3, <3>1, <3>2 DEF Steered, Found
    <3>4. Updates(c, call[d].target)' /\ Lists(c, n, {1, 2})'
      <4>1. call'[c].op = "members" /\ call'[c].target = call'[d].target
            /\ call'[c].asked = call[c].asked
        BY <1>1, <3>1, <3>2, CallsSteady
      <4> QED
        BY <3>3, <4>1 DEF Lists, Updates
    <3> QED
      BY <1>5, <3>4 DEF AddedBeside
  <2> QED
    BY <2>1, <2>2
<1>7. \A loops : Lists(d, n, loops) <=> Lists(d, n, loops)'
  BY <1>1 DEF Lists
<1> QED
  BY <1>2, <1>6, <1>7 DEF Lists, AddedBeside

LEMMA StillMissing ==
  ASSUME AccessTypeOK, Aims, ReferencesWhole, BeforeOver,
         NEW c \in Callers, AccessCall(c) \/ Later(c),
         Steered(c), NEW d \in Callers, d # c, NoneMissing(d)
  PROVE  NoneMissing(d)'
<1>1. call'[d] = call[d] /\ Aimed(d) /\ Aimed(c) /\ Nobody \notin UserIds
  BY OthersStill, AccessConstants DEF Aims, HolderNames
<1> SUFFICES ASSUME Replacing(d)', NEW u \in UserIds, Keeps(d, u)'
             PROVE  \/ RemovedBeside(d, u)' \/ Awaits(d, u)' \/ MemberThere(d, u)'
                    \/ call[d].at = "insert" /\ holder'[call[d].found] = u
  BY <1>1 DEF NoneMissing
<1>2. call[d].at # "idle" /\ call[d].target \in Holders
  BY <1>1 DEF Aimed, Replacing, Born
<1>3. NotBefore(c, d)'
  BY <1>2, ActorNotBefore
<1>4. Deletes(c, u)' \/ (\E n \in GroupIds : Deletes(c, n)') => RemovedBeside(d, u)'
  BY <1>3 DEF RemovedBeside
<1>5. ASSUME call[c].at # "idle", Updates(c, call[d].target),
             Replaces(call[c].asked) \/ Lists(c, u, {3})
      PROVE  RemovedBeside(d, u)'
  <2>1. call'[c].op = call[c].op /\ call'[c].target = call[c].target
        /\ call'[c].asked = call[c].asked
    BY <1>5, CallsSteady
  <2>2. Updates(c, call[d].target)' /\ (Replaces(call[c].asked)' \/ Lists(c, u, {3})')
    BY <1>1, <1>5, <2>1 DEF Updates, Lists, Replaces
  <2> QED
    BY <1>3, <2>2 DEF RemovedBeside
<1>6. ASSUME MemberThere(d, u) PROVE MemberThere(d, u)' \/ RemovedBeside(d, u)'
  <2>1. PICK p \in Holders : holder[p] = u /\ <<call[d].target, p>> \in members
    BY <1>6 DEF MemberThere
  <2>2. CASE <<call[d].target, p>> \in members'
    <3>1. holder'[p] = u \/ Deletes(c, u)'
      BY <1>1, <2>1, NameStays
    <3> QED
      BY <1>1, <1>4, <2>2, <3>1 DEF MemberThere
  <2>3. CASE <<call[d].target, p>> \notin members'
    <3>1. \/ ClearMembers(c) /\ call[c].target = call[d].target
          \/ RemoveMember(c) /\ call[c].target = call[d].target /\ call[c].found = p
          \/ Deletes(c, u)' \/ \E n \in GroupIds : Deletes(c, n)'
      BY <1>2, <2>1, <2>3, MemberMoves
    <3>2. CASE ClearMembers(c) /\ call[c].target = call[d].target
      BY <1>5, <3>2 DEF ClearMembers, Steered, Updates
    <3>3. CASE RemoveMember(c) /\ call[c].target = call[d].target /\ call[c].found = p
      <4>1. call[c].at = "remove" /\ call[c].op = "members"
        BY <1>1, <3>3 DEF RemoveMember, Aimed
      <4>2. Lists(c, u, {3})
        BY <1>1, <2>1, <3>3, <4>1 DEF Steered, Found
      <4> QED
        BY <1>5, <3>3, <4>1, <4>2 DEF Updates
    <3> QED
      BY <1>4, <3>1, <3>2, <3>3
  <2> QED
    BY <2>2, <2>3
<1>7. ASSUME call[d].at = "insert", holder[call[d].found] = u
      PROVE  holder'[call[d].found] = u \/ Deletes(c, u)'
  <2>1. call[d].found \in Holders
    BY <1>1, <1>7 DEF Aimed, Born
  <2> QED
    BY <1>1, <1>7, <2>1, NameStays
<1>8. RemovedBeside(d, u) => RemovedBeside(d, u)'
  BY <1>2, ExcusesStay
<1>9. Awaits(d, u) => Awaits(d, u)'
  BY <1>1 DEF Awaits
<1>10. \/ RemovedBeside(d, u) \/ Awaits(d, u) \/ MemberThere(d, u)
       \/ call[d].at = "insert" /\ holder[call[d].found] = u
  BY <1>1 DEF NoneMissing, Replacing, Replaces, Keeps, Lists
<1> QED
  BY <1>4, <1>6, <1>7, <1>8, <1>9, <1>10

(***************************************************************************)
(* A call that goes on: what it takes from its list it finds and handles.  *)
(***************************************************************************)
LEMMA FindsLeaves ==
  ASSUME AccessTypeOK, Aims, ReferencesWhole, NEW c \in Callers, FindNamed(c), Leaves(c)
  PROVE  Leaves(c)'
<1>1. /\ call[c].at = "find" /\ call[c].op \in {"members", "acl", "acl delete"}
      /\ call'[c].op = call[c].op /\ call'[c].target = call[c].target
      /\ call'[c].asked = call[c].asked /\ call'[c].value = call[c].value
      /\ UNCHANGED <<holder, members, grant>>
  BY FindsCall, LaterCall DEF Later, FindNamed
<1>2. AccessCall(c) \/ Later(c)
  BY DEF Later
<1>3. CASE call'[c].at = "failed" /\ call'[c].todo = call[c].todo
  BY <1>1, <1>3 DEF Leaves, Steered, Ordered, AllRemovals, OnlyRemovals, Granters, NoneBesides,
     NoneMissing, Replacing
<1>4. CASE ~(call'[c].at = "failed" /\ call'[c].todo = call[c].todo)
  <2>1. PICK item \in call[c].todo, i \in Holders :
          /\ \A other \in call[c].todo : item[1] <= other[1]
          /\ holder[i] = item[2] /\ call'[c].found = i /\ call'[c].todo = call[c].todo \ {item}
          /\ call'[c].at \in {"role", "insert", "remove"}
          /\ call'[c].at = "role" <=> call[c].op \in AclOps
          /\ call'[c].at = "insert" <=> call[c].op = "members" /\ item[1] < 3
    BY <1>4, FindsCall
  <2>2. call[c].todo \subseteq call[c].asked /\ call[c].asked \subseteq Listed
    BY CallTypes DEF Leaves, Steered, Calls
  <2>3. /\ item[1] \in 1..3 /\ item[2] \in HolderNames /\ item = <<item[1], item[2]>>
        /\ item \in call[c].asked
        /\ \A other \in call[c].todo : other[1] \in 1..3
    BY <2>1, <2>2 DEF Listed
  <2>4. call[c].op \in AclOps => item[1] \in {1, 2}
    BY <2>3 DEF Leaves, Steered
  <2>5. call'[c].at \in {"role", "insert"} => item[1] \in {1, 2}
    <3>1. call'[c].at = "role" => item[1] \in {1, 2}
      BY <2>1, <2>4
    <3>2. call'[c].at = "insert" => item[1] \in {1, 2}
      BY <2>1, <2>3
    <3> QED
      BY <3>1, <3>2
  <2>6. call'[c].at = "remove" => item[1] = 3 /\ call[c].op = "members"
    <3>1. call'[c].at = "remove" => call[c].op \notin AclOps
      BY <2>1
    <3>2. call'[c].at = "remove" => call[c].op = "members"
      BY <1>1, <3>1 DEF AclOps
    <3>3. call'[c].at = "remove" => ~(item[1] < 3)
      BY <2>1, <3>2
    <3> QED
      BY <2>3, <3>2, <3>3
  <2>7. \A loops : item[1] \in loops => Found(c, loops)'
    BY <1>1, <2>1, <2>3 DEF Found, Lists
  <2>8. Steered(c)'
    BY <1>1, <2>1, <2>2, <2>5, <2>6, <2>7 DEF Leaves, Steered
  <2>9. Ordered(c)'
    <3>1. CASE call[c].op = "members" /\ item[1] < 3
      <4>1. AllRemovals(c)
        BY <2>1, <3>1 DEF Leaves, Ordered, OnlyRemovals
      <4> QED
        BY <1>1, <2>1, <3>1, <4>1 DEF Ordered, AllRemovals
    <3>2. CASE call[c].op = "members" /\ ~(item[1] < 3)
      <4>1. \A other \in call[c].todo : other[1] = 3
        BY <2>1, <2>3, <3>2
      <4> QED
        BY <1>1, <2>1, <3>2, <4>1 DEF Ordered, OnlyRemovals
    <3>3. CASE call[c].op \in AclOps
      BY <1>1, <3>3 DEF Ordered, AclOps
    <3> QED
      BY <1>1, <3>1, <3>2, <3>3 DEF AclOps
  <2>10. \A n : Awaits(c, n) => Awaits(c, n)' \/ (n = item[2] /\ item[1] \in {1, 2})
    <3> SUFFICES ASSUME NEW n, Awaits(c, n) PROVE Awaits(c, n)' \/ (n = item[2] /\ item[1] \in {1, 2})
      OBVIOUS
    <3>1. PICK loop \in {1, 2} : <<loop, n>> \in call[c].todo
      BY DEF Awaits
    <3>2. CASE item = <<loop, n>>
      BY <3>2
    <3>3. CASE item # <<loop, n>>
      BY <2>1, <3>1, <3>3 DEF Awaits
    <3> QED
      BY <3>2, <3>3
  <2>11. Granters(c)'
    <3> SUFFICES ASSUME call[c].op \in AclOps, NEW n \in HolderNames, Lists(c, n, {1, 2})
                 PROVE  \/ GrantUndone(c, n)' \/ Awaits(c, n)' \/ GrantThere(c, n)'
                        \/ call'[c].at \in {"role", "grant"} /\ holder'[call'[c].found] = n
      BY <1>1 DEF Granters, Lists
    <3>1. GrantUndone(c, n) \/ Awaits(c, n) \/ GrantThere(c, n)
      BY <1>1 DEF Leaves, Granters
    <3>2. GrantUndone(c, n) => GrantUndone(c, n)'
      BY <1>1, <1>2, ExcusesStay
    <3>3. GrantThere(c, n) => GrantThere(c, n)'
      BY <1>1 DEF GrantThere
    <3> QED
      BY <1>1, <2>1, <2>10, <3>1, <3>2, <3>3
  <2>12. NoneBesides(c)'
    <3> SUFFICES ASSUME Replacing(c)', NEW p \in Holders, <<call[c].target, p>> \in members
                 PROVE  \/ AddedBeside(c, holder[p])'
                        \/ /\ Lists(c, holder[p], {1, 2})'
                           /\ \/ ~Lists(c, holder[p], {3})'
                              \/ <<3, holder[p]>> \in call'[c].todo
                              \/ call'[c].at = "remove" /\ call'[c].found = p
      BY <1>1 DEF NoneBesides
    <3>1. PICK n : n = holder[p]
      OBVIOUS
    <3>2. n # Nobody /\ \A j \in Holders : holder[j] = n => j = p
      BY <3>1, AccessConstants DEF ReferencesWhole, HolderNames
    <3>3. Replacing(c)
      BY <1>1 DEF Replacing, Replaces
    <3>4. \/ AddedBeside(c, n)
          \/ Lists(c, n, {1, 2}) /\ (~Lists(c, n, {3}) \/ <<3, n>> \in call[c].todo)
      BY <1>1, <3>1, <3>3 DEF Leaves, NoneBesides
    <3>5. AddedBeside(c, n) => AddedBeside(c, n)'
      BY <1>1, <1>2, ExcusesStay
    <3>6. \A loops : Lists(c, n, loops) <=> Lists(c, n, loops)'
      BY <1>1 DEF Lists
    <3>7. <<3, n>> \in call[c].todo =>
            <<3, n>> \in call'[c].todo \/ (call'[c].at = "remove" /\ call'[c].found = p)
      <4>1. CASE item = <<3, n>>
        <5>1. call[c].op = "members" /\ item[1] = 3 /\ holder[i] = n
          BY <2>1, <3>3, <4>1 DEF Replacing
        <5>2. call'[c].at = "remove"
          BY <2>1, <5>1 DEF AclOps
        <5> QED
          BY <2>1, <3>2, <5>1, <5>2
      <4>2. CASE item # <<3, n>>
        BY <2>1, <4>2
      <4> QED
        BY <4>1, <4>2
    <3>8. \/ AddedBeside(c, n)'
          \/ /\ Lists(c, n, {1, 2})'
             /\ \/ ~Lists(c, n, {3})'
                \/ <<3, n>> \in call'[c].todo
                \/ call'[c].at = "remove" /\ call'[c].found = p
      BY <3>4, <3>5, <3>6, <3>7
    <3> QED
      BY <1>1, <3>1, <3>8
  <2>13. NoneMissing(c)'
    <3> SUFFICES ASSUME Replacing(c)', NEW u \in UserIds, Keeps(c, u)'
                 PROVE  \/ RemovedBeside(c, u)' \/ Awaits(c, u)' \/ MemberThere(c, u)'
                        \/ call'[c].at = "insert" /\ holder'[call'[c].found] = u
      BY DEF NoneMissing
    <3>1. Replacing(c) /\ Keeps(c, u)
      BY <1>1 DEF Replacing, Replaces, Keeps, Lists
    <3>2. RemovedBeside(c, u) \/ Awaits(c, u) \/ MemberThere(c, u)
      BY <1>1, <3>1 DEF Leaves, NoneMissing
    <3>3. RemovedBeside(c, u) => RemovedBeside(c, u)'
      BY <1>1, <1>2, ExcusesStay
    <3>4. MemberThere(c, u) => MemberThere(c, u)'
      BY <1>1 DEF MemberThere
    <3>5. u = item[2] /\ item[1] \in {1, 2} =>
            call'[c].at = "insert" /\ holder'[call'[c].found] = u
      BY <1>1, <2>1, <3>1 DEF Replacing
    <3> QED
      BY <2>10, <3>2, <3>3, <3>4, <3>5
  <2> QED
    BY <2>8, <2>9, <2>11, <2>12, <2>13 DEF Leaves
<1> QED
  BY <1>3, <1>4

LEMMA RestGranters ==
  ASSUME AccessTypeOK, Aims, NEW c \in Callers, Later(c), ~FindNamed(c), Leaves(c)
  PROVE  Granters(c)'
<1>1. /\ call'[c].op = call[c].op /\ call'[c].target = call[c].target
      /\ call'[c].asked = call[c].asked /\ call'[c].value = call[c].value
      /\ call'[c].todo = call[c].todo /\ call'[c].found = call[c].found
      /\ call[c].at # "idle" /\ call[c].at # "failed" /\ holder' = holder /\ Aimed(c)
  BY LaterCall, LaterHolder, RestCall DEF Aims
<1> SUFFICES ASSUME call[c].op \in AclOps, call'[c].at # "failed",
                    NEW n \in HolderNames, Lists(c, n, {1, 2})
             PROVE  \/ GrantUndone(c, n)' \/ Awaits(c, n)' \/ GrantThere(c, n)'
                    \/ call'[c].at \in {"role", "grant"} /\ holder'[call'[c].found] = n
  BY <1>1 DEF Granters, Lists
<1>2. GrantUndone(c, n) => GrantUndone(c, n)'
  BY <1>1, ExcusesStay
<1>3. Awaits(c, n) => Awaits(c, n)'
  BY <1>1 DEF Awaits
<1>4. \/ GrantUndone(c, n) \/ Awaits(c, n) \/ GrantThere(c, n)
      \/ call[c].at \in {"role", "grant"} /\ holder[call[c].found] = n
  BY <1>1 DEF Leaves, Granters
<1>5. CASE InsertRole(c) /\ call'[c].at = "grant"
  <2>1. GrantThere(c, n) => GrantThere(c, n)'
    BY <1>1, <1>5 DEF InsertRole, GrantThere
  <2> QED
    BY <1>1, <1>2, <1>3, <1>4, <1>5, <2>1
<1>6. CASE /\ call[c].at = "grant"
           /\ grant' = [grant EXCEPT ![<<call[c].found, call[c].target>>] = call[c].value]
  <2>1. /\ grant \in [Holders \X RoleIds -> GrantStates] /\ call[c].found \in Holders
        /\ call[c].target \in RoleIds
    BY <1>1, <1>6 DEF AccessTypeOK, Aimed, Born
  <2>2. /\ grant'[<<call[c].found, call[c].target>>] = call[c].value
        /\ \A i \in Holders : i # call[c].found =>
             grant'[<<i, call[c].target>>] = grant[<<i, call[c].target>>]
    BY <1>6, <2>1
  <2>3. GrantThere(c, n) => GrantThere(c, n)'
    BY <1>1, <2>2 DEF GrantThere
  <2>4. holder[call[c].found] = n => GrantThere(c, n)'
    BY <1>1, <2>1, <2>2 DEF GrantThere
  <2> QED
    BY <1>2, <1>3, <1>4, <2>3, <2>4
<1> QED
  BY <1>5, <1>6, RestCall

LEMMA RestSteered ==
  ASSUME AccessTypeOK, Aims, NEW c \in Callers, Later(c), ~FindNamed(c), Leaves(c)
  PROVE  Steered(c)' /\ Ordered(c)'
<1>1. /\ call'[c].op = call[c].op /\ call'[c].asked = call[c].asked
      /\ call'[c].todo = call[c].todo /\ call'[c].found = call[c].found /\ holder' = holder
  BY LaterCall, LaterHolder, RestCall
<1>2. \/ call'[c].at \in {"find", "store", "failed"}
      \/ call'[c].at = "done" /\ (call[c].op \in {"acl", "acl delete", "members"} => call[c].todo = {})
      \/ call'[c].at = "grant" /\ call[c].at = "role"
  BY RestCall DEF AclOps
<1>3. \A loops : Found(c, loops) => Found(c, loops)'
  BY <1>1 DEF Found, Lists
<1>4. Steered(c)'
  BY <1>1, <1>2, <1>3 DEF Leaves, Steered
<1>5. Ordered(c)'
  BY <1>1, <1>2 DEF Leaves, Ordered, AllRemovals, OnlyRemovals
<1> QED
  BY <1>4, <1>5

LEMMA RestBesides ==
  ASSUME AccessTypeOK, Aims, ReferencesWhole, NEW c \in Callers, Later(c), ~FindNamed(c), Leaves(c)
  PROVE  NoneBesides(c)'
<1>1. /\ call'[c].op = call[c].op /\ call'[c].target = call[c].target
      /\ call'[c].asked = call[c].asked
      /\ call'[c].todo = call[c].todo /\ call'[c].found = call[c].found
      /\ call[c].at # "idle" /\ call[c].at # "failed" /\ holder' = holder /\ Aimed(c)
  BY LaterCall, LaterHolder, RestCall DEF Aims
<1> SUFFICES ASSUME Replacing(c)', NEW p \in Holders, <<call[c].target, p>> \in members'
             PROVE  \/ AddedBeside(c, holder[p])'
                    \/ /\ Lists(c, holder[p], {1, 2})'
                       /\ ~Lists(c, holder[p], {3})' \/ <<3, holder[p]>> \in call[c].todo
  BY <1>1 DEF NoneBesides
<1>2. Replacing(c) /\ call[c].op = "members" /\ call'[c].at # "failed"
  BY <1>1 DEF Replacing, Replaces
<1>3. PICK n : n = holder[p]
  OBVIOUS
<1>4. \/ AddedBeside(c, n)
      \/ /\ Lists(c, n, {1, 2})
         /\ ~Lists(c, n, {3}) \/ <<3, n>> \in call[c].todo
  <2>1. CASE ClearMembers(c)
    BY <2>1 DEF ClearMembers
  <2>2. CASE /\ call[c].at = "insert" /\ holder[call[c].found] # Nobody
             /\ members' = members \cup {<<call[c].target, call[c].found>>}
    <3>1. CASE <<call[c].target, p>> \in members
      BY <1>2, <1>3, <2>2, <3>1 DEF Leaves, NoneBesides
    <3>2. CASE p = call[c].found
      <4>1. Lists(c, n, {1, 2}) /\ AllRemovals(c)
        BY <1>2, <1>3, <2>2, <3>2 DEF Leaves, Steered, Found, Ordered
      <4>2. n \in HolderNames
        BY <1>1, <1>3, <2>2, <3>2 DEF Aimed, HolderNames
      <4> QED
        BY <4>1, <4>2 DEF AllRemovals, Lists
    <3> QED
      BY <2>2, <3>1, <3>2
  <2>3. CASE RemoveMember(c) /\ call[c].at = "remove"
    <3>1. members' = members \ {<<call[c].target, call[c].found>>}
      BY <2>3 DEF RemoveMember
    <3>2. <<call[c].target, p>> \in members /\ p # call[c].found
      BY <3>1
    <3> QED
      BY <1>2, <1>3, <2>3, <3>2 DEF Leaves, NoneBesides
  <2> QED
    BY <1>2, <2>1, <2>2, <2>3, RestCall
<1>5. AddedBeside(c, n) => AddedBeside(c, n)'
  BY <1>1, ExcusesStay
<1>6. \A loops : Lists(c, n, loops) <=> Lists(c, n, loops)'
  BY <1>1 DEF Lists
<1>7. \/ AddedBeside(c, n)'
      \/ /\ Lists(c, n, {1, 2})'
         /\ ~Lists(c, n, {3})' \/ <<3, n>> \in call[c].todo
  BY <1>4, <1>5, <1>6
<1> QED
  BY <1>1, <1>3, <1>7

LEMMA RestMissing ==
  ASSUME AccessTypeOK, Aims, NEW c \in Callers, Later(c), ~FindNamed(c), Leaves(c)
  PROVE  NoneMissing(c)'
<1>1. /\ call'[c].op = call[c].op /\ call'[c].target = call[c].target
      /\ call'[c].asked = call[c].asked
      /\ call'[c].todo = call[c].todo /\ call'[c].found = call[c].found
      /\ call[c].at # "idle" /\ call[c].at # "failed" /\ holder' = holder /\ Aimed(c)
  BY LaterCall, LaterHolder, RestCall DEF Aims
<1> SUFFICES ASSUME Replacing(c)', NEW u \in UserIds, Keeps(c, u)'
             PROVE  RemovedBeside(c, u)' \/ Awaits(c, u)' \/ MemberThere(c, u)'
  BY DEF NoneMissing
<1>2. /\ Replacing(c) /\ call[c].op = "members" /\ call'[c].at # "failed"
      /\ Keeps(c, u) /\ u # Nobody
  BY <1>1, AccessConstants DEF Replacing, Replaces, Keeps, Lists, HolderNames
<1>3. \/ RemovedBeside(c, u) \/ Awaits(c, u) \/ MemberThere(c, u)
      \/ call[c].at = "insert" /\ holder[call[c].found] = u
  BY <1>2 DEF Leaves, NoneMissing
<1>4. RemovedBeside(c, u) => RemovedBeside(c, u)'
  BY <1>1, ExcusesStay
<1>5. Awaits(c, u) => Awaits(c, u)'
  BY <1>1 DEF Awaits
<1>6. CASE ClearMembers(c) /\ call[c].at = "clear"
  <2>1. Awaits(c, u)
    BY <1>2, <1>6 DEF Leaves, Steered, Keeps, Lists, Awaits
  <2> QED
    BY <1>5, <2>1
<1>7. CASE /\ call[c].at = "insert"
           /\ members' = members \cup {<<call[c].target, call[c].found>>}
  <2>1. call[c].found \in Holders
    BY <1>1, <1>7 DEF Aimed, Born
  <2>2. MemberThere(c, u) \/ holder[call[c].found] = u => MemberThere(c, u)'
    BY <1>1, <1>7, <2>1 DEF MemberThere
  <2> QED
    BY <1>3, <1>4, <1>5, <2>2
<1>8. CASE RemoveMember(c) /\ call[c].at = "remove"
  <2>1. members' = members \ {<<call[c].target, call[c].found>>}
    BY <1>8 DEF RemoveMember
  <2>2. holder[call[c].found] # u
    BY <1>2, <1>8 DEF Leaves, Steered, Found, Keeps
  <2>3. MemberThere(c, u) => MemberThere(c, u)'
    BY <1>1, <2>1, <2>2 DEF MemberThere
  <2> QED
    BY <1>3, <1>4, <1>5, <1>8, <2>3
<1> QED
  BY <1>2, <1>6, <1>7, <1>8, RestCall

AllLeave == \A c \in Callers : Leaves(c)

LEMMA AllLeaveStep ==
  ASSUME AccessTypeOK, Aims, ReferencesWhole, BeforeOver, AllLeave, ReferencesWhole',
         NEW c \in Callers, AccessCall(c) \/ Later(c)
  PROVE  AllLeave'
<1>1. Leaves(c)'
  <2>1. CASE AccessCall(c)
    BY <2>1, StartLeaves
  <2>2. CASE Later(c)
    BY <2>2, FindsLeaves, RestGranters, RestSteered, RestBesides, RestMissing DEF AllLeave, Leaves
  <2> QED
    BY <2>1, <2>2
<1>2. ASSUME NEW d \in Callers, d # c PROVE Leaves(d)'
  BY <1>2, StillSteered, StillGranters, StillBesides, StillMissing DEF AllLeave, Leaves
<1> QED
  BY <1>1, <1>2 DEF AllLeave

LEMMA LeaveProperties ==
  ASSUME AllLeave, AccessTypeOK, ReferencesWhole
  PROVE  MembersAsReplaced /\ GrantsAsConfirmed
<1>1. GrantsAsConfirmed
  <2> SUFFICES ASSUME NEW c \in Callers, Confirmed(c, "acl"),
                      NEW n \in HolderNames, Lists(c, n, {1, 2})
               PROVE  GrantThere(c, n) \/ GrantUndone(c, n)
    BY DEF GrantsAsConfirmed, GrantThere, GrantUndone
  <2>1. call[c].todo = {} /\ call[c].at = "done" /\ call[c].op \in AclOps
    BY DEF AllLeave, Leaves, Steered, Confirmed, AclOps
  <2> QED
    BY <2>1 DEF AllLeave, Leaves, Granters, Awaits
<1>2. MembersAsReplaced
  <2> SUFFICES ASSUME NEW c \in Callers, Confirmed(c, "members"), Replaces(call[c].asked)
               PROVE  /\ \A p \in Holders : <<call[c].target, p>> \in members =>
                           Keeps(c, holder[p]) \/ AddedBeside(c, holder[p])
                      /\ \A u \in UserIds : Keeps(c, u) => MemberThere(c, u) \/ RemovedBeside(c, u)
    BY DEF MembersAsReplaced, AddedBeside, MemberThere, RemovedBeside
  <2>1. call[c].todo = {} /\ call[c].at = "done" /\ Replacing(c)
    BY DEF AllLeave, Leaves, Steered, Confirmed, Replacing
  <2>2. ASSUME NEW p \in Holders, <<call[c].target, p>> \in members
        PROVE  Keeps(c, holder[p]) \/ AddedBeside(c, holder[p])
    BY <2>1, <2>2 DEF AllLeave, Leaves, NoneBesides, Keeps
  <2>3. ASSUME NEW u \in UserIds, Keeps(c, u)
        PROVE  MemberThere(c, u) \/ RemovedBeside(c, u)
    BY <2>1, <2>3 DEF AllLeave, Leaves, NoneMissing, Awaits
  <2> QED
    BY <2>2, <2>3
<1> QED
  BY <1>1, <1>2

(***************************************************************************)
(* The inductive invariant, and the theorems.                              *)
(***************************************************************************)
Whole == AccessTypeOK /\ Aims /\ ReferencesWhole /\ BeforeOver /\ HoldersPaired /\ AllLeave

LEMMA InitReferences == AccessInit => ReferencesWhole
<1> SUFFICES ASSUME AccessInit PROVE ReferencesWhole
  OBVIOUS
<1>1. /\ holder = [i \in Holders |-> IF i \in SeedHolders THEN SeedHolder[i] ELSE Nobody]
      /\ members = {} /\ grant = [h \in Holders \X RoleIds |-> "none"] /\ realm = SeedRealm
  BY DEF AccessInit
<1>2. Nobody \notin UserIds
  BY AccessConstants DEF HolderNames
<1>3. \A i \in Holders : holder[i] # Nobody => i \in SeedHolders /\ holder[i] = SeedHolder[i]
  BY <1>1
<1>4. \A i \in Holders, r \in RoleIds : grant[<<i, r>>] = "none"
  BY <1>1
<1>5. \A i \in Holders : holder[i] \in UserIds => realm[RealmOf[holder[i]]] # "none"
  BY <1>1, <1>2, <1>3, AccessSeed
<1>6. \A i, j \in Holders : holder[i] = holder[j] /\ holder[i] # Nobody => i = j
  BY <1>3, AccessSeed
<1> QED
  BY <1>1, <1>4, <1>5, <1>6 DEF ReferencesWhole

LEMMA InitHolders == AccessInit => BeforeOver /\ HoldersPaired
<1> SUFFICES ASSUME AccessInit PROVE BeforeOver /\ HoldersPaired
  OBVIOUS
<1>1. realm = SeedRealm /\ call = [c \in Callers |-> IdleCall]
  BY DEF AccessInit
<1>2. \A c \in Callers : call[c].at = "idle" /\ call[c].before = {}
  BY <1>1 DEF IdleCall
<1>3. BeforeOver
  BY <1>2 DEF BeforeOver
<1>4. \A r \in RealmIds : Holding(r) => SeedRealm[r] = "default"
  BY <1>1, <1>2 DEF Holding, Storing
<1>5. HoldersPaired
  BY <1>4, AccessSeed DEF HoldersPaired
<1> QED
  BY <1>3, <1>5

LEMMA InitLeaves == AccessInit => AllLeave
<1> SUFFICES ASSUME AccessInit, NEW c \in Callers PROVE Leaves(c)
  BY DEF AllLeave
<1>1. call[c] = IdleCall
  BY DEF AccessInit
<1>2. call[c].at = "idle" /\ call[c].op = "none" /\ call[c].asked = {} /\ call[c].todo = {}
  BY <1>1 DEF IdleCall
<1> QED
  BY <1>2 DEF Leaves, Steered, Ordered, Granters, NoneBesides, NoneMissing, Replacing, AclOps

LEMMA StutterWhole == Whole /\ UNCHANGED accessVars => Whole'
<1> SUFFICES ASSUME Whole, UNCHANGED accessVars PROVE Whole'
  OBVIOUS
<1>1. UNCHANGED <<holder, members, roles, grant, realm, call>>
  BY DEF accessVars
<1>2. AccessTypeOK' /\ Aims'
  BY StutterTyped DEF Whole
<1>3. ReferencesWhole'
  BY <1>1 DEF Whole, ReferencesWhole
<1>4. BeforeOver'
  BY <1>1 DEF Whole, BeforeOver, Over
<1>5. HoldersPaired'
  <2>1. \A r \in RealmIds : Holding(r)' <=> Holding(r)
    BY <1>1 DEF Holding, Storing
  <2>2. \A r, s \in RealmIds : Pair(r, s) => Pair(r, s)'
    BY <1>1 DEF Pair, Writes, Overlap, NotBefore
  <2> QED
    BY <2>1, <2>2 DEF Whole, HoldersPaired
<1>6. AllLeave'
  <2>1. \A c \in Callers : Steered(c)' /\ Ordered(c)'
    BY <1>1 DEF Whole, AllLeave, Leaves, Steered, Ordered, Found, Lists, Replaces, AllRemovals,
       OnlyRemovals
  <2>0. ASSUME NEW c \in Callers, NEW n
        PROVE  /\ (GrantUndone(c, n) <=> GrantUndone(c, n)') /\ (Awaits(c, n) <=> Awaits(c, n)')
               /\ (GrantThere(c, n) <=> GrantThere(c, n)') /\ (MemberThere(c, n) <=> MemberThere(c, n)')
               /\ (RemovedBeside(c, n) <=> RemovedBeside(c, n)')
               /\ (Keeps(c, n) <=> Keeps(c, n)') /\ (Replacing(c) <=> Replacing(c)')
               /\ \A loops : Lists(c, n, loops) <=> Lists(c, n, loops)'
    BY <1>1 DEF GrantUndone, Awaits, GrantThere, MemberThere, RemovedBeside, Keeps, Replacing,
       Replaces, Lists, NotBefore, Updates, Deletes
  <2>2. \A c \in Callers : Granters(c)'
    BY <1>1, <2>0 DEF Whole, AllLeave, Leaves, Granters
  <2>3. \A c \in Callers : NoneBesides(c)'
    BY <1>1 DEF Whole, AllLeave, Leaves, NoneBesides, Replacing, Replaces, Lists, AddedBeside,
       NotBefore, Updates
  <2>4. \A c \in Callers : NoneMissing(c)'
    BY <1>1, <2>0 DEF Whole, AllLeave, Leaves, NoneMissing
  <2> QED
    BY <2>1, <2>2, <2>3, <2>4 DEF AllLeave, Leaves
<1> QED
  BY <1>2, <1>3, <1>4, <1>5, <1>6 DEF Whole

LEMMA WholeStep == Whole /\ AccessNext => Whole'
<1> SUFFICES ASSUME Whole, AccessNext PROVE Whole'
  OBVIOUS
<1>1. PICK c \in Callers : AccessCall(c) \/ Later(c)
  BY NextCases
<1>2. AccessTypeOK' /\ Aims'
  BY <1>1, TypeStep, AimsStep DEF Whole
<1>3. ReferencesWhole'
  BY <1>1, StartReferences, LaterReferences DEF Whole
<1>4. BeforeOver' /\ HoldersPaired'
  BY <1>1, BeforeStep, HoldersStep DEF Whole
<1>5. AllLeave'
  BY <1>1, <1>3, AllLeaveStep DEF Whole
<1> QED
  BY <1>2, <1>3, <1>4, <1>5 DEF Whole

LEMMA AlwaysWhole == AccessSpec => []Whole
<1>1. AccessInit => Whole
  BY InitTyped, InitReferences, InitHolders, InitLeaves DEF Whole
<1>2. Whole /\ [AccessNext]_accessVars => Whole'
  BY StutterWhole, WholeStep
<1> QED
  BY <1>1, <1>2, PTL DEF AccessSpec

(* The tables and the calls of access control keep their types.            *)
THEOREM AccessTypes == AccessSpec => []AccessTypeOK
<1>1. Whole => AccessTypeOK
  BY DEF Whole
<1> QED
  BY <1>1, AlwaysWhole, PTL

(* No member, ACL entry or user outlives what it refers to, for any        *)
(* number of calls, names and lists.                                       *)
THEOREM AccessReferences == AccessSpec => []ReferencesWhole
<1>1. Whole => ReferencesWhole
  BY DEF Whole
<1> QED
  BY <1>1, AlwaysWhole, PTL

(* Two default realms are always the work of calls that overlapped.        *)
THEOREM DefaultRealm == AccessSpec => []OneDefaultRealm
<1>1. Whole => OneDefaultRealm
  BY HoldersDefault DEF Whole
<1> QED
  BY <1>1, AlwaysWhole, PTL

(* A confirmed replacement of a group's members, whatever statements of    *)
(* other calls came between its own, leaves the users it names and no      *)
(* others, but for what an overlapping or later call did (group_update).   *)
THEOREM MembersReplaced == AccessSpec => []MembersAsReplaced
<1>1. Whole => MembersAsReplaced
  BY LeaveProperties DEF Whole
<1> QED
  BY <1>1, AlwaysWhole, PTL

(* What a confirmed call adds to the ACL is there for every name it lists, *)
(* until an overlapping or later call names the same or deletes it         *)
(* (acl_update).                                                           *)
THEOREM GrantsConfirmed == AccessSpec => []GrantsAsConfirmed
<1>1. Whole => GrantsAsConfirmed
  BY LeaveProperties DEF Whole
<1> QED
  BY <1>1, AlwaysWhole, PTL
=============================================================================
