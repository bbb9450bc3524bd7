--------------------------- MODULE ClusterDocument ---------------------------
(***************************************************************************)
(* The cluster document: clusters.metadata, one JSON object in which the   *)
(* SDN configuration and its lock, the HA groups and rules, the cluster's  *)
(* member list and every other cluster-wide setting live                   *)
(* (handlers/common.py, sdn.py, ha.py, cluster_config.py, and the handlers *)
(* of the same shape in cluster.py, cluster_extra.py, acme.py, mapping.py, *)
(* notifications.py and ceph.py).  A call reads the whole document, changes *)
(* its copy and writes the whole copy back; nothing compares versions.     *)
(*                                                                         *)
(* The document is a function from paths to values.  What a call changes   *)
(* is a function on the paths it assigns.  A refused call changes nothing  *)
(* and is no step.                                                         *)
(***************************************************************************)
EXTENDS Naturals

CONSTANTS Editors,       \* calls that may write the document
          Zones,         \* names in the named stores of sdn: zones, vnets ...
          Fabrics,
          FabricNodes,   \* node ids inside a fabric
          Groups,        \* HA groups
          Hosts,         \* cluster nodes that join and leave
          Contents,      \* what an entry of a store says
          Earlier,       \* a lock token handed out before these calls
          Absent,        \* no entry; also false and null
          Present,       \* an entry whose content is not looked at; also true
          SeedDocument,  \* the document at the start
          SeedRows       \* the rows of nodes at the start

Zone(z)          == <<"zones", z>>
Fabric(f)        == <<"fabrics", f>>
FabricNode(f, x) == <<"fabric_nodes", <<f, x>>>>
Lock             == <<"sdn", "lock">>
SdnPending       == <<"sdn", "pending">>
Group(g)         == <<"ha_groups", g>>
Rules            == <<"ha", "rules">>
Added(h)         == <<"added_nodes", h>>
Joined(h)        == <<"join_info", h>>

Paths == {Zone(z) : z \in Zones} \cup {Fabric(f) : f \in Fabrics}
           \cup {FabricNode(f, x) : f \in Fabrics, x \in FabricNodes}
           \cup {Lock, SdnPending, Rules} \cup {Group(g) : g \in Groups}
           \cup {Added(h) : h \in Hosts} \cup {Joined(h) : h \in Hosts}

Tokens == Editors \cup {Earlier}  \* secrets.token_hex: every call draws its own
Entries == Contents \cup Tokens \cup {Absent, Present}
RowStates == {"none", "online", "offline"}

ASSUME DocumentConstants ==
  /\ Present # Absent /\ Absent \notin Contents \cup Tokens
  /\ Earlier \notin Editors /\ Absent \notin Hosts

ASSUME DocumentSeedAssumption ==
  /\ SeedDocument \in [Paths -> Entries] /\ SeedRows \in [Hosts -> RowStates]
  /\ \A f \in Fabrics, x \in FabricNodes :
       SeedDocument[FabricNode(f, x)] # Absent => SeedDocument[Fabric(f)] # Absent
  /\ \A h \in Hosts :
       SeedDocument[Added(h)] # Absent \/ SeedDocument[Joined(h)] # Absent => SeedRows[h] # "none"

VARIABLES document,  \* clusters.metadata
          hostRow,   \* hostRow[h]: the row of nodes named h
          saves,     \* UPDATEs of the document so far
          edit       \* edit[c]: the call c

documentVars == <<document, hostRow, saves, edit>>

IdleEdit == [at |-> "idle", host |-> Absent, writes |-> {}, forced |-> FALSE,
             copy |-> SeedDocument, readAt |-> 0, savedAt |-> 0]

Waiting           == {"find", "insert", "save"}  \* the document read, not yet saved
BetweenStatements == Waiting \cup {"mark"}

DocumentInit ==
  /\ document = SeedDocument
  /\ hostRow = SeedRows
  /\ saves = 0
  /\ edit = [c \in Editors |-> IdleEdit]

Has(path) == document[path] # Absent

(* cluster_metadata, then the changes to the copy, in one go: the call has *)
(* read the document and goes on at the given statement.  force stands for *)
(* force and allow-pending.                                                *)
Edit(c, change, force, statement, h) ==
  /\ edit[c].at = "idle"
  /\ edit' = [edit EXCEPT ![c] =
       [at |-> statement, host |-> h, writes |-> DOMAIN change, forced |-> force,
        copy |-> [p \in Paths |-> IF p \in DOMAIN change THEN change[p] ELSE document[p]],
        readAt |-> saves, savedAt |-> 0]]
  /\ UNCHANGED <<document, hostRow, saves>>

EditThenSave(c, change, force) == Edit(c, change, force, "save", Absent)

Rewrite(c, change) == EditThenSave(c, change, FALSE)

Assign(paths, value) == [p \in paths |-> value]

(* A change of the SDN configuration sets sdn.pending as well. *)
SdnChange(paths, value) ==
  [p \in paths \cup {SdnPending} |-> IF p = SdnPending THEN Present ELSE value]

(***************************************************************************)
(* SDN: the named stores, fabrics and their nodes.                         *)
(***************************************************************************)
ZoneCreate(c) ==
  \E z \in Zones, v \in Contents :
    ~Has(Zone(z)) /\ Rewrite(c, SdnChange({Zone(z)}, v))

ZoneUpdate(c) ==
  \E z \in Zones, v \in Contents :
    Has(Zone(z)) /\ Rewrite(c, SdnChange({Zone(z)}, v))

ZoneDelete(c) ==
  \E z \in Zones : Has(Zone(z)) /\ Rewrite(c, SdnChange({Zone(z)}, Absent))

(* Addresses and firewall of a vnet change in place and leave sdn.pending. *)
VnetDetail(c) ==
  \E z \in Zones, v \in Contents :
    Has(Zone(z)) /\ Rewrite(c, Assign({Zone(z)}, v))

FabricCreate(c) ==
  \E f \in Fabrics : ~Has(Fabric(f)) /\ Rewrite(c, SdnChange({Fabric(f)}, Present))

FabricUpdate(c) ==
  \E f \in Fabrics : Has(Fabric(f)) /\ Rewrite(c, SdnChange({Fabric(f)}, Present))

(* The fabric goes with its nodes. *)
FabricDelete(c) ==
  \E f \in Fabrics :
    Has(Fabric(f)) /\ Rewrite(c, SdnChange(
      {Fabric(f)} \cup {FabricNode(f, x) : x \in FabricNodes}, Absent))

FabricNodeCreate(c) ==
  \E f \in Fabrics, x \in FabricNodes :
    /\ Has(Fabric(f)) /\ ~Has(FabricNode(f, x))
    /\ Rewrite(c, SdnChange({FabricNode(f, x)}, Present))

FabricNodeUpdate(c) ==
  \E f \in Fabrics, x \in FabricNodes :
    Has(FabricNode(f, x)) /\ Rewrite(c, SdnChange({FabricNode(f, x)}, Present))

FabricNodeDelete(c) ==
  \E f \in Fabrics, x \in FabricNodes :
    Has(FabricNode(f, x)) /\ Rewrite(c, SdnChange({FabricNode(f, x)}, Absent))

(***************************************************************************)
(* SDN: the lock, and the changes waiting to be applied.                   *)
(***************************************************************************)
Granted == {Earlier} \cup {c \in Editors : edit[c].savedAt > 0 /\ Lock \in edit[c].writes
                                             /\ edit[c].copy[Lock] = c}

(* A call may name a token it was given, or none. *)
Presented == Granted \cup {Absent}

(* Mutant: the lock in the document is not looked at. *)
LockCreateAnyway(c, allowPending) == EditThenSave(c, Assign({Lock}, c), allowPending)

(* Refused while the document read has a lock, unless allow-pending. *)
LockCreate(c, allowPending) ==
  /\ allowPending \/ ~Has(Lock)
  /\ EditThenSave(c, Assign({Lock}, c), allowPending)

(* The lock read must be named, unless forced; without a lock the call     *)
(* succeeds and writes nothing.                                            *)
LockDelete(c, token, force) ==
  /\ Has(Lock)
  /\ force \/ token = document[Lock]
  /\ EditThenSave(c, Assign({Lock}, Absent), force)

AppliedState(releaseLock) == Assign({SdnPending} \cup (IF releaseLock THEN {Lock} ELSE {}), Absent)

(* Only a token that is named and wrong is refused. *)
Apply(c, token, releaseLock) ==
  /\ Has(Lock) /\ token # Absent => token = document[Lock]
  /\ Rewrite(c, AppliedState(releaseLock))

(* Nothing is rolled back but the flag. *)
Rollback(c, releaseLock) == Rewrite(c, AppliedState(releaseLock))

(***************************************************************************)
(* Settings outside SDN: HA groups; the HA rules, whose GET stores the     *)
(* default rules when there are none.                                      *)
(***************************************************************************)
GroupCreate(c) == \E g \in Groups : ~Has(Group(g)) /\ Rewrite(c, Assign({Group(g)}, Present))
GroupUpdate(c) == \E g \in Groups : Has(Group(g)) /\ Rewrite(c, Assign({Group(g)}, Present))
GroupDelete(c) == \E g \in Groups : Has(Group(g)) /\ Rewrite(c, Assign({Group(g)}, Absent))
HaRules(c)     == ~Has(Rules) /\ Rewrite(c, Assign({Rules}, Present))

(***************************************************************************)
(* Members of the cluster, in the document and in the table nodes.         *)
(***************************************************************************)
(* Mutant: the document is saved before the row is looked for. *)
NodesAddSaveFirst(c) == \E h \in Hosts : Edit(c, Assign({Added(h)}, Present), FALSE, "save", h)

NodesAdd(c) == \E h \in Hosts : Edit(c, Assign({Added(h)}, Present), FALSE, "find", h)

JoinPost(c) == \E h \in Hosts : Edit(c, Assign({Joined(h)}, Present), FALSE, "find", h)

NodesDelete(c) ==
  \E h \in Hosts : Edit(c, Assign({Added(h), Joined(h)}, Absent), FALSE, "save", h)

Goto(c, where) == edit' = [edit EXCEPT ![c] = [@ EXCEPT !.at = where]]

(* SELECT EXISTS in nodes. *)
FindHost(c) ==
  /\ edit[c].at = "find"
  /\ Goto(c, IF hostRow[edit[c].host] = "none" THEN "insert" ELSE "save")
  /\ UNCHANGED <<document, hostRow, saves>>

(* INSERT INTO nodes; when the row has come meanwhile, its unique name     *)
(* makes the statement and the call fail.                                  *)
InsertHost(c) ==
  /\ edit[c].at = "insert"
  /\ IF hostRow[edit[c].host] = "none"
     THEN /\ hostRow' = [hostRow EXCEPT ![edit[c].host] = "online"]
          /\ Goto(c, "save")
     ELSE UNCHANGED hostRow /\ Goto(c, "failed")
  /\ UNCHANGED <<document, saves>>

Removes(c) == \E h \in Hosts : {Added(h), Joined(h)} \subseteq edit[c].writes

Saved(c, value) ==
  /\ edit[c].at = "save"
  /\ document' = value
  /\ saves' = saves + 1
  /\ edit' = [edit EXCEPT ![c] =
       [at |-> IF Removes(c) THEN "mark" ELSE "done", host |-> @.host, writes |-> @.writes,
        forced |-> @.forced, copy |-> @.copy, readAt |-> @.readAt, savedAt |-> saves + 1]]
  /\ UNCHANGED hostRow

(* Mutant: the copy is merged into the document, so nothing is removed. *)
SaveMerged(c) ==
  Saved(c, [p \in Paths |-> IF edit[c].copy[p] = Absent THEN document[p] ELSE edit[c].copy[p]])

(* save_cluster_metadata: the whole copy. *)
Save(c) == Saved(c, edit[c].copy)

(* nodes_delete, after the document: the row stays and is marked. *)
MarkOffline(c) ==
  /\ edit[c].at = "mark"
  /\ hostRow' = [hostRow EXCEPT ![edit[c].host] = IF @ = "none" THEN "none" ELSE "offline"]
  /\ Goto(c, "done")
  /\ UNCHANGED <<document, saves>>

(* The process ends, or a statement fails, between two statements. *)
Lose(c) ==
  /\ edit[c].at \in BetweenStatements
  /\ Goto(c, "failed")
  /\ UNCHANGED <<document, hostRow, saves>>

Begin(c) ==
  \/ ZoneCreate(c) \/ ZoneUpdate(c) \/ ZoneDelete(c) \/ VnetDetail(c)
  \/ FabricCreate(c) \/ FabricUpdate(c) \/ FabricDelete(c)
  \/ FabricNodeCreate(c) \/ FabricNodeUpdate(c) \/ FabricNodeDelete(c)
  \/ \E flag \in BOOLEAN : LockCreate(c, flag) \/ Rollback(c, flag)
  \/ \E token \in Presented, flag \in BOOLEAN : LockDelete(c, token, flag) \/ Apply(c, token, flag)
  \/ GroupCreate(c) \/ GroupUpdate(c) \/ GroupDelete(c) \/ HaRules(c)
  \/ NodesAdd(c) \/ JoinPost(c) \/ NodesDelete(c)

DocumentNext ==
  \E c \in Editors :
    Begin(c) \/ FindHost(c) \/ InsertHost(c) \/ Save(c) \/ MarkOffline(c) \/ Lose(c)

DocumentSpec == DocumentInit /\ [][DocumentNext]_documentVars
=============================================================================
