-------------------------------- MODULE Guests --------------------------------
(***************************************************************************)
(* Virtual machines and containers: the tables resources, virtual_machines *)
(* / containers and snapshots, the API handlers that look at them and      *)
(* create a task (app/handlers/qemu.py, lxc.py), the task handlers that    *)
(* change them (app/tasks/qemu.py, lxc.py), and the API handlers that      *)
(* change them without a task.                                             *)
(*                                                                         *)
(* A guest is described twice: by the JSON of resources.state, which holds *)
(* its status and a copy of its configuration, and by the column config.   *)
(* A step is one SQL statement, or one transaction from its first write    *)
(* on: under READ COMMITTED, what a transaction has read may be stale when *)
(* it writes.                                                              *)
(*                                                                         *)
(* The task engine is what TaskPromise says of it: one handler per         *)
(* resource key, which may be cancelled or executed again.                 *)
(***************************************************************************)
EXTENDS Naturals

CONSTANTS
    Vmids, Nodes,
    Kinds,          \* a subset of {"qemu", "lxc"}
    Keys, Values,   \* configuration options, disks among them, and their values
    Template,       \* the option under which a state says that its guest is a template
    None,
    Seeded,         \* the guests of the seed profile
    Seed,           \* their rows
    Jobs,           \* API calls that create a task
    Requests,       \* API calls that write without one
    Ops,            \* the operations that may be called
    Cancels,        \* whether clients cancel tasks
    MaxInterrupts   \* bound: executions and requests lost with their process,
                    \* and handlers that raise

(***************************************************************************)
(* A task inserts at most one row, which gets a fresh uuid4: the row of a  *)
(* create or clone task is named after it.                                 *)
(***************************************************************************)
Rows == Seeded \cup Jobs

ResourceKeys == Kinds \X Vmids

Configs == [Keys -> Values \cup {None}]

(***************************************************************************)
(* The table TRANSITIONS; via and to are the two states it lists.          *)
(***************************************************************************)
Edge(from, op, via, to) == [from |-> from, op |-> op, via |-> via, to |-> to]

Transitions == {
    Edge("stopped", "start",    "starting",     "running"),
    Edge("running", "stop",     "stopping",     "stopped"),
    Edge("running", "shutdown", "stopping",     "stopped"),
    Edge("running", "reboot",   "stopping",     "running"),
    Edge("running", "reset",    "stopping",     "running"),
    Edge("running", "suspend",  "pausing",      "paused"),
    Edge("running", "pause",    "pausing",      "paused"),
    Edge("paused",  "resume",   "resuming",     "running"),
    Edge("running", "migrate",  "migrating",    "running"),
    Edge("stopped", "migrate",  "migrating",    "stopped"),
    Edge("running", "snapshot", "snapshotting", "running"),
    Edge("stopped", "snapshot", "snapshotting", "stopped"),
    Edge("running", "backup",   "backing_up",   "running"),
    Edge("stopped", "backup",   "backing_up",   "stopped")}

Transient == {x.via : x \in Transitions}
Settled   == {"stopped", "running", "paused"}

Plans(status, op) == {x \in Transitions : x.from = status /\ x.op = op}

Power     == {"start", "stop", "shutdown", "reboot", "reset", "suspend", "resume"}
Stepwise  == Power \cup {"migrate"}
TaskOps   == Stepwise \cup {"create", "clone", "delete", "update", "move-disk",
                            "snapshot-create", "snapshot-delete", "snapshot-rollback"}
Rewriters == {"put", "look", "volume"}
Savers    == Rewriters \cup {"resize", "agent", "template"}
Sweepers  == {"status all", "migrate all"}
DirectOps == Savers \cup Sweepers
QemuOnly  == {"reset", "update", "move-disk", "agent"}

Guest == [kind : Kinds, vmid : Vmids, node : Nodes, version : Nat,
          status : Settled \cup Transient, cfg : Configs, config : Configs]

Snapshot == [status : Settled \cup Transient, cfg : Configs, config : Configs]

ASSUME KindsAssumption == Kinds \subseteq {"qemu", "lxc"}
ASSUME OpsAssumption   == Ops \subseteq TaskOps \cup DirectOps
ASSUME NamesAssumption == /\ None \notin Rows \cup Values \cup Guest \cup Snapshot \cup ResourceKeys
                          /\ Seeded \cap Jobs = {} /\ MaxInterrupts \in Nat
ASSUME SeedAssumption  == /\ Seed \in [Seeded -> Guest]
                          /\ \A r \in Seeded : /\ Seed[r].status \in Settled
                                               /\ Seed[r].cfg = Seed[r].config
                          /\ \A r, s \in Seeded : Seed[r].vmid = Seed[s].vmid => r = s

VARIABLES
    guest,       \* the rows: None, or columns of resources and its config
    snap,        \* the snapshot of each guest, under the one name considered
    job,         \* the calls that create a task, and their tasks
    lock,        \* table resource_locks
    request,     \* the calls that write directly
    interrupts   \* how many interruptions have happened

vars == <<guest, snap, job, lock, request, interrupts>>

(***************************************************************************)
(* A task's payload (op, row, key, args), what its handler has read (seen, *)
(* plan), how far it is, and whether an execution of it broke off: was     *)
(* lost, or raised.  A direct call: the calls that had ended when it read. *)
(***************************************************************************)
Active == {"queued", "loaded", "half", "applied", "failed"}

Idle == [op |-> None, row |-> None, key |-> None, args |-> None,
         seen |-> None, plan |-> None, phase |-> "idle", hurt |-> FALSE]

Init ==
    /\ guest = [r \in Rows |-> IF r \in Seeded THEN Seed[r] ELSE None]
    /\ snap = [r \in Rows |-> None]
    /\ job = [j \in Jobs |-> Idle]
    /\ lock = [k \in ResourceKeys |-> None]
    /\ request = [q \in Requests |-> [op |-> None, row |-> None, key |-> None,
                                      value |-> None, seen |-> None, ended |-> {},
                                      phase |-> "idle"]]
    /\ interrupts = 0

Exists(r)     == guest[r] # None
Key(r)        == <<guest[r].kind, guest[r].vmid>>
VmidTaken(id) == \E r \in Rows : Exists(r) /\ guest[r].vmid = id
Offers(r, op) == Exists(r) /\ (op \in QemuOnly => guest[r].kind = "qemu")

-----------------------------------------------------------------------------
(***************************************************************************)
(* The API handler: looks at the guest, answers 404 or 409, or goes on to  *)
(* create the task.                                                        *)
(***************************************************************************)
Ask(j, op, r, key, args) ==
    /\ job[j].phase = "idle"
    /\ op \in Ops
    /\ job' = [job EXCEPT ![j] = [op |-> op, row |-> r, key |-> key, args |-> args,
                                  seen |-> None, plan |-> None, phase |-> "checked", hurt |-> FALSE]]
    /\ UNCHANGED <<guest, snap, lock, request, interrupts>>

CheckPower(j) == \E r \in Rows, op \in Power :
    /\ Offers(r, op)
    /\ Plans(guest[r].status, op) # {}
    /\ Ask(j, op, r, Key(r), None)

CheckCreate(j) == \E k \in Kinds, id \in Vmids, n \in Nodes, c \in Configs, start \in BOOLEAN :
    /\ ~VmidTaken(id)
    /\ start => k = "lxc"
    /\ Ask(j, "create", None, <<k, id>>, [node |-> n, config |-> c, start |-> start])

CheckClone(j) == \E r \in Rows, id \in Vmids, n \in Nodes :
    /\ Exists(r)
    /\ ~VmidTaken(id)
    /\ Ask(j, "clone", r, <<guest[r].kind, id>>, [node |-> n])

CheckDelete(j) == \E r \in Rows :
    /\ Exists(r)
    /\ guest[r].status = "stopped"
    /\ Ask(j, "delete", r, Key(r), None)

CheckMigrate(j) == \E r \in Rows, n \in Nodes :
    /\ Exists(r)
    /\ n # guest[r].node
    /\ Ask(j, "migrate", r, Key(r), [node |-> n])

CheckUpdate(j) == \E r \in Rows, k \in Keys, v \in Values \cup {None}, drop \in BOOLEAN :
    /\ Offers(r, "update")
    /\ Ask(j, "update", r, Key(r), [key |-> k, value |-> v, drop |-> drop])

CheckMoveDisk(j) == \E r \in Rows, from, to \in Keys, drop \in BOOLEAN :
    /\ Offers(r, "move-disk")
    /\ guest[r].config[from] # None
    /\ Ask(j, "move-disk", r, Key(r), [from |-> from, to |-> to, drop |-> drop])

CheckSnapshot(j) == \E r \in Rows :
    /\ Exists(r)
    /\ \/ snap[r] = None /\ Ask(j, "snapshot-create", r, Key(r), None)
       \/ snap[r] # None /\ Ask(j, "snapshot-delete", r, Key(r), None)
       \/ /\ snap[r] # None
          /\ \E start \in BOOLEAN :
                /\ start => guest[r].kind = "qemu"
                /\ Ask(j, "snapshot-rollback", r, Key(r), [start |-> start])

Check(j) ==
    \/ CheckPower(j) \/ CheckCreate(j) \/ CheckClone(j) \/ CheckDelete(j)
    \/ CheckMigrate(j) \/ CheckUpdate(j) \/ CheckMoveDisk(j) \/ CheckSnapshot(j)

Phase(j, phase) == job' = [job EXCEPT ![j].phase = phase]

\* Bug: the task takes no lock.
SubmitUnlocked(j) ==
    /\ job[j].phase = "checked"
    /\ Phase(j, "queued")
    /\ UNCHANGED <<guest, snap, lock, request, interrupts>>

Submit(j) ==
    /\ job[j].phase = "checked"
    /\ \/ /\ lock[job[j].key] = None
          /\ lock' = [lock EXCEPT ![job[j].key] = j]
          /\ Phase(j, "queued")
       \/ /\ lock[job[j].key] # None
          /\ Phase(j, "refused")
          /\ UNCHANGED lock
    /\ UNCHANGED <<guest, snap, request, interrupts>>

-----------------------------------------------------------------------------
(***************************************************************************)
(* The task handlers.  A handler that raises fails its task.               *)
(***************************************************************************)
At(j, phase, ops) == job[j].phase = phase /\ job[j].op \in ops

Loads(j, seen, plan) ==
    /\ job' = [job EXCEPT ![j] = [@ EXCEPT !.seen = seen, !.plan = plan, !.phase = "loaded"]]
    /\ UNCHANGED <<guest, snap, lock, request, interrupts>>

Fails(j) == Phase(j, "failed") /\ UNCHANGED <<guest, snap, lock, request, interrupts>>

(***************************************************************************)
(* Power operations and migration: read the state, write it back with the  *)
(* intermediate status, sleep, write it again with the final status.       *)
(* Neither UPDATE looks at how many rows it changed.                       *)
(***************************************************************************)
\* Bug: the handler trusts the status the API handler has seen.
PlanPowerBlindly(j) ==
    /\ At(j, "queued", Stepwise) /\ Exists(job[j].row)
    /\ \E x \in Transitions : x.op = job[j].op /\ Loads(j, guest[job[j].row], x)

PlanPower(j) ==
    /\ At(j, "queued", Stepwise)
    /\ LET r == job[j].row IN
          \/ ~Exists(r) /\ Fails(j)
          \/ /\ Exists(r)
             /\ Plans(guest[r].status, job[j].op) = {}
             /\ Fails(j)
          \/ /\ Exists(r)
             /\ \E x \in Plans(guest[r].status, job[j].op) : Loads(j, guest[r], x)

Row(r, status, cfg, config, bump) ==
    [kind |-> guest[r].kind, vmid |-> guest[r].vmid, node |-> guest[r].node,
     version |-> guest[r].version + bump, status |-> status, cfg |-> cfg, config |-> config]

Store(r, row) == guest' = [guest EXCEPT ![r] = IF Exists(r) THEN row ELSE None]

BeginPower(j) ==
    /\ At(j, "loaded", Stepwise)
    /\ LET r == job[j].row IN
          Store(r, Row(r, job[j].plan.via, job[j].seen.cfg, guest[r].config, 0))
    /\ Phase(j, "half")
    /\ UNCHANGED <<snap, lock, request, interrupts>>

\* Bug: the second write leaves the intermediate status.
EndPowerHalfway(j) ==
    /\ At(j, "half", Power)
    /\ Phase(j, "applied")
    /\ UNCHANGED <<guest, snap, lock, request, interrupts>>

EndPower(j) ==
    /\ At(j, "half", Power)
    /\ LET r == job[j].row IN
          Store(r, Row(r, job[j].plan.to, job[j].seen.cfg, guest[r].config, 0))
    /\ Phase(j, "applied")
    /\ UNCHANGED <<snap, lock, request, interrupts>>

\* Bug: the second write forgets node_id.
EndMigrateNowhere(j) ==
    /\ At(j, "half", {"migrate"})
    /\ LET r == job[j].row IN
          Store(r, Row(r, job[j].plan.to, job[j].seen.cfg, guest[r].config, 1))
    /\ Phase(j, "applied")
    /\ UNCHANGED <<snap, lock, request, interrupts>>

EndMigrate(j) ==
    /\ At(j, "half", {"migrate"})
    /\ LET r   == job[j].row
           row == Row(r, job[j].plan.to, job[j].seen.cfg, guest[r].config, 1)
       IN  Store(r, [row EXCEPT !.node = job[j].args.node])
    /\ Phase(j, "applied")
    /\ UNCHANGED <<snap, lock, request, interrupts>>

(***************************************************************************)
(* INSERT of a guest: resources_cluster_vmid_idx makes the vmid unique     *)
(* among guests of both kinds.                                             *)
(***************************************************************************)
\* Bug: unique per kind, as before resources_cluster_vmid_idx.
InsertPerKind(j, status, cfg, config) ==
    /\ \A r \in Rows : Exists(r) => Key(r) # job[j].key
    /\ guest' = [guest EXCEPT ![j] =
          [kind |-> job[j].key[1], vmid |-> job[j].key[2], node |-> job[j].args.node,
           version |-> 1, status |-> status, cfg |-> cfg, config |-> config]]
    /\ Phase(j, "applied")
    /\ UNCHANGED <<snap, lock, request, interrupts>>

Insert(j, status, cfg, config) ==
    \/ VmidTaken(job[j].key[2]) /\ Fails(j)
    \/ /\ ~VmidTaken(job[j].key[2])
       /\ guest' = [guest EXCEPT ![j] =
             [kind |-> job[j].key[1], vmid |-> job[j].key[2], node |-> job[j].args.node,
              version |-> 1, status |-> status, cfg |-> cfg, config |-> config]]
       /\ Phase(j, "applied")
       /\ UNCHANGED <<snap, lock, request, interrupts>>

Create(j) ==
    /\ At(j, "queued", {"create"})
    /\ LET c == job[j].args.config IN
          Insert(j, IF job[j].args.start THEN "running" ELSE "stopped", c, c)

Overlay(under, over) == [k \in Keys |-> IF over[k] = None THEN under[k] ELSE over[k]]

Clone(j) ==
    /\ At(j, "loaded", {"clone"})
    /\ LET s == job[j].seen IN Insert(j, "stopped", Overlay(s.cfg, s.config), s.config)

Delete(j) ==
    /\ At(j, "queued", {"delete"})
    /\ LET r == job[j].row IN
          \/ ~Exists(r) /\ Fails(j)
          \/ /\ Exists(r)
             /\ guest' = [guest EXCEPT ![r] = None]
             /\ snap' = [snap EXCEPT ![r] = None]
             /\ Phase(j, "applied")
             /\ UNCHANGED <<lock, request, interrupts>>

(***************************************************************************)
(* The SELECT that opens the other transactions.                           *)
(***************************************************************************)
Load(j) ==
    /\ At(j, "queued", {"clone", "update", "move-disk", "snapshot-create", "snapshot-rollback"})
    /\ LET r   == job[j].row
           row == IF job[j].op = "snapshot-rollback" THEN snap[r] ELSE guest[r]
       IN  IF row = None THEN Fails(j) ELSE Loads(j, row, None)

Applies(j, row) ==
    /\ Store(job[j].row, row)
    /\ Phase(j, "applied")
    /\ UNCHANGED <<snap, lock, request, interrupts>>

(***************************************************************************)
(* update writes the whole state it has read, its status included.  An     *)
(* option may be set and deleted by one call: the column is changed before *)
(* the deletions and the state after them, so the column loses what the    *)
(* state keeps.                                                            *)
(***************************************************************************)
Deleted(c, args) == IF args.drop THEN [c EXCEPT ![args.key] = None] ELSE c
Changed(c, args) == IF args.value # None THEN [c EXCEPT ![args.key] = args.value] ELSE c

Update(j) ==
    /\ At(j, "loaded", {"update"})
    /\ LET s    == job[j].seen
           args == job[j].args
       IN  Applies(j, Row(job[j].row, s.status, Changed(Deleted(s.cfg, args), args),
                          Deleted(Changed(s.config, args), args), 1))

(***************************************************************************)
(* move-disk merges the moved disk into the state (state || ...), where    *)
(* the original stays; the name of the storage is left out of the value.   *)
(***************************************************************************)
MoveDisk(j) ==
    /\ At(j, "loaded", {"move-disk"})
    /\ LET r      == job[j].row
           args   == job[j].args
           volume == job[j].seen.config[args.from]
           copied == [job[j].seen.config EXCEPT ![args.to] = volume]
           moved  == IF args.drop /\ args.to # args.from
                     THEN [copied EXCEPT ![args.from] = None] ELSE copied
       IN  \/ volume = None /\ Fails(j)
           \/ /\ volume # None
              /\ Applies(j, Row(r, guest[r].status, [guest[r].cfg EXCEPT ![args.to] = volume],
                                moved, 1))

(***************************************************************************)
(* The INSERT of a snapshot fails if its name is taken or the guest gone.  *)
(***************************************************************************)
SnapshotCreate(j) ==
    /\ At(j, "loaded", {"snapshot-create"})
    /\ LET r == job[j].row
           s == job[j].seen
       IN  \/ (~Exists(r) \/ snap[r] # None) /\ Fails(j)
           \/ /\ Exists(r) /\ snap[r] = None
              /\ snap' = [snap EXCEPT ![r] = [status |-> s.status, cfg |-> s.cfg,
                                              config |-> s.config]]
              /\ Phase(j, "applied")
              /\ UNCHANGED <<guest, lock, request, interrupts>>

SnapshotDelete(j) ==
    /\ At(j, "queued", {"snapshot-delete"})
    /\ LET r == job[j].row IN
          \/ snap[r] = None /\ Fails(j)
          \/ /\ snap[r] # None
             /\ snap' = [snap EXCEPT ![r] = None]
             /\ Phase(j, "applied")
             /\ UNCHANGED <<guest, lock, request, interrupts>>

\* Bug: the column config is not rolled back.
SnapshotRollbackState(j) ==
    /\ At(j, "loaded", {"snapshot-rollback"})
    /\ LET s == job[j].seen IN
          Applies(j, Row(job[j].row, s.status, s.cfg, guest[job[j].row].config, 1))

SnapshotRollback(j) ==
    /\ At(j, "loaded", {"snapshot-rollback"})
    /\ LET s == job[j].seen IN
          Applies(j, Row(job[j].row, IF job[j].args.start THEN "running" ELSE s.status,
                         s.cfg, s.config, 1))

Handle(j) ==
    \/ PlanPower(j) \/ BeginPower(j) \/ EndPower(j) \/ EndMigrate(j)
    \/ Load(j) \/ Create(j) \/ Clone(j) \/ Delete(j) \/ Update(j) \/ MoveDisk(j)
    \/ SnapshotCreate(j) \/ SnapshotDelete(j) \/ SnapshotRollback(j)

-----------------------------------------------------------------------------
(***************************************************************************)
(* The task engine: finish releases the lock with the outcome; a           *)
(* cancellation ends the handler where it stands; a task whose process     *)
(* died is claimed by another and its handler starts over; and what a      *)
(* handler awaits, the log and the database, may raise anywhere.           *)
(***************************************************************************)
\* Bug: the lock outlives the task.
EndsLocked(j, outcome) == Phase(j, outcome) /\ UNCHANGED <<guest, snap, lock, request, interrupts>>

Ends(j, outcome) ==
    /\ Phase(j, outcome)
    /\ lock' = [k \in ResourceKeys |-> IF lock[k] = j THEN None ELSE lock[k]]
    /\ UNCHANGED <<guest, snap, request, interrupts>>

Finish(j) ==
    \/ job[j].phase = "applied" /\ Ends(j, "success")
    \/ job[j].phase = "failed" /\ Ends(j, "error")

Cancel(j) ==
    /\ Cancels
    /\ job[j].phase \in Active
    /\ Ends(j, "cancelled")

Interrupted ==
    /\ interrupts < MaxInterrupts
    /\ interrupts' = interrupts + 1

BreaksOff(j, phase) ==
    /\ job[j].phase \in Active \ {phase}
    /\ Interrupted
    /\ job' = [job EXCEPT ![j] = [@ EXCEPT !.seen = None, !.plan = None,
                                           !.phase = phase, !.hurt = TRUE]]
    /\ UNCHANGED <<guest, snap, lock, request>>

Reexecute(j) == BreaksOff(j, "queued")
Raise(j)     == BreaksOff(j, "failed")

-----------------------------------------------------------------------------
(***************************************************************************)
(* The handlers that write in the API call itself, without lock, and save  *)
(* the whole state they have read: PUT config, the agent operations, the   *)
(* conversion to a template; metrics, consoles and the monitor (look); and *)
(* unlink, for containers move_volume (volume).  resize merges into it.    *)
(***************************************************************************)
Proper(r, op, k, v) ==
    /\ op = "resize" => guest[r].config[k] # None /\ v # None
    /\ op = "agent" => guest[r].status = "running"
    /\ op \in {"agent", "look"} => v = None
    /\ op = "volume" => IF guest[r].kind = "qemu" THEN v = None
                                                 ELSE v # None /\ v = guest[r].config[k]
    /\ op = "template" => guest[r].status = "stopped" /\ k = Template /\ v # None

Complete == {p \in Requests : request[p].phase \in {"conflict", "done", "aborted"}}

\* Bug: the status does not matter.
ReadAnyStatus(q) == \E op \in Ops \cap Savers, r \in Rows, k \in Keys, v \in Values \cup {None} :
    /\ request[q].phase = "idle"
    /\ Offers(r, op)
    /\ request' = [request EXCEPT ![q] = [op |-> op, row |-> r, key |-> k, value |-> v,
                                          seen |-> guest[r], ended |-> Complete, phase |-> "read"]]
    /\ UNCHANGED <<guest, snap, job, lock, interrupts>>

Read(q) == \E op \in Ops \cap Savers, r \in Rows, k \in Keys, v \in Values \cup {None} :
    /\ request[q].phase = "idle"
    /\ Offers(r, op)
    /\ Proper(r, op, k, v)
    /\ request' = [request EXCEPT ![q] = [op |-> op, row |-> r, key |-> k, value |-> v,
                                          seen |-> guest[r], ended |-> Complete, phase |-> "read"]]
    /\ UNCHANGED <<guest, snap, job, lock, interrupts>>

Pending(q, op, phase) == request[q].op = op /\ request[q].phase = phase

Turns(q, phase) ==
    /\ request' = [request EXCEPT ![q].phase = phase]
    /\ UNCHANGED <<snap, job, lock, interrupts>>

Change(q, c) == [c EXCEPT ![request[q].key] = request[q].value]

(***************************************************************************)
(* UPDATE resources ... WHERE version=$2, then UPDATE virtual_machines.    *)
(***************************************************************************)
\* Bug: no AND version=$2.
PutStateUnchecked(q) ==
    /\ Pending(q, "put", "read")
    /\ LET r == request[q].row
           s == request[q].seen
       IN  Store(r, Row(r, s.status, Change(q, s.cfg), guest[r].config, 1))
    /\ Turns(q, "half")

PutState(q) ==
    /\ Pending(q, "put", "read")
    /\ LET r == request[q].row
           s == request[q].seen
       IN  \/ /\ Exists(r)
              /\ guest[r].version = s.version
              /\ Store(r, Row(r, s.status, Change(q, s.cfg), guest[r].config, 1))
              /\ Turns(q, "half")
           \/ /\ Exists(r) => guest[r].version # s.version
              /\ UNCHANGED guest
              /\ Turns(q, "conflict")

PutConfig(q) ==
    /\ Pending(q, "put", "half")
    /\ LET r == request[q].row IN
          Store(r, Row(r, guest[r].status, guest[r].cfg, Change(q, request[q].seen.config), 0))
    /\ Turns(q, "done")

(***************************************************************************)
(* resize and volume write the config column first, and then merge the     *)
(* disk into the state or save the state.  Some go on when the guest is    *)
(* gone; the statement that follows changes nothing either.                *)
(***************************************************************************)
SaveConfig(q) ==
    /\ Pending(q, "resize", "read") \/ Pending(q, "volume", "read")
    /\ LET r == request[q].row IN
          /\ Store(r, Row(r, guest[r].status, guest[r].cfg, Change(q, request[q].seen.config), 0))
          /\ Turns(q, IF Exists(r) THEN "half" ELSE "conflict")

ResizeState(q) ==
    /\ Pending(q, "resize", "half")
    /\ LET r == request[q].row IN
          Store(r, Row(r, guest[r].status, Change(q, guest[r].cfg), guest[r].config, 1))
    /\ Turns(q, "done")

\* The agent's shutdown and suspend set a status.
SavedStatuses(q) ==
    {request[q].seen.status} \cup IF request[q].op = "agent" THEN {"stopped", "paused"} ELSE {}

SaveState(q) ==
    /\ \/ Pending(q, "agent", "read")
       \/ Pending(q, "look", "read")
       \/ Pending(q, "volume", "half")
    /\ LET r == request[q].row IN
          \E status \in SavedStatuses(q) :
             Store(r, Row(r, status, request[q].seen.cfg, guest[r].config, 1))
    /\ Turns(q, "done")

(***************************************************************************)
(* The conversion first sets the column template, which nobody reads.      *)
(***************************************************************************)
ConvertColumn(q) ==
    /\ Pending(q, "template", "read")
    /\ Turns(q, "half")
    /\ UNCHANGED guest

ConvertState(q) ==
    /\ Pending(q, "template", "half")
    /\ LET r == request[q].row
           s == request[q].seen
       IN  Store(r, Row(r, s.status, Change(q, s.cfg), guest[r].config, 0))
    /\ Turns(q, "done")

(***************************************************************************)
(* One statement for all guests, or those of a node: start, stop, suspend  *)
(* and migrate all.  A bulk migration names its guests and moves each in a *)
(* statement of its own.                                                   *)
(***************************************************************************)
Sweeps(q, op) ==
    /\ request[q].phase = "idle"
    /\ op \in Ops
    /\ request' = [request EXCEPT ![q].op = op, ![q].phase = "done"]
    /\ UNCHANGED <<snap, job, lock, interrupts>>

On(ns) == {r \in Rows : Exists(r) /\ guest[r].node \in ns}

SetStatuses(q) == \E ns \in {Nodes} \cup {{n} : n \in Nodes}, status \in Settled :
    /\ guest' = [r \in Rows |-> IF r \in On(ns) THEN [guest[r] EXCEPT !.status = status]
                                                ELSE guest[r]]
    /\ Sweeps(q, "status all")

MigrateAll(q) == \E rs \in {On({n}) : n \in Nodes} \cup {{r} : r \in On(Nodes)}, to \in Nodes :
    /\ guest' = [r \in Rows |-> IF r \in rs THEN [guest[r] EXCEPT !.node = to] ELSE guest[r]]
    /\ Sweeps(q, "migrate all")

Abort(q) ==
    /\ request[q].phase \in {"read", "half"}
    /\ Interrupted
    /\ request' = [request EXCEPT ![q].phase = "aborted"]
    /\ UNCHANGED <<guest, snap, job, lock>>

Respond(q) ==
    \/ PutState(q) \/ PutConfig(q) \/ SaveConfig(q) \/ ResizeState(q) \/ SaveState(q)
    \/ ConvertColumn(q) \/ ConvertState(q)

Directly(q) == Read(q) \/ Respond(q) \/ Abort(q) \/ SetStatuses(q) \/ MigrateAll(q)

-----------------------------------------------------------------------------
(***************************************************************************)
(* Every call that was made has been answered and every task has ended.    *)
(***************************************************************************)
Quiet ==
    /\ \A j \in Jobs : job[j].phase \in {"idle", "refused", "success", "error", "cancelled"}
    /\ \A q \in Requests : request[q].phase \in {"idle", "conflict", "done", "aborted"}
    /\ UNCHANGED vars

Next ==
    \/ \E j \in Jobs :
          \/ Check(j) \/ Submit(j) \/ Handle(j) \/ Finish(j)
          \/ Cancel(j) \/ Reexecute(j) \/ Raise(j)
    \/ \E q \in Requests : Directly(q)
    \/ Quiet

Spec == Init /\ [][Next]_vars

(***************************************************************************)
(* The worker runs handlers to their end; handlers await only the clock    *)
(* and the database.                                                       *)
(***************************************************************************)
Fairness == \A j \in Jobs : WF_vars(Handle(j)) /\ WF_vars(Finish(j))

FairSpec == Spec /\ Fairness
=============================================================================
