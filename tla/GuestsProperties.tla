--------------------------- MODULE GuestsProperties ---------------------------
(***************************************************************************)
(* What the tasks and the direct calls should and should not do to guests. *)
(***************************************************************************)
EXTENDS Guests

TypeOK ==
    /\ guest \in [Rows -> Guest \cup {None}]
    /\ snap \in [Rows -> Snapshot \cup {None}]
    /\ lock \in [ResourceKeys -> Jobs \cup {None}]
    /\ \A j \in Jobs :
          /\ job[j].op \in TaskOps \cup {None}
          /\ job[j].row \in Rows \cup {None}
          /\ job[j].key \in ResourceKeys \cup {None}
          /\ job[j].seen \in Guest \cup Snapshot \cup {None}
          /\ job[j].plan \in Transitions \cup {None}
          /\ job[j].phase \in Active \cup {"idle", "checked", "refused",
                                           "success", "error", "cancelled"}
          /\ job[j].hurt \in BOOLEAN
    /\ \A q \in Requests :
          /\ request[q].op \in DirectOps \cup {None}
          /\ request[q].seen \in Guest \cup {None}
          /\ request[q].ended \subseteq Requests
          /\ request[q].phase \in {"idle", "read", "half", "done", "conflict", "aborted"}
    /\ interrupts \in 0 .. MaxInterrupts

(***************************************************************************)
(* One guest per vmid, virtual machine or container, whichever of several  *)
(* concurrent create and clone calls saw the vmid free.                    *)
(***************************************************************************)
VmidUnique ==
    \A r, s \in Rows : Exists(r) /\ Exists(s) /\ guest[r].vmid = guest[s].vmid => r = s

(***************************************************************************)
(* A guest shows an intermediate status only while a power task or a       *)
(* migration is between its two writes, or because one was cancelled, lost *)
(* its process or raised there: the executions of the tasks on one guest   *)
(* do not write each other's statuses back.                                *)
(***************************************************************************)
LeftBy(j, r) == /\ job[j].row = r /\ job[j].op \in Stepwise
                /\ job[j].hurt \/ job[j].phase = "cancelled"

TransientExplained ==
    \A r \in Rows : Exists(r) /\ guest[r].status \in Transient =>
       \E j \in Jobs : LeftBy(j, r) \/ (job[j].row = r /\ At(j, "half", Stepwise))

(***************************************************************************)
(* No snapshot captures a guest halfway through an operation, to be stuck  *)
(* there after a rollback, unless it was already stuck.                    *)
(***************************************************************************)
SnapshotsSettled ==
    \A r \in Rows : snap[r] # None /\ snap[r].status \in Transient =>
       \E j \in Jobs : LeftBy(j, r)

(***************************************************************************)
(* The configuration in resources.state and the one in the column config   *)
(* are the same, in every guest and every snapshot, except an option that  *)
(* a task took out of the column and left in the state, from where clones, *)
(* snapshots and rollbacks carry it on: _move_disk does so to a disk that  *)
(* it moves and deletes, _update to an option that it sets and deletes.    *)
(***************************************************************************)
Parts(j, k) ==
    \/ /\ job[j].op = "move-disk"
       /\ job[j].args.from = k /\ job[j].args.to # k /\ job[j].args.drop
    \/ /\ job[j].op = "update"
       /\ job[j].args.key = k /\ job[j].args.value # None /\ job[j].args.drop

Parted(k) ==
    \E j \in Jobs : /\ Parts(j, k)
                    /\ job[j].hurt \/ job[j].phase \in {"applied", "success", "cancelled"}

Agree(row) ==
    \A k \in Keys : row.cfg[k] = row.config[k] \/ (row.config[k] = None /\ Parted(k))

CopiesAgree ==
    \A r \in Rows : (Exists(r) => Agree(guest[r])) /\ (snap[r] # None => Agree(snap[r]))

(***************************************************************************)
(* From a handler's last write until its task has ended and given up the   *)
(* resource, what the task is about to report as a success is the case.    *)
(***************************************************************************)
UpdateAchieved(row, args) ==
    /\ args.value # None => row.cfg[args.key] = args.value
    /\ args.value # None /\ ~args.drop => row.config[args.key] = args.value
    /\ args.drop => row.config[args.key] = None

Achieved(j) ==
    LET r == job[j].row
        args == job[j].args
    IN  CASE job[j].op \in Power              -> Exists(r) /\ guest[r].status = job[j].plan.to
          [] job[j].op = "migrate"            -> /\ Exists(r) /\ guest[r].node = args.node
                                                 /\ guest[r].status = job[j].plan.to
          [] job[j].op \in {"create", "clone"} -> Exists(j)
          [] job[j].op = "delete"             -> ~Exists(r)
          [] job[j].op = "update"             -> /\ Exists(r)
                                                 /\ UpdateAchieved(guest[r], args)
          [] job[j].op = "snapshot-create"    -> snap[r] # None
          [] job[j].op = "snapshot-delete"    -> snap[r] = None
          [] job[j].op = "snapshot-rollback"  -> Exists(r) /\ guest[r].config = job[j].seen.config
          [] OTHER                            -> TRUE

AppliedMeansAchieved == \A j \in Jobs : job[j].phase = "applied" => Achieved(j)

(***************************************************************************)
(* "Explicit virtual-machine state machine": but for a rollback, a status  *)
(* only changes along the table, from a state to the intermediate one and  *)
(* from there to the final one; and no guest is deleted while a task is    *)
(* between those two writes.                                               *)
(***************************************************************************)
AlongTable(from, to) == \E x \in Transitions : \/ from = x.from /\ to = x.via
                                               \/ from = x.via /\ to = x.to

RollsBack(r) == \E j \in Jobs : /\ At(j, "loaded", {"snapshot-rollback"})
                                /\ job[j].row = r /\ job'[j].phase = "applied"

StatusFollowsTable ==
    [][\A r \in Rows : Exists(r) =>
          IF guest'[r] = None
          THEN \A j \in Jobs : ~(job[j].row = r /\ At(j, "half", Stepwise))
          ELSE \/ guest'[r].status = guest[r].status
               \/ AlongTable(guest[r].status, guest'[r].status)
               \/ RollsBack(r)]_vars

(***************************************************************************)
(* "configuration changed concurrently": a PUT that is accepted changes    *)
(* the options it names and nothing else; it never puts back what another  *)
(* call or task has changed since it read the guest.  Of its second        *)
(* statement, which writes the column config as it was read, this is only  *)
(* so if no other writer was counted since the first, and no call that     *)
(* writes the column and counts apart from it overlaps the PUT.            *)
(***************************************************************************)
Accepts(q)   == Pending(q, "put", "read") /\ request'[q].phase = "half"
Completes(q) == Pending(q, "put", "half") /\ request'[q].phase = "done"

ColumnApart == {"put", "resize", "volume"}

Crossed(q) ==
    \E p \in Requests \ {q} : /\ request[p].phase # "idle" /\ request[p].op \in ColumnApart
                              /\ request[p].row = request[q].row
                              /\ p \notin request[q].ended

StateKept(q) ==
    LET r == request[q].row IN
       Accepts(q) =>
          /\ guest'[r].status = guest[r].status
          /\ \A k \in Keys \ {request[q].key} : guest'[r].cfg[k] = guest[r].cfg[k]

ColumnKept(q) ==
    LET r == request[q].row IN
       Completes(q) /\ Exists(r) /\ guest[r].version = request[q].seen.version + 1 =>
          \/ \A k \in Keys \ {request[q].key} : guest'[r].config[k] = guest[r].config[k]
          \/ Crossed(q)

PutKeepsTheRest == [][\A q \in Requests : StateKept(q) /\ ColumnKept(q)]_vars

(***************************************************************************)
(* "cannot delete a running virtual machine".                              *)
(***************************************************************************)
DeletesOnlyStopped ==
    [][\A r \in Rows : Exists(r) /\ guest'[r] = None => guest[r].status = "stopped"]_vars

(***************************************************************************)
(* Every operation on a guest settles, in spite of whatever fails: a guest *)
(* shows an intermediate status for good only because a task on it was     *)
(* cancelled, executed again or raised.                                    *)
(***************************************************************************)
Unsettled(r) == Exists(r) /\ guest[r].status \in Transient

OperationsSettle ==
    \A r \in Rows : Unsettled(r) ~> (~Unsettled(r) \/ \E j \in Jobs : LeftBy(j, r))

-----------------------------------------------------------------------------
(***************************************************************************)
(* The tasks of this module keep the promise that the task engine keeps,   *)
(* so what is assumed of the engine here is what is shown of it there.     *)
(***************************************************************************)
TaskState == [j \in Jobs |->
    CASE job[j].phase \in Active -> "active"
      [] job[j].phase \in {"success", "error", "cancelled"} -> job[j].phase
      [] OTHER -> "none"]

Engine == INSTANCE TaskPromise WITH
    Tasks <- Jobs, IdempotencyKeys <- {}, state <- TaskState, holder <- lock, used <- {}

EnginePromise == Engine!Promise
=============================================================================
