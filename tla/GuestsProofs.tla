----------------------------- MODULE GuestsProofs -----------------------------
(***************************************************************************)
(* Proofs about guests, for any number of rows, tasks and direct calls.    *)
(*                                                                         *)
(* Handles says what a step of any handler does and what it leaves alone;  *)
(* one lemma per handler shows it (PlanPowerHandles ...).  From that, and  *)
(* from what the other steps do, Sane is an invariant: the types, where a  *)
(* row's key comes from (Placed), who holds the lock (Locking) and that    *)
(* vmids are unique.                                                       *)
(*                                                                         *)
(* Two tasks that hold their locks have different targets.  So a status    *)
(* that a task reads and later writes back was that of a settled guest or  *)
(* of a stuck one, and the direct calls other than the Rewriters write no  *)
(* intermediate one: Transients is an invariant; Leaves says what handlers *)
(* do for it (PlanPowerLeaves ...), TransientsKept that this is enough.    *)
(*                                                                         *)
(* While only tasks write, no handler's target is written by another.      *)
(* Sound says what that means for a task (what its handler has seen is     *)
(* still so), RowSound for a row; one lemma per handler shows that it      *)
(* leaves its own task and target sound (PlanPowerSound ...), TaskKept and *)
(* RowKept that the others stay sound.                                     *)
(*                                                                         *)
(* While all writers count versions, one version of a row has one status   *)
(* and one configuration (VersionsCount), and what a PUT has read is still *)
(* so or the version tells (Fresh): Counted is an invariant.               *)
(***************************************************************************)
EXTENDS GuestsProperties, TLAPS

Phases == Active \cup {"idle", "checked", "refused", "success", "error", "cancelled"}

Statuses == Settled \cup Transient

CreateArgs   == [node : Nodes, config : Configs, start : BOOLEAN]
NodeArgs     == [node : Nodes]
OptionArgs   == [key : Keys, value : Values \cup {None}, drop : BOOLEAN]
MoveArgs     == [from : Keys, to : Keys, drop : BOOLEAN]
RollbackArgs == [start : BOOLEAN]

Arguments == {None} \cup CreateArgs \cup NodeArgs \cup OptionArgs \cup MoveArgs \cup RollbackArgs

JobRecords ==
  [op : TaskOps \cup {None}, row : Rows \cup {None}, key : ResourceKeys \cup {None},
   args : Arguments, seen : Guest \cup Snapshot \cup {None}, plan : Transitions \cup {None},
   phase : Phases, hurt : BOOLEAN]

RequestRecords ==
  [op : DirectOps \cup {None}, row : Rows \cup {None}, key : Keys \cup {None},
   value : Values \cup {None}, seen : Guest \cup {None}, ended : SUBSET Requests,
   phase : {"idle", "read", "half", "done", "conflict", "aborted"}]

GuestReaders == {"clone", "update", "move-disk", "snapshot-create"}

(* The payload that a task of each operation has, and what it has read.    *)
Shaped(j) ==
  /\ job[j].phase = "idle" => job[j].row = None /\ job[j].hurt = FALSE
  /\ job[j].phase # "idle" => job[j].op \in TaskOps /\ job[j].key \in ResourceKeys
  /\ job[j].phase # "idle" /\ job[j].op # "create" => job[j].row \in Rows
  /\ job[j].op = "create" => job[j].args \in CreateArgs \/ job[j].phase = "idle"
  /\ job[j].op \in {"clone", "migrate"} => job[j].args \in NodeArgs \/ job[j].phase = "idle"
  /\ job[j].op = "update" => job[j].args \in OptionArgs \/ job[j].phase = "idle"
  /\ job[j].op = "move-disk" => job[j].args \in MoveArgs \/ job[j].phase = "idle"
  /\ job[j].op = "snapshot-rollback" => job[j].args \in RollbackArgs \/ job[j].phase = "idle"
  /\ job[j].phase \in {"loaded", "half"} =>
       /\ job[j].op \in Stepwise => job[j].seen \in Guest /\ job[j].plan \in Transitions
       /\ job[j].op \in GuestReaders => job[j].seen \in Guest
       /\ job[j].op = "snapshot-rollback" => job[j].seen \in Snapshot
  /\ job[j].phase = "half" => job[j].op \in Stepwise
  /\ job[j].phase = "loaded" => job[j].op \in Stepwise \cup GuestReaders \cup {"snapshot-rollback"}

RequestShaped(q) ==
  request[q].phase \in {"read", "half"} =>
    request[q].row \in Rows /\ request[q].key \in Keys /\ request[q].seen \in Guest

Tables ==
  /\ guest \in [Rows -> Guest \cup {None}]
  /\ snap \in [Rows -> Snapshot \cup {None}]
  /\ lock \in [ResourceKeys -> Jobs \cup {None}]

Typed ==
  /\ Tables
  /\ job \in [Jobs -> JobRecords] /\ \A j \in Jobs : Shaped(j)
  /\ request \in [Requests -> RequestRecords] /\ \A q \in Requests : RequestShaped(q)
  /\ interrupts \in 0 .. MaxInterrupts

LEMMA TypedTypeOK == Typed => TypeOK
<1> SUFFICES ASSUME Typed PROVE TypeOK
  OBVIOUS
<1>1. \A j \in Jobs : job[j] \in JobRecords
  BY DEF Typed
<1>2. \A q \in Requests : request[q] \in RequestRecords
  BY DEF Typed
<1> QED
  BY <1>1, <1>2 DEF TypeOK, Typed, Tables, JobRecords, RequestRecords, Phases

(* The table.                                                              *)
LEMMA Transition ==
  ASSUME NEW x \in Transitions
  PROVE  /\ x.via \in Transient /\ x.via \notin Settled
         /\ x.to \in Settled /\ x.from \in Settled
<1>1. x.via \in Transient
  BY DEF Transient
<1> QED
  BY <1>1 DEF Transitions, Edge, Settled

LEMMA SettledNotTransient == \A s \in Settled : s \notin Transient
<1> SUFFICES ASSUME NEW x \in Transitions PROVE x.via \notin Settled
  BY DEF Transient
<1> QED
  BY Transition

LEMMA InitTyped == Init => Typed
<1> SUFFICES ASSUME Init PROVE Typed
  OBVIOUS
<1>1. \A j \in Jobs : job[j] = Idle
  BY DEF Init
<1>2. Idle \in JobRecords
  BY DEF Idle, JobRecords, Phases, Arguments
<1>3. \A j \in Jobs : Shaped(j)
  <2> SUFFICES ASSUME NEW j \in Jobs PROVE Shaped(j)
    OBVIOUS
  <2>1. job[j].phase = "idle" /\ job[j].row = None /\ job[j].hurt = FALSE
    BY <1>1 DEF Idle
  <2> QED
    BY <2>1 DEF Shaped
<1>4. job \in [Jobs -> JobRecords]
  BY <1>2 DEF Init
<1>5. request \in [Requests -> RequestRecords] /\ \A q \in Requests : RequestShaped(q)
  BY DEF Init, RequestRecords, RequestShaped
<1>6. Tables
  BY SeedAssumption DEF Init, Tables, Rows
<1>7. interrupts \in 0 .. MaxInterrupts
  BY NamesAssumption DEF Init
<1> QED
  BY <1>3, <1>4, <1>5, <1>6, <1>7 DEF Typed

-----------------------------------------------------------------------------
(* How the steps change the records of tasks, requests and guests.         *)
LEMMA PhaseStep ==
  ASSUME Typed, NEW j \in Jobs, NEW phase \in Phases, Phase(j, phase)
  PROVE  /\ job' \in [Jobs -> JobRecords]
         /\ job'[j].phase = phase
         /\ job'[j].op = job[j].op /\ job'[j].row = job[j].row /\ job'[j].key = job[j].key
         /\ job'[j].args = job[j].args /\ job'[j].seen = job[j].seen
         /\ job'[j].plan = job[j].plan /\ job'[j].hurt = job[j].hurt
         /\ \A i \in Jobs : i # j => job'[i] = job[i]
<1> DEFINE new == [job[j] EXCEPT !.phase = phase]
<1>1. job \in [Jobs -> JobRecords] /\ job[j] \in JobRecords
  BY DEF Typed
<1>2. /\ new \in JobRecords /\ new.phase = phase
      /\ new.op = job[j].op /\ new.row = job[j].row /\ new.key = job[j].key
      /\ new.args = job[j].args /\ new.seen = job[j].seen
      /\ new.plan = job[j].plan /\ new.hurt = job[j].hurt
  BY <1>1 DEF JobRecords
<1>3. job' = [job EXCEPT ![j] = new]
  BY DEF Phase
<1> HIDE DEF new
<1> QED
  BY <1>1, <1>2, <1>3

LEMMA LoadsStep ==
  ASSUME Typed, NEW j \in Jobs, NEW seen \in Guest \cup Snapshot,
         NEW plan \in Transitions \cup {None}, Loads(j, seen, plan)
  PROVE  /\ job' \in [Jobs -> JobRecords]
         /\ job'[j].phase = "loaded" /\ job'[j].seen = seen /\ job'[j].plan = plan
         /\ job'[j].op = job[j].op /\ job'[j].row = job[j].row /\ job'[j].key = job[j].key
         /\ job'[j].args = job[j].args /\ job'[j].hurt = job[j].hurt
         /\ \A i \in Jobs : i # j => job'[i] = job[i]
<1> DEFINE read == [job[j] EXCEPT !.seen = seen]
           planned == [read EXCEPT !.plan = plan]
           new == [planned EXCEPT !.phase = "loaded"]
<1>1. job \in [Jobs -> JobRecords] /\ job[j] \in JobRecords
  BY DEF Typed
<1>2. job' = [job EXCEPT ![j] = new]
  BY DEF Loads
<1>3. /\ read \in JobRecords /\ read.seen = seen
      /\ read.op = job[j].op /\ read.row = job[j].row /\ read.key = job[j].key
      /\ read.args = job[j].args /\ read.hurt = job[j].hurt
  BY <1>1 DEF JobRecords
<1> HIDE DEF read
<1>4. /\ planned \in JobRecords /\ planned.seen = seen /\ planned.plan = plan
      /\ planned.op = read.op /\ planned.row = read.row /\ planned.key = read.key
      /\ planned.args = read.args /\ planned.hurt = read.hurt
  BY <1>3 DEF JobRecords
<1> HIDE DEF planned
<1>5. /\ new \in JobRecords /\ new.seen = seen /\ new.plan = plan /\ new.phase = "loaded"
      /\ new.op = planned.op /\ new.row = planned.row /\ new.key = planned.key
      /\ new.args = planned.args /\ new.hurt = planned.hurt
  BY <1>4 DEF JobRecords, Phases, Active
<1> HIDE DEF new
<1> QED
  BY <1>1, <1>2, <1>3, <1>4, <1>5

LEMMA BreaksOffStep ==
  ASSUME Typed, NEW j \in Jobs, NEW phase \in {"queued", "failed"}, BreaksOff(j, phase)
  PROVE  /\ job' \in [Jobs -> JobRecords]
         /\ job'[j].phase = phase /\ job'[j].hurt = TRUE
         /\ job'[j].op = job[j].op /\ job'[j].row = job[j].row /\ job'[j].key = job[j].key
         /\ job'[j].args = job[j].args
         /\ \A i \in Jobs : i # j => job'[i] = job[i]
         /\ interrupts' \in 0 .. MaxInterrupts
<1> DEFINE unread == [job[j] EXCEPT !.seen = None]
           unplanned == [unread EXCEPT !.plan = None]
           moved == [unplanned EXCEPT !.phase = phase]
           new == [moved EXCEPT !.hurt = TRUE]
<1>1. job \in [Jobs -> JobRecords] /\ job[j] \in JobRecords
  BY DEF Typed
<1>2. job' = [job EXCEPT ![j] = new]
  BY DEF BreaksOff
<1>3. /\ unread \in JobRecords
      /\ unread.op = job[j].op /\ unread.row = job[j].row /\ unread.key = job[j].key
      /\ unread.args = job[j].args
  BY <1>1 DEF JobRecords
<1> HIDE DEF unread
<1>4. /\ unplanned \in JobRecords
      /\ unplanned.op = unread.op /\ unplanned.row = unread.row /\ unplanned.key = unread.key
      /\ unplanned.args = unread.args
  BY <1>3 DEF JobRecords
<1> HIDE DEF unplanned
<1>5. /\ moved \in JobRecords /\ moved.phase = phase
      /\ moved.op = unplanned.op /\ moved.row = unplanned.row /\ moved.key = unplanned.key
      /\ moved.args = unplanned.args
  BY <1>4 DEF JobRecords, Phases, Active
<1> HIDE DEF moved
<1>6. /\ new \in JobRecords /\ new.phase = phase /\ new.hurt = TRUE
      /\ new.op = moved.op /\ new.row = moved.row /\ new.key = moved.key
      /\ new.args = moved.args
  BY <1>5 DEF JobRecords
<1> HIDE DEF new
<1>7. interrupts' \in 0 .. MaxInterrupts
  BY NamesAssumption DEF Typed, BreaksOff, Interrupted
<1> QED
  BY <1>1, <1>2, <1>3, <1>4, <1>5, <1>6, <1>7

LEMMA AskStep ==
  ASSUME Typed, NEW j \in Jobs, NEW op \in TaskOps, NEW row \in Rows \cup {None},
         NEW key \in ResourceKeys, NEW args \in Arguments, Ask(j, op, row, key, args)
  PROVE  /\ job' \in [Jobs -> JobRecords]
         /\ job'[j].op = op /\ job'[j].row = row /\ job'[j].key = key /\ job'[j].args = args
         /\ job'[j].phase = "checked" /\ job'[j].hurt = FALSE
         /\ \A i \in Jobs : i # j => job'[i] = job[i]
         /\ job[j].phase = "idle"
         /\ UNCHANGED <<guest, snap, lock, request, interrupts>>
<1> DEFINE new == [op |-> op, row |-> row, key |-> key, args |-> args,
                   seen |-> None, plan |-> None, phase |-> "checked", hurt |-> FALSE]
<1>1. job \in [Jobs -> JobRecords]
  BY DEF Typed
<1>2. new \in JobRecords
  BY DEF JobRecords, Phases
<1>3. job' = [job EXCEPT ![j] = new]
  BY DEF Ask
<1>4. job' \in [Jobs -> JobRecords] /\ job'[j] = new /\ \A i \in Jobs : i # j => job'[i] = job[i]
  <2> HIDE DEF new
  <2> QED
    BY <1>1, <1>2, <1>3
<1> QED
  BY <1>4 DEF Ask

LEMMA RowFields ==
  ASSUME NEW r \in Rows, guest[r] \in Guest, NEW status \in Statuses, NEW cfg \in Configs,
         NEW config \in Configs, NEW bump \in {0, 1}
  PROVE  /\ Row(r, status, cfg, config, bump) \in Guest
         /\ Row(r, status, cfg, config, bump).status = status
         /\ Row(r, status, cfg, config, bump).cfg = cfg
         /\ Row(r, status, cfg, config, bump).config = config
         /\ Row(r, status, cfg, config, bump).kind = guest[r].kind
         /\ Row(r, status, cfg, config, bump).vmid = guest[r].vmid
         /\ Row(r, status, cfg, config, bump).node = guest[r].node
<1>1. guest[r].version + bump \in Nat
  BY DEF Guest
<1> QED
  BY <1>1 DEF Row, Guest, Statuses

LEMMA StoreStep ==
  ASSUME Typed, NEW r \in Rows, NEW row, Exists(r) => row \in Guest, Store(r, row)
  PROVE  /\ guest' \in [Rows -> Guest \cup {None}]
         /\ Exists(r) => guest'[r] = row /\ row # None
         /\ ~Exists(r) => guest'[r] = None
         /\ \A s \in Rows : s # r => guest'[s] = guest[s]
<1> DEFINE new == IF Exists(r) THEN row ELSE None
<1>1. new \in Guest \cup {None} /\ (Exists(r) => new = row /\ new # None) /\ (~Exists(r) => new = None)
  BY NamesAssumption
<1>2. guest' = [guest EXCEPT ![r] = new]
  BY DEF Store
<1> HIDE DEF new
<1>3. guest'[r] = new /\ \A s \in Rows : s # r => guest'[s] = guest[s]
  BY <1>2 DEF Typed, Tables
<1>4. guest' \in [Rows -> Guest \cup {None}]
  BY <1>1, <1>2 DEF Typed, Tables
<1> QED
  BY <1>1, <1>3, <1>4 DEF Exists

-----------------------------------------------------------------------------
(* What a step of task j does, whichever it is.                            *)
Target(j) == IF job[j].op \in {"create", "clone"} THEN j ELSE job[j].row

(* The row of the task: it keeps its payload and never forgets that it was *)
(* lost or has applied its effect.                                         *)
Proceeds(j) ==
  /\ job' \in [Jobs -> JobRecords] /\ Shaped(j)'
  /\ \A i \in Jobs : i # j => job'[i] = job[i]
  /\ job'[j].op = job[j].op /\ job'[j].row = job[j].row /\ job'[j].key = job[j].key
  /\ job'[j].args = job[j].args
  /\ job[j].phase \in Active \cup {"checked"} /\ job'[j].phase # "idle"
  /\ job[j].hurt => job'[j].hurt
  /\ job[j].phase = "applied" => job'[j].phase \in {"applied", "success", "cancelled"} \/ job'[j].hurt
  /\ job[j].phase = "half" => job'[j].phase \in {"applied", "cancelled"} \/ job'[j].hurt

(* It writes one row; a guest keeps its key, and a new one has the task's. *)
WritesTarget(j) ==
  /\ \A s \in Rows : s # Target(j) => guest'[s] = guest[s] /\ snap'[s] = snap[s]
  /\ \A s \in Rows : Exists(s) /\ Exists(s)' =>
       guest'[s].kind = guest[s].kind /\ guest'[s].vmid = guest[s].vmid
  /\ \A s \in Rows : ~Exists(s) /\ Exists(s)' =>
       /\ s = j /\ job[j].op \in {"create", "clone"}
       /\ guest'[s].kind = job[j].key[1] /\ guest'[s].vmid = job[j].key[2]
       /\ ~VmidTaken(job[j].key[2])

Handles(j) ==
  /\ Proceeds(j) /\ Tables' /\ WritesTarget(j)
  /\ job[j].phase \in Active /\ job'[j].phase \in Active
  /\ UNCHANGED <<lock, request, interrupts>>

LEMMA PhaseProceeds ==
  ASSUME Typed, NEW j \in Jobs, NEW phase \in {"half", "applied", "failed"}, Phase(j, phase),
         job[j].phase \in {"queued", "loaded", "half"},
         phase = "half" => job[j].phase = "loaded" /\ job[j].op \in Stepwise,
         job[j].phase = "half" => phase = "applied"
  PROVE  /\ Proceeds(j)
         /\ job[j].phase \in Active /\ job'[j].phase = phase /\ phase \in Active
         /\ job'[j].seen = job[j].seen /\ job'[j].plan = job[j].plan
<1>1. /\ phase \in Phases /\ phase \in Active /\ job[j].phase \in Active
  BY DEF Phases, Active
<1>2. /\ job' \in [Jobs -> JobRecords]
      /\ job'[j].phase = phase
      /\ job'[j].op = job[j].op /\ job'[j].row = job[j].row /\ job'[j].key = job[j].key
      /\ job'[j].args = job[j].args /\ job'[j].seen = job[j].seen
      /\ job'[j].plan = job[j].plan /\ job'[j].hurt = job[j].hurt
      /\ \A i \in Jobs : i # j => job'[i] = job[i]
  BY <1>1, PhaseStep
<1>3. Shaped(j)
  BY DEF Typed
<1>4. Shaped(j)'
  BY <1>2, <1>3 DEF Shaped
<1> QED
  BY <1>1, <1>2, <1>4 DEF Proceeds

LEMMA FailsHandles ==
  ASSUME Typed, NEW j \in Jobs, Fails(j), job[j].phase \in {"queued", "loaded"}
  PROVE  Handles(j)
<1>1. Phase(j, "failed") /\ UNCHANGED <<guest, snap, lock, request, interrupts>>
  BY DEF Fails
<1>2. Proceeds(j) /\ job[j].phase \in Active /\ job'[j].phase \in Active
  BY <1>1, PhaseProceeds
<1>3. Tables' /\ WritesTarget(j)
  BY <1>1 DEF Typed, Tables, WritesTarget, Exists
<1> QED
  BY <1>1, <1>2, <1>3 DEF Handles

LEMMA LoadsHandles ==
  ASSUME Typed, NEW j \in Jobs, job[j].phase = "queued", NEW seen \in Guest \cup Snapshot,
         NEW plan \in Transitions \cup {None}, Loads(j, seen, plan),
         \/ job[j].op \in Stepwise /\ seen \in Guest /\ plan \in Transitions
         \/ job[j].op \in GuestReaders /\ seen \in Guest
         \/ job[j].op = "snapshot-rollback" /\ seen \in Snapshot
  PROVE  Handles(j)
<1>1. UNCHANGED <<guest, snap, lock, request, interrupts>>
  BY DEF Loads
<1>2. /\ job' \in [Jobs -> JobRecords]
      /\ job'[j].phase = "loaded" /\ job'[j].seen = seen /\ job'[j].plan = plan
      /\ job'[j].op = job[j].op /\ job'[j].row = job[j].row /\ job'[j].key = job[j].key
      /\ job'[j].args = job[j].args /\ job'[j].hurt = job[j].hurt
      /\ \A i \in Jobs : i # j => job'[i] = job[i]
  BY LoadsStep
<1>3. Shaped(j)
  BY DEF Typed
<1>4. Shaped(j)'
  <2>1. CASE job[j].op \in Stepwise /\ seen \in Guest /\ plan \in Transitions
    BY <1>2, <1>3, <2>1 DEF Shaped, Stepwise, Power, GuestReaders
  <2>2. CASE job[j].op \in GuestReaders /\ seen \in Guest
    BY <1>2, <1>3, <2>2 DEF Shaped, Stepwise, Power, GuestReaders
  <2>3. CASE job[j].op = "snapshot-rollback" /\ seen \in Snapshot
    BY <1>2, <1>3, <2>3 DEF Shaped, Stepwise, Power, GuestReaders
  <2> QED
    BY <2>1, <2>2, <2>3
<1>5. Proceeds(j) /\ job[j].phase \in Active /\ job'[j].phase \in Active
  BY <1>2, <1>4 DEF Proceeds, Active
<1>6. Tables' /\ WritesTarget(j)
  BY <1>1 DEF Typed, Tables, WritesTarget, Exists
<1> QED
  BY <1>1, <1>5, <1>6 DEF Handles

(* A handler's UPDATE of the guest.                                        *)
LEMMA StoreHandles ==
  ASSUME Typed, NEW j \in Jobs, NEW phase \in {"half", "applied"}, Phase(j, phase),
         job[j].phase \in {"loaded", "half"},
         phase = "half" => job[j].phase = "loaded" /\ job[j].op \in Stepwise,
         job[j].phase = "half" => phase = "applied",
         job[j].op \notin {"create", "clone"},
         NEW row, Store(job[j].row, row), UNCHANGED <<snap, lock, request, interrupts>>,
         guest[job[j].row] \in Guest =>
           /\ row \in Guest
           /\ row.kind = guest[job[j].row].kind /\ row.vmid = guest[job[j].row].vmid
  PROVE  Handles(j)
<1>1. job[j].row \in Rows /\ Target(j) = job[j].row
  BY DEF Typed, Shaped, Target
<1>2. Proceeds(j) /\ job[j].phase \in Active /\ job'[j].phase \in Active
  BY PhaseProceeds
<1>3. PICK r \in Rows : r = job[j].row
  BY <1>1
<1>4. Exists(r) => row \in Guest /\ row.kind = guest[r].kind /\ row.vmid = guest[r].vmid
  BY <1>3 DEF Typed, Tables, Exists
<1>5. Store(r, row)
  BY <1>3
<1>6. /\ guest' \in [Rows -> Guest \cup {None}]
      /\ Exists(r) => guest'[r] = row /\ row # None
      /\ ~Exists(r) => guest'[r] = None
      /\ \A s \in Rows : s # r => guest'[s] = guest[s]
  BY <1>4, <1>5, StoreStep
<1>7. Tables'
  BY <1>6 DEF Typed, Tables
<1>8. WritesTarget(j)
  BY <1>1, <1>3, <1>4, <1>6 DEF WritesTarget, Exists
<1> QED
  BY <1>2, <1>7, <1>8 DEF Handles

-----------------------------------------------------------------------------
(* The resource key a row has as long as it exists, and the tasks on it.   *)
Home(r) == IF r \in Seeded THEN <<Seed[r].kind, Seed[r].vmid>> ELSE job[r].key

Known(r) == r \in Jobs => job[r].phase # "idle"

Placed ==
  /\ \A r \in Rows : Exists(r) => Key(r) = Home(r) /\ Known(r)
  /\ \A j \in Jobs : job[j].phase # "idle" =>
       Target(j) \in Rows /\ Known(Target(j)) /\ job[j].key = Home(Target(j))

(* INSERT of a guest.                                                      *)
LEMMA InsertHandles ==
  ASSUME Typed, Placed, NEW j \in Jobs, job[j].op \in {"create", "clone"},
         job[j].phase \in {"queued", "loaded"},
         NEW status \in Statuses, NEW cfg \in Configs, NEW config \in Configs,
         Insert(j, status, cfg, config)
  PROVE  Handles(j)
<1> DEFINE new == [kind |-> job[j].key[1], vmid |-> job[j].key[2], node |-> job[j].args.node,
                   version |-> 1, status |-> status, cfg |-> cfg, config |-> config]
<1>1. CASE Fails(j)
  BY <1>1, FailsHandles
<1>2. CASE /\ ~VmidTaken(job[j].key[2]) /\ guest' = [guest EXCEPT ![j] = new]
           /\ Phase(j, "applied") /\ UNCHANGED <<snap, lock, request, interrupts>>
  <2>1. Proceeds(j) /\ job[j].phase \in Active /\ job'[j].phase \in Active
    BY <1>2, PhaseProceeds
  <2>2. job[j].key \in ResourceKeys /\ (job[j].args \in CreateArgs \/ job[j].args \in NodeArgs)
    BY DEF Typed, Shaped
  <2>3. job[j].key[1] \in Kinds /\ job[j].key[2] \in Vmids /\ job[j].args.node \in Nodes
    BY <2>2 DEF ResourceKeys, CreateArgs, NodeArgs
  <2>4. /\ new \in Guest /\ new # None
        /\ new.kind = job[j].key[1] /\ new.vmid = job[j].key[2]
    <3>1. new \in Guest
      BY <2>3 DEF Guest, Statuses
    <3> QED
      BY <3>1, NamesAssumption
  <2> HIDE DEF new
  <2>5. j \in Rows /\ Target(j) = j
    BY DEF Rows, Target
  <2>6. /\ guest' \in [Rows -> Guest \cup {None}] /\ guest'[j] = new
        /\ \A s \in Rows : s # j => guest'[s] = guest[s]
    BY <1>2, <2>4, <2>5 DEF Typed, Tables
  <2>7. Tables'
    BY <1>2, <2>6 DEF Typed, Tables
  <2>8. ~Exists(j)
    <3>1. Exists(j) => Key(j) = job[j].key
      BY <2>5, NamesAssumption DEF Placed, Home
    <3>2. Exists(j) => guest[j].vmid = job[j].key[2]
      BY <3>1 DEF Key
    <3> QED
      BY <1>2, <2>5, <3>2 DEF VmidTaken
  <2>9. \A s \in Rows : Exists(s) => guest'[s] = guest[s]
    BY <2>6, <2>8
  <2>10. \A s \in Rows : ~Exists(s) /\ Exists(s)' => s = j
    BY <2>6 DEF Exists
  <2>11. WritesTarget(j)
    BY <1>2, <2>4, <2>5, <2>6, <2>9, <2>10 DEF WritesTarget
  <2> QED
    BY <1>2, <2>1, <2>7, <2>11 DEF Handles
<1> QED
  BY <1>1, <1>2 DEF Insert

LEMMA OverlayType ==
  ASSUME NEW under \in Configs, NEW over \in Configs
  PROVE  Overlay(under, over) \in Configs
BY DEF Overlay, Configs

-----------------------------------------------------------------------------
(* Each handler does that.                                                 *)
LEMMA PlanPowerHandles ==
  ASSUME Typed, NEW j \in Jobs, PlanPower(j)
  PROVE  Handles(j)
<1>1. job[j].phase = "queued" /\ job[j].op \in Stepwise
  BY DEF PlanPower, At
<1>2. CASE Fails(j)
  BY <1>1, <1>2, FailsHandles
<1>3. CASE \E x \in Transitions : Exists(job[j].row) /\ Loads(j, guest[job[j].row], x)
  <2>1. PICK x \in Transitions : Exists(job[j].row) /\ Loads(j, guest[job[j].row], x)
    BY <1>3
  <2>2. job[j].row \in Rows
    BY <1>1 DEF Typed, Shaped, Stepwise, Power
  <2>3. guest[job[j].row] \in Guest
    BY <2>1, <2>2 DEF Typed, Tables, Exists
  <2> QED
    BY <1>1, <2>1, <2>3, LoadsHandles
<1> QED
  BY <1>2, <1>3 DEF PlanPower, Plans

LEMMA LoadHandles ==
  ASSUME Typed, NEW j \in Jobs, Load(j)
  PROVE  Handles(j)
<1>1. /\ job[j].phase = "queued"
      /\ job[j].op \in GuestReaders \cup {"snapshot-rollback"}
  BY DEF Load, At, GuestReaders
<1>2. job[j].row \in Rows
  BY <1>1 DEF Typed, Shaped, GuestReaders
<1>3. CASE Fails(j)
  BY <1>1, <1>3, FailsHandles
<1>4. CASE job[j].op \in GuestReaders /\ guest[job[j].row] # None /\ Loads(j, guest[job[j].row], None)
  <2>1. guest[job[j].row] \in Guest
    BY <1>2, <1>4 DEF Typed, Tables
  <2> QED
    BY <1>1, <1>4, <2>1, LoadsHandles
<1>5. CASE job[j].op = "snapshot-rollback" /\ snap[job[j].row] # None /\ Loads(j, snap[job[j].row], None)
  <2>1. snap[job[j].row] \in Snapshot
    BY <1>2, <1>5 DEF Typed, Tables
  <2> QED
    BY <1>1, <1>5, <2>1, LoadsHandles
<1> QED
  BY <1>1, <1>3, <1>4, <1>5 DEF Load

LEMMA BeginPowerHandles ==
  ASSUME Typed, NEW j \in Jobs, BeginPower(j)
  PROVE  Handles(j)
<1> DEFINE row == Row(job[j].row, job[j].plan.via, job[j].seen.cfg, guest[job[j].row].config, 0)
<1>1. /\ job[j].phase = "loaded" /\ job[j].op \in Stepwise /\ Store(job[j].row, row)
      /\ Phase(j, "half") /\ UNCHANGED <<snap, lock, request, interrupts>>
  BY DEF BeginPower, At
<1>2. job[j].row \in Rows /\ job[j].seen \in Guest /\ job[j].plan \in Transitions
  BY <1>1 DEF Typed, Shaped, Stepwise, Power
<1>3. job[j].plan.via \in Statuses /\ job[j].seen.cfg \in Configs
  BY <1>2, Transition DEF Statuses, Guest
<1>4. guest[job[j].row] \in Guest =>
        row \in Guest /\ row.kind = guest[job[j].row].kind /\ row.vmid = guest[job[j].row].vmid
  <2> HAVE guest[job[j].row] \in Guest
  <2>1. guest[job[j].row].config \in Configs
    BY DEF Guest
  <2> QED
    BY <1>2, <1>3, <2>1, RowFields
<1> HIDE DEF row
<1>5. job[j].op \notin {"create", "clone"}
  BY <1>1 DEF Stepwise, Power
<1> QED
  BY <1>1, <1>4, <1>5, StoreHandles

LEMMA EndPowerHandles ==
  ASSUME Typed, NEW j \in Jobs, EndPower(j)
  PROVE  Handles(j)
<1> DEFINE row == Row(job[j].row, job[j].plan.to, job[j].seen.cfg, guest[job[j].row].config, 0)
<1>1. /\ job[j].phase = "half" /\ job[j].op \in Stepwise /\ Store(job[j].row, row)
      /\ Phase(j, "applied") /\ UNCHANGED <<snap, lock, request, interrupts>>
  BY DEF EndPower, At, Stepwise
<1>2. job[j].row \in Rows /\ job[j].seen \in Guest /\ job[j].plan \in Transitions
  BY <1>1 DEF Typed, Shaped, Stepwise, Power
<1>3. job[j].plan.to \in Statuses /\ job[j].seen.cfg \in Configs
  BY <1>2, Transition DEF Statuses, Guest
<1>4. guest[job[j].row] \in Guest =>
        row \in Guest /\ row.kind = guest[job[j].row].kind /\ row.vmid = guest[job[j].row].vmid
  <2> HAVE guest[job[j].row] \in Guest
  <2>1. guest[job[j].row].config \in Configs
    BY DEF Guest
  <2> QED
    BY <1>2, <1>3, <2>1, RowFields
<1> HIDE DEF row
<1>5. job[j].op \notin {"create", "clone"}
  BY <1>1 DEF Stepwise, Power
<1> QED
  BY <1>1, <1>4, <1>5, StoreHandles

LEMMA EndMigrateHandles ==
  ASSUME Typed, NEW j \in Jobs, EndMigrate(j)
  PROVE  Handles(j)
<1> DEFINE row == Row(job[j].row, job[j].plan.to, job[j].seen.cfg, guest[job[j].row].config, 1)
           moved == [row EXCEPT !.node = job[j].args.node]
<1>1. /\ job[j].phase = "half" /\ job[j].op \in Stepwise /\ Store(job[j].row, moved)
      /\ Phase(j, "applied") /\ UNCHANGED <<snap, lock, request, interrupts>>
      /\ job[j].op = "migrate"
  BY DEF EndMigrate, At, Stepwise
<1>2. job[j].row \in Rows /\ job[j].seen \in Guest /\ job[j].plan \in Transitions
  BY <1>1 DEF Typed, Shaped, Stepwise, Power
<1>3. job[j].plan.to \in Statuses /\ job[j].seen.cfg \in Configs
  BY <1>2, Transition DEF Statuses, Guest
<1>4. job[j].args.node \in Nodes
  BY <1>1 DEF Typed, Shaped, NodeArgs
<1>5. guest[job[j].row] \in Guest =>
        row \in Guest /\ row.kind = guest[job[j].row].kind /\ row.vmid = guest[job[j].row].vmid
  <2> HAVE guest[job[j].row] \in Guest
  <2>1. guest[job[j].row].config \in Configs
    BY DEF Guest
  <2> QED
    BY <1>2, <1>3, <2>1, RowFields
<1> HIDE DEF row
<1>6. guest[job[j].row] \in Guest =>
        moved \in Guest /\ moved.kind = guest[job[j].row].kind /\ moved.vmid = guest[job[j].row].vmid
  BY <1>4, <1>5 DEF Guest
<1> HIDE DEF moved
<1>7. job[j].op \notin {"create", "clone"}
  BY <1>1 DEF Stepwise, Power
<1> QED
  BY <1>1, <1>6, <1>7, StoreHandles

LEMMA CreateHandles ==
  ASSUME Typed, Placed, NEW j \in Jobs, Create(j)
  PROVE  Handles(j)
<1>1. job[j].phase = "queued" /\ job[j].op = "create"
  BY DEF Create, At
<1>2. job[j].args \in CreateArgs
  BY <1>1 DEF Typed, Shaped
<1>3. job[j].args.config \in Configs
  BY <1>2 DEF CreateArgs
<1>4. PICK status \in Statuses : Insert(j, status, job[j].args.config, job[j].args.config)
  BY DEF Create, Statuses, Settled
<1> QED
  BY <1>1, <1>3, <1>4, InsertHandles

LEMMA CloneHandles ==
  ASSUME Typed, Placed, NEW j \in Jobs, Clone(j)
  PROVE  Handles(j)
<1>1. job[j].phase = "loaded" /\ job[j].op = "clone"
  BY DEF Clone, At
<1>2. job[j].seen \in Guest
  BY <1>1 DEF Typed, Shaped, GuestReaders
<1>3. job[j].seen.cfg \in Configs /\ job[j].seen.config \in Configs
  BY <1>2 DEF Guest
<1>4. Overlay(job[j].seen.cfg, job[j].seen.config) \in Configs
  BY <1>3, OverlayType
<1>5. Insert(j, "stopped", Overlay(job[j].seen.cfg, job[j].seen.config), job[j].seen.config)
  BY DEF Clone
<1>6. "stopped" \in Statuses
  BY DEF Statuses, Settled
<1> QED
  BY <1>1, <1>3, <1>4, <1>5, <1>6, InsertHandles

LEMMA DeleteHandles ==
  ASSUME Typed, NEW j \in Jobs, Delete(j)
  PROVE  Handles(j)
<1>1. job[j].phase = "queued" /\ job[j].op = "delete"
  BY DEF Delete, At
<1>2. job[j].row \in Rows /\ Target(j) = job[j].row
  BY <1>1 DEF Typed, Shaped, Target
<1>3. PICK r \in Rows : r = job[j].row
  BY <1>2
<1>4. CASE Fails(j)
  BY <1>1, <1>4, FailsHandles
<1>5. CASE /\ guest' = [guest EXCEPT ![r] = None] /\ snap' = [snap EXCEPT ![r] = None]
           /\ Phase(j, "applied") /\ UNCHANGED <<lock, request, interrupts>>
  <2>1. Proceeds(j) /\ job[j].phase \in Active /\ job'[j].phase \in Active
    BY <1>1, <1>5, PhaseProceeds
  <2>2. Tables'
    BY <1>5 DEF Typed, Tables
  <2>3. WritesTarget(j)
    BY <1>2, <1>3, <1>5 DEF Typed, Tables, WritesTarget, Exists
  <2> QED
    BY <1>5, <2>1, <2>2, <2>3 DEF Handles
<1> QED
  BY <1>3, <1>4, <1>5 DEF Delete

LEMMA AppliesHandles ==
  ASSUME Typed, NEW j \in Jobs, job[j].phase = "loaded", job[j].op \notin {"create", "clone"},
         NEW row, Applies(j, row),
         guest[job[j].row] \in Guest =>
           /\ row \in Guest
           /\ row.kind = guest[job[j].row].kind /\ row.vmid = guest[job[j].row].vmid
  PROVE  Handles(j)
BY StoreHandles DEF Applies

(* What an update makes of the two copies.                                 *)
LEMMA UpdateCopies ==
  ASSUME NEW c \in Configs, NEW args \in OptionArgs
  PROVE  /\ Changed(Deleted(c, args), args) \in Configs
         /\ Deleted(Changed(c, args), args) \in Configs
         /\ \A l \in Keys \ {args.key} : /\ Changed(Deleted(c, args), args)[l] = c[l]
                                         /\ Deleted(Changed(c, args), args)[l] = c[l]
         /\ args.value # None => Changed(Deleted(c, args), args)[args.key] = args.value
         /\ args.drop => Deleted(Changed(c, args), args)[args.key] = None
<1>1. args.key \in Keys /\ args.value \in Values \cup {None} /\ args.drop \in BOOLEAN
  BY DEF OptionArgs
<1>2. ASSUME NEW d \in Configs
      PROVE  /\ Deleted(d, args) \in Configs /\ Changed(d, args) \in Configs
             /\ \A l \in Keys \ {args.key} : Deleted(d, args)[l] = d[l] /\ Changed(d, args)[l] = d[l]
             /\ args.drop => Deleted(d, args)[args.key] = None
             /\ args.value # None => Changed(d, args)[args.key] = args.value
  BY <1>1 DEF Deleted, Changed, Configs
<1> QED
  BY <1>2

LEMMA UpdateHandles ==
  ASSUME Typed, NEW j \in Jobs, Update(j)
  PROVE  Handles(j)
<1> DEFINE s == job[j].seen
           cfg == Changed(Deleted(s.cfg, job[j].args), job[j].args)
           config == Deleted(Changed(s.config, job[j].args), job[j].args)
           row == Row(job[j].row, s.status, cfg, config, 1)
<1>1. job[j].phase = "loaded" /\ job[j].op = "update" /\ Applies(j, row)
  BY DEF Update, At
<1>2. job[j].row \in Rows /\ job[j].seen \in Guest /\ job[j].args \in OptionArgs
  BY <1>1 DEF Typed, Shaped, GuestReaders
<1>3. s.status \in Statuses /\ cfg \in Configs /\ config \in Configs
  BY <1>2, UpdateCopies DEF Guest, Statuses
<1> HIDE DEF cfg, config
<1>4. guest[job[j].row] \in Guest =>
        row \in Guest /\ row.kind = guest[job[j].row].kind /\ row.vmid = guest[job[j].row].vmid
  BY <1>2, <1>3, RowFields
<1> HIDE DEF row
<1> QED
  BY <1>1, <1>4, AppliesHandles

LEMMA MoveDiskHandles ==
  ASSUME Typed, NEW j \in Jobs, MoveDisk(j)
  PROVE  Handles(j)
<1> DEFINE args   == job[j].args
           g      == guest[job[j].row]
           volume == job[j].seen.config[args.from]
           copied == [job[j].seen.config EXCEPT ![args.to] = volume]
           moved  == IF args.drop /\ args.to # args.from
                     THEN [copied EXCEPT ![args.from] = None] ELSE copied
           cfg    == [g.cfg EXCEPT ![args.to] = volume]
           row    == Row(job[j].row, g.status, cfg, moved, 1)
<1>1. job[j].phase = "loaded" /\ job[j].op = "move-disk"
  BY DEF MoveDisk, At
<1>2. job[j].row \in Rows /\ job[j].seen \in Guest /\ args \in MoveArgs
  BY <1>1 DEF Typed, Shaped, GuestReaders
<1>3. copied \in Configs /\ volume \in Values \cup {None}
  BY <1>2 DEF Guest, Configs, MoveArgs
<1>4. moved \in Configs
  <2> HIDE DEF copied
  <2> QED
    BY <1>3 DEF Configs
<1>5. CASE Fails(j)
  BY <1>1, <1>5, FailsHandles
<1>6. CASE Applies(j, row)
  <2>1. g \in Guest => g.status \in Statuses /\ cfg \in Configs
    BY <1>2, <1>3 DEF Guest, Statuses, Configs, MoveArgs
  <2> HIDE DEF cfg, moved
  <2>2. g \in Guest => row \in Guest /\ row.kind = g.kind /\ row.vmid = g.vmid
    BY <1>2, <1>4, <2>1, RowFields
  <2> HIDE DEF row
  <2> QED
    BY <1>1, <1>6, <2>2, AppliesHandles
<1> QED
  BY <1>5, <1>6 DEF MoveDisk

(* A handler that writes only the table of snapshots.                      *)
LEMMA SnapHandles ==
  ASSUME Typed, NEW j \in Jobs, job[j].phase \in {"queued", "loaded"},
         job[j].op \notin {"create", "clone"}, Phase(j, "applied"),
         NEW row \in Snapshot \cup {None}, snap' = [snap EXCEPT ![job[j].row] = row],
         UNCHANGED <<guest, lock, request, interrupts>>
  PROVE  Handles(j)
<1>1. job[j].row \in Rows /\ Target(j) = job[j].row
  BY DEF Typed, Shaped, Target
<1>2. Proceeds(j) /\ job[j].phase \in Active /\ job'[j].phase \in Active
  BY PhaseProceeds
<1>3. Tables'
  BY <1>1 DEF Typed, Tables
<1>4. WritesTarget(j)
  BY <1>1 DEF Typed, Tables, WritesTarget, Exists
<1> QED
  BY <1>2, <1>3, <1>4 DEF Handles

LEMMA SnapshotCreateHandles ==
  ASSUME Typed, NEW j \in Jobs, SnapshotCreate(j)
  PROVE  Handles(j)
<1> DEFINE row == [status |-> job[j].seen.status, cfg |-> job[j].seen.cfg,
                   config |-> job[j].seen.config]
<1>1. job[j].phase = "loaded" /\ job[j].op = "snapshot-create"
  BY DEF SnapshotCreate, At
<1>2. job[j].seen \in Guest
  BY <1>1 DEF Typed, Shaped, GuestReaders
<1>3. row \in Snapshot
  BY <1>2 DEF Guest, Snapshot
<1>4. CASE Fails(j)
  BY <1>1, <1>4, FailsHandles
<1>5. CASE /\ snap' = [snap EXCEPT ![job[j].row] = row] /\ Phase(j, "applied")
           /\ UNCHANGED <<guest, lock, request, interrupts>>
  <2> HIDE DEF row
  <2> QED
    BY <1>1, <1>3, <1>5, SnapHandles
<1> QED
  BY <1>4, <1>5 DEF SnapshotCreate

LEMMA SnapshotDeleteHandles ==
  ASSUME Typed, NEW j \in Jobs, SnapshotDelete(j)
  PROVE  Handles(j)
<1>1. job[j].phase = "queued" /\ job[j].op = "snapshot-delete"
  BY DEF SnapshotDelete, At
<1>2. CASE Fails(j)
  BY <1>1, <1>2, FailsHandles
<1>3. CASE /\ snap' = [snap EXCEPT ![job[j].row] = None] /\ Phase(j, "applied")
           /\ UNCHANGED <<guest, lock, request, interrupts>>
  BY <1>1, <1>3, SnapHandles
<1> QED
  BY <1>2, <1>3 DEF SnapshotDelete

LEMMA SnapshotRollbackHandles ==
  ASSUME Typed, NEW j \in Jobs, SnapshotRollback(j)
  PROVE  Handles(j)
<1> DEFINE s == job[j].seen
           status == IF job[j].args.start THEN "running" ELSE s.status
           row == Row(job[j].row, status, s.cfg, s.config, 1)
<1>1. job[j].phase = "loaded" /\ job[j].op = "snapshot-rollback" /\ Applies(j, row)
  BY DEF SnapshotRollback, At
<1>2. job[j].row \in Rows /\ job[j].seen \in Snapshot
  BY <1>1 DEF Typed, Shaped
<1>3. status \in Statuses /\ s.cfg \in Configs /\ s.config \in Configs
  BY <1>2 DEF Snapshot, Statuses, Settled
<1> HIDE DEF status
<1>4. guest[job[j].row] \in Guest =>
        row \in Guest /\ row.kind = guest[job[j].row].kind /\ row.vmid = guest[job[j].row].vmid
  BY <1>2, <1>3, RowFields
<1> HIDE DEF row
<1> QED
  BY <1>1, <1>4, AppliesHandles

LEMMA HandleHandles ==
  ASSUME Typed, Placed, NEW j \in Jobs, Handle(j)
  PROVE  Handles(j)
BY PlanPowerHandles, BeginPowerHandles, EndPowerHandles, EndMigrateHandles, LoadHandles,
   CreateHandles, CloneHandles, DeleteHandles, UpdateHandles, MoveDiskHandles,
   SnapshotCreateHandles, SnapshotDeleteHandles, SnapshotRollbackHandles DEF Handle

-----------------------------------------------------------------------------
(* What the API handler that creates task j does.                          *)
Asks(j) ==
  /\ job' \in [Jobs -> JobRecords] /\ Shaped(j)'
  /\ \A i \in Jobs : i # j => job'[i] = job[i]
  /\ job[j].phase = "idle" /\ job'[j].phase = "checked" /\ job'[j].hurt = FALSE
  /\ job'[j].op \in Ops \cap TaskOps
  /\ job'[j].op \notin {"create", "clone"} =>
       \E r \in Rows : job'[j].row = r /\ Exists(r) /\ job'[j].key = Key(r)
  /\ UNCHANGED <<guest, snap, lock, request, interrupts>>

LEMMA KeyType ==
  ASSUME Typed, NEW r \in Rows, Exists(r)
  PROVE  guest[r] \in Guest /\ Key(r) \in ResourceKeys
<1>1. guest[r] \in Guest
  BY DEF Typed, Tables, Exists
<1> QED
  BY <1>1 DEF Key, ResourceKeys, Guest

LEMMA AskAsks ==
  ASSUME Typed, NEW j \in Jobs, NEW op \in TaskOps, NEW r \in Rows, NEW args \in Arguments,
         Exists(r), op \notin {"create", "clone"}, Ask(j, op, r, Key(r), args),
         op = "migrate" => args \in NodeArgs,
         op = "update" => args \in OptionArgs,
         op = "move-disk" => args \in MoveArgs,
         op = "snapshot-rollback" => args \in RollbackArgs
  PROVE  Asks(j)
<1>1. Key(r) \in ResourceKeys
  BY KeyType
<1>2. PICK key \in ResourceKeys : key = Key(r)
  BY <1>1
<1>3. /\ job' \in [Jobs -> JobRecords]
      /\ job'[j].op = op /\ job'[j].row = r /\ job'[j].key = key /\ job'[j].args = args
      /\ job'[j].phase = "checked" /\ job'[j].hurt = FALSE
      /\ \A i \in Jobs : i # j => job'[i] = job[i]
      /\ job[j].phase = "idle"
      /\ UNCHANGED <<guest, snap, lock, request, interrupts>>
  BY <1>2, AskStep
<1>4. Shaped(j)'
  BY <1>2, <1>3 DEF Shaped
<1>5. op \in Ops
  BY DEF Ask
<1> QED
  BY <1>2, <1>3, <1>4, <1>5 DEF Asks

LEMMA BearAsks ==
  ASSUME Typed, NEW j \in Jobs, NEW op \in {"create", "clone"}, NEW row \in Rows \cup {None},
         NEW key \in ResourceKeys, NEW args \in Arguments, Ask(j, op, row, key, args),
         op = "create" => args \in CreateArgs,
         op = "clone" => args \in NodeArgs /\ row \in Rows
  PROVE  Asks(j)
<1>1. op \in TaskOps
  BY DEF TaskOps
<1>2. /\ job' \in [Jobs -> JobRecords]
      /\ job'[j].op = op /\ job'[j].row = row /\ job'[j].key = key /\ job'[j].args = args
      /\ job'[j].phase = "checked" /\ job'[j].hurt = FALSE
      /\ \A i \in Jobs : i # j => job'[i] = job[i]
      /\ job[j].phase = "idle"
      /\ UNCHANGED <<guest, snap, lock, request, interrupts>>
  BY <1>1, AskStep
<1>3. Shaped(j)'
  BY <1>1, <1>2 DEF Shaped
<1>4. op \in Ops
  BY DEF Ask
<1> QED
  BY <1>1, <1>2, <1>3, <1>4 DEF Asks

LEMMA CheckAsks ==
  ASSUME Typed, NEW j \in Jobs, Check(j)
  PROVE  Asks(j)
<1>1. CASE CheckPower(j)
  <2>1. PICK r \in Rows, op \in Power : Offers(r, op) /\ Ask(j, op, r, Key(r), None)
    BY <1>1 DEF CheckPower
  <2>2. op \in TaskOps /\ op \notin {"create", "clone", "migrate", "update", "move-disk", "snapshot-rollback"}
    BY DEF TaskOps, Stepwise, Power
  <2> QED
    BY <2>1, <2>2, AskAsks DEF Offers, Arguments
<1>2. CASE CheckCreate(j)
  <2>1. PICK k \in Kinds, id \in Vmids, n \in Nodes, c \in Configs, start \in BOOLEAN :
          Ask(j, "create", None, <<k, id>>, [node |-> n, config |-> c, start |-> start])
    BY <1>2 DEF CheckCreate
  <2>2. <<k, id>> \in ResourceKeys
    BY DEF ResourceKeys
  <2>3. [node |-> n, config |-> c, start |-> start] \in CreateArgs
    BY DEF CreateArgs
  <2> QED
    BY <2>1, <2>2, <2>3, BearAsks DEF Arguments
<1>3. CASE CheckClone(j)
  <2>1. PICK r \in Rows, id \in Vmids, n \in Nodes :
          Exists(r) /\ Ask(j, "clone", r, <<guest[r].kind, id>>, [node |-> n])
    BY <1>3 DEF CheckClone
  <2>2. <<guest[r].kind, id>> \in ResourceKeys
    BY <2>1, KeyType DEF ResourceKeys, Guest
  <2>3. [node |-> n] \in NodeArgs
    BY DEF NodeArgs
  <2> QED
    BY <2>1, <2>2, <2>3, BearAsks DEF Arguments
<1>4. CASE CheckDelete(j)
  <2>1. PICK r \in Rows : Exists(r) /\ Ask(j, "delete", r, Key(r), None)
    BY <1>4 DEF CheckDelete
  <2> QED
    BY <2>1, AskAsks DEF Arguments, TaskOps
<1>5. CASE CheckMigrate(j)
  <2>1. PICK r \in Rows, n \in Nodes : Exists(r) /\ Ask(j, "migrate", r, Key(r), [node |-> n])
    BY <1>5 DEF CheckMigrate
  <2>2. [node |-> n] \in NodeArgs
    BY DEF NodeArgs
  <2> QED
    BY <2>1, <2>2, AskAsks DEF Arguments, TaskOps, Stepwise
<1>6. CASE CheckUpdate(j)
  <2>1. PICK r \in Rows, k \in Keys, v \in Values \cup {None}, drop \in BOOLEAN :
          /\ Offers(r, "update")
          /\ Ask(j, "update", r, Key(r), [key |-> k, value |-> v, drop |-> drop])
    BY <1>6 DEF CheckUpdate
  <2>2. [key |-> k, value |-> v, drop |-> drop] \in OptionArgs
    BY DEF OptionArgs
  <2> QED
    BY <2>1, <2>2, AskAsks DEF Arguments, TaskOps, Offers
<1>7. CASE CheckMoveDisk(j)
  <2>1. PICK r \in Rows, from \in Keys, to \in Keys, drop \in BOOLEAN :
          /\ Offers(r, "move-disk")
          /\ Ask(j, "move-disk", r, Key(r), [from |-> from, to |-> to, drop |-> drop])
    BY <1>7 DEF CheckMoveDisk
  <2>2. [from |-> from, to |-> to, drop |-> drop] \in MoveArgs
    BY DEF MoveArgs
  <2> QED
    BY <2>1, <2>2, AskAsks DEF Arguments, TaskOps, Offers
<1>8. CASE CheckSnapshot(j)
  <2>1. PICK r \in Rows :
          /\ Exists(r)
          /\ \/ Ask(j, "snapshot-create", r, Key(r), None)
             \/ Ask(j, "snapshot-delete", r, Key(r), None)
             \/ \E start \in BOOLEAN : Ask(j, "snapshot-rollback", r, Key(r), [start |-> start])
    BY <1>8 DEF CheckSnapshot
  <2>2. CASE Ask(j, "snapshot-create", r, Key(r), None)
    BY <2>1, <2>2, AskAsks DEF Arguments, TaskOps
  <2>3. CASE Ask(j, "snapshot-delete", r, Key(r), None)
    BY <2>1, <2>3, AskAsks DEF Arguments, TaskOps
  <2>4. CASE \E start \in BOOLEAN : Ask(j, "snapshot-rollback", r, Key(r), [start |-> start])
    <3>1. PICK start \in BOOLEAN : Ask(j, "snapshot-rollback", r, Key(r), [start |-> start])
      BY <2>4
    <3>2. [start |-> start] \in RollbackArgs
      BY DEF RollbackArgs
    <3> QED
      BY <2>1, <3>1, <3>2, AskAsks DEF Arguments, TaskOps
  <2> QED
    BY <2>1, <2>2, <2>3, <2>4
<1> QED
  BY <1>1, <1>2, <1>3, <1>4, <1>5, <1>6, <1>7, <1>8 DEF Check

-----------------------------------------------------------------------------
(* What a call does that writes without a task.                            *)
KeepsGuests ==
  \A s \in Rows : /\ Exists(s)' <=> Exists(s)
                  /\ Exists(s) => guest'[s].kind = guest[s].kind /\ guest'[s].vmid = guest[s].vmid

CallShapes ==
  request' \in [Requests -> RequestRecords] /\ \A q \in Requests : RequestShaped(q)'

Calls ==
  /\ CallShapes /\ Tables' /\ KeepsGuests
  /\ interrupts' \in 0 .. MaxInterrupts
  /\ UNCHANGED <<snap, job, lock>>

LEMMA RequestStep ==
  ASSUME Typed, NEW q \in Requests, NEW phase \in {"half", "done", "conflict", "aborted"},
         request' = [request EXCEPT ![q].phase = phase],
         request[q].phase \in {"read", "half"}
  PROVE  CallShapes
<1> DEFINE new == [request[q] EXCEPT !.phase = phase]
<1>1. request \in [Requests -> RequestRecords] /\ request[q] \in RequestRecords /\ RequestShaped(q)
  BY DEF Typed
<1>2. /\ new \in RequestRecords /\ new.phase = phase
      /\ new.row = request[q].row /\ new.key = request[q].key /\ new.seen = request[q].seen
  BY <1>1 DEF RequestRecords
<1> HIDE DEF new
<1>3. request' = [request EXCEPT ![q] = new]
  BY DEF new
<1>4. /\ request' \in [Requests -> RequestRecords] /\ request'[q] = new
      /\ \A p \in Requests : p # q => request'[p] = request[p]
  BY <1>1, <1>2, <1>3
<1>5. \A p \in Requests : RequestShaped(p)'
  BY <1>1, <1>2, <1>4 DEF RequestShaped, Typed
<1> QED
  BY <1>4, <1>5 DEF CallShapes

LEMMA RequestStores ==
  ASSUME Typed, NEW q \in Requests, request[q].row \in Rows, NEW row, Store(request[q].row, row),
         guest[request[q].row] \in Guest =>
           /\ row \in Guest
           /\ row.kind = guest[request[q].row].kind /\ row.vmid = guest[request[q].row].vmid,
         UNCHANGED <<snap, lock>>
  PROVE  Tables' /\ KeepsGuests
<1>1. PICK r \in Rows : r = request[q].row
  OBVIOUS
<1>2. Exists(r) => row \in Guest /\ row.kind = guest[r].kind /\ row.vmid = guest[r].vmid
  BY <1>1 DEF Typed, Tables, Exists
<1>3. Store(r, row)
  BY <1>1
<1>4. /\ guest' \in [Rows -> Guest \cup {None}]
      /\ Exists(r) => guest'[r] = row /\ row # None
      /\ ~Exists(r) => guest'[r] = None
      /\ \A s \in Rows : s # r => guest'[s] = guest[s]
  BY <1>2, <1>3, StoreStep
<1> QED
  BY <1>2, <1>4 DEF Typed, Tables, KeepsGuests, Exists

LEMMA ChangeType ==
  ASSUME Typed, NEW q \in Requests, request[q].key \in Keys, NEW c \in Configs
  PROVE  Change(q, c) \in Configs
<1>1. request[q].value \in Values \cup {None}
  BY DEF Typed, RequestRecords
<1> QED
  BY <1>1 DEF Change, Configs

LEMMA ReadCalls ==
  ASSUME Typed, NEW q \in Requests, Read(q)
  PROVE  Calls
<1>1. PICK op \in Savers, r \in Rows, k \in Keys, v \in Values \cup {None} :
        /\ Offers(r, op)
        /\ request' = [request EXCEPT ![q] = [op |-> op, row |-> r, key |-> k, value |-> v,
                                              seen |-> guest[r], ended |-> Complete, phase |-> "read"]]
        /\ UNCHANGED <<guest, snap, job, lock, interrupts>>
  BY DEF Read
<1> DEFINE new == [op |-> op, row |-> r, key |-> k, value |-> v, seen |-> guest[r],
                   ended |-> Complete, phase |-> "read"]
<1>2. guest[r] \in Guest
  BY <1>1, KeyType DEF Offers
<1>3. new \in RequestRecords /\ new.row \in Rows /\ new.key \in Keys /\ new.seen \in Guest
  BY <1>2 DEF RequestRecords, DirectOps, Complete
<1> HIDE DEF new
<1>4. request' = [request EXCEPT ![q] = new]
  BY <1>1 DEF new
<1>5. CallShapes
  BY <1>3, <1>4 DEF CallShapes, Typed, RequestShaped
<1>6. Tables' /\ KeepsGuests
  BY <1>1 DEF Typed, Tables, KeepsGuests, Exists
<1> QED
  BY <1>1, <1>5, <1>6 DEF Calls, Typed

LEMMA AbortCalls ==
  ASSUME Typed, NEW q \in Requests, Abort(q)
  PROVE  Calls
<1>1. CallShapes
  BY RequestStep DEF Abort
<1>2. Tables' /\ KeepsGuests
  BY DEF Abort, Typed, Tables, KeepsGuests, Exists
<1>3. interrupts' \in 0 .. MaxInterrupts
  BY NamesAssumption DEF Abort, Interrupted, Typed
<1> QED
  BY <1>1, <1>2, <1>3 DEF Calls, Abort

LEMMA RespondCalls ==
  ASSUME Typed, NEW q \in Requests, Respond(q)
  PROVE  Calls
<1>1. request[q].phase \in {"read", "half"}
  BY DEF Respond, PutState, PutConfig, SaveConfig, ResizeState, SaveState, ConvertColumn,
         ConvertState, Pending
<1>2. request[q].row \in Rows /\ request[q].key \in Keys /\ request[q].seen \in Guest
  BY <1>1 DEF Typed, RequestShaped
<1>3. PICK phase \in {"half", "done", "conflict"} : Turns(q, phase)
  BY DEF Respond, PutState, PutConfig, SaveConfig, ResizeState, SaveState, ConvertColumn,
         ConvertState
<1>4. CallShapes /\ UNCHANGED <<snap, job, lock, interrupts>>
  BY <1>1, <1>3, RequestStep DEF Turns
<1> DEFINE r == request[q].row
           s == request[q].seen
           Writes == \E status \in Statuses, cfg \in Configs, config \in Configs, bump \in {0, 1} :
                       Store(r, Row(r, status, cfg, config, bump))
<1>5. s.status \in Statuses /\ Change(q, s.cfg) \in Configs /\ Change(q, s.config) \in Configs
      /\ s.cfg \in Configs
  BY <1>2, ChangeType DEF Guest, Statuses
<1>6. guest[r] \in Guest => /\ guest[r].status \in Statuses /\ guest[r].cfg \in Configs
                            /\ guest[r].config \in Configs /\ Change(q, guest[r].cfg) \in Configs
  BY <1>2, ChangeType DEF Guest, Statuses
<1>7. CASE UNCHANGED guest
  BY <1>4, <1>7 DEF Calls, Typed, Tables, KeepsGuests, Exists
<1>8. CASE guest[r] \in Guest /\ ~UNCHANGED guest
  <2>1. Writes
    <3>1. CASE PutState(q)
      BY <1>5, <1>6, <1>8, <3>1 DEF PutState
    <3>2. CASE PutConfig(q)
      BY <1>5, <1>6, <1>8, <3>2 DEF PutConfig
    <3>3. CASE SaveConfig(q)
      BY <1>5, <1>6, <1>8, <3>3 DEF SaveConfig
    <3>4. CASE ResizeState(q)
      BY <1>5, <1>6, <1>8, <3>4 DEF ResizeState
    <3>5. CASE SaveState(q)
      <4>1. SavedStatuses(q) \subseteq Statuses
        BY <1>5 DEF SavedStatuses, Statuses, Settled
      <4> QED
        BY <4>1, <1>5, <1>6, <1>8, <3>5 DEF SaveState
    <3>6. CASE ConvertState(q)
      BY <1>5, <1>6, <1>8, <3>6 DEF ConvertState
    <3> QED
      BY <1>8, <3>1, <3>2, <3>3, <3>4, <3>5, <3>6 DEF Respond, ConvertColumn
  <2>2. PICK status \in Statuses, cfg \in Configs, config \in Configs, bump \in {0, 1} :
          Store(r, Row(r, status, cfg, config, bump))
    BY <2>1
  <2>3. /\ Row(r, status, cfg, config, bump) \in Guest
        /\ Row(r, status, cfg, config, bump).kind = guest[r].kind
        /\ Row(r, status, cfg, config, bump).vmid = guest[r].vmid
    BY <1>2, <1>8, RowFields
  <2>4. Tables' /\ KeepsGuests
    BY <1>2, <1>4, <2>2, <2>3, RequestStores
  <2> QED
    BY <1>4, <2>4 DEF Calls, Typed
<1>9. CASE ~(guest[r] \in Guest) /\ ~UNCHANGED guest
  <2>1. \E row : Store(r, row)
    BY <1>9 DEF Respond, PutState, PutConfig, SaveConfig, ResizeState, SaveState, ConvertColumn,
                ConvertState
  <2>2. Tables' /\ KeepsGuests
    BY <1>2, <1>4, <1>9, <2>1, RequestStores
  <2> QED
    BY <1>4, <2>2 DEF Calls, Typed
<1> QED
  BY <1>7, <1>8, <1>9

LEMMA SweepCalls ==
  ASSUME Typed, NEW q \in Requests, SetStatuses(q) \/ MigrateAll(q)
  PROVE  Calls
<1>1. PICK op \in Sweepers :
        /\ request' = [request EXCEPT ![q].op = op, ![q].phase = "done"]
        /\ UNCHANGED <<snap, job, lock, interrupts>>
  BY DEF SetStatuses, MigrateAll, Sweeps, Sweepers
<1> DEFINE new == [request[q] EXCEPT !.op = op, !.phase = "done"]
<1>2. request[q] \in RequestRecords /\ request \in [Requests -> RequestRecords]
  BY DEF Typed
<1>3. new \in RequestRecords /\ new.phase = "done"
  BY <1>2 DEF RequestRecords, DirectOps
<1>4. request' = [request EXCEPT ![q] = new]
  BY <1>1
<1> HIDE DEF new
<1>5. CallShapes
  BY <1>2, <1>3, <1>4 DEF CallShapes, Typed, RequestShaped
<1>6. \A r \in Rows : Exists(r) => guest[r] \in Guest
  BY KeyType
<1>7. CASE SetStatuses(q)
  <2>1. PICK ns \in {Nodes} \cup {{n} : n \in Nodes}, status \in Settled :
          guest' = [r \in Rows |-> IF r \in On(ns) THEN [guest[r] EXCEPT !.status = status]
                                                   ELSE guest[r]]
    BY <1>7 DEF SetStatuses
  <2>2. \A r \in Rows : r \in On(ns) => Exists(r)
    BY DEF On
  <2>3. \A r \in Rows : Exists(r) =>
          /\ [guest[r] EXCEPT !.status = status] \in Guest
          /\ [guest[r] EXCEPT !.status = status].kind = guest[r].kind
          /\ [guest[r] EXCEPT !.status = status].vmid = guest[r].vmid
    BY <1>6 DEF Guest
  <2>4. Tables' /\ KeepsGuests
    BY <1>1, <2>1, <2>2, <2>3, NamesAssumption DEF Typed, Tables, KeepsGuests, Exists
  <2> QED
    BY <1>1, <1>5, <2>4 DEF Calls, Typed
<1>8. CASE MigrateAll(q)
  <2>1. PICK rs \in {On({n}) : n \in Nodes} \cup {{r} : r \in On(Nodes)}, to \in Nodes :
          guest' = [r \in Rows |-> IF r \in rs THEN [guest[r] EXCEPT !.node = to] ELSE guest[r]]
    BY <1>8 DEF MigrateAll
  <2>2. \A r \in Rows : r \in rs => Exists(r)
    BY <2>1 DEF On
  <2>3. \A r \in Rows : Exists(r) =>
          /\ [guest[r] EXCEPT !.node = to] \in Guest
          /\ [guest[r] EXCEPT !.node = to].kind = guest[r].kind
          /\ [guest[r] EXCEPT !.node = to].vmid = guest[r].vmid
    BY <1>6 DEF Guest
  <2>4. Tables' /\ KeepsGuests
    BY <1>1, <2>1, <2>2, <2>3, NamesAssumption DEF Typed, Tables, KeepsGuests, Exists
  <2> QED
    BY <1>1, <1>5, <2>4 DEF Calls, Typed
<1> QED
  BY <1>7, <1>8

LEMMA DirectCalls ==
  ASSUME Typed, NEW q \in Requests, Directly(q)
  PROVE  Calls
BY ReadCalls, RespondCalls, AbortCalls, SweepCalls DEF Directly

-----------------------------------------------------------------------------
(* The lock is held by the one task on the resource that is being handled. *)
Locking ==
  /\ \A j \in Jobs : job[j].phase \in Active => lock[job[j].key] = j
  /\ \A k \in ResourceKeys : lock[k] # None =>
       job[lock[k]].phase \in Active /\ job[lock[k]].key = k

Sane == Typed /\ Placed /\ Locking /\ VmidUnique

LEMMA InitSane == Init => Sane
<1> SUFFICES ASSUME Init PROVE Sane
  OBVIOUS
<1>1. Typed
  BY InitTyped
<1>2. \A j \in Jobs : job[j].phase = "idle"
  BY DEF Init, Idle
<1>3. \A r \in Rows : Exists(r) => r \in Seeded /\ guest[r] = Seed[r]
  BY DEF Init, Exists
<1>4. Placed
  <2>1. \A r \in Rows : Exists(r) => Key(r) = Home(r) /\ Known(r)
    BY <1>3, NamesAssumption DEF Key, Home, Known
  <2> QED
    BY <1>2, <2>1 DEF Placed
<1>5. Locking
  BY <1>2 DEF Locking, Init, Active
<1>6. VmidUnique
  BY <1>3, SeedAssumption DEF VmidUnique
<1> QED
  BY <1>1, <1>4, <1>5, <1>6 DEF Sane

(* A task that becomes known, or moves on, does not change what others are *)
(* on.                                                                     *)
KeepsPayloads ==
  \A i \in Jobs : job[i].phase # "idle" =>
    /\ job'[i].phase # "idle" /\ job'[i].op = job[i].op
    /\ job'[i].row = job[i].row /\ job'[i].key = job[i].key

LEMMA HomeKept ==
  ASSUME KeepsPayloads, NEW r \in Rows, Known(r)
  PROVE  Home(r)' = Home(r) /\ Known(r)'
<1>1. r \in Seeded \/ r \in Jobs
  BY DEF Rows
<1>2. CASE r \in Seeded
  BY <1>2, NamesAssumption DEF Home, Known
<1>3. CASE r \in Jobs
  BY <1>3 DEF Home, Known, KeepsPayloads
<1> QED
  BY <1>1, <1>2, <1>3

LEMMA TargetKept ==
  ASSUME KeepsPayloads, Placed, NEW j \in Jobs, job[j].phase # "idle"
  PROVE  /\ Target(j)' = Target(j) /\ Target(j) \in Rows
         /\ Known(Target(j))' /\ job'[j].key = Home(Target(j))'
<1>1. Target(j)' = Target(j)
  BY DEF KeepsPayloads, Target
<1>2. PICK r \in Rows : r = Target(j) /\ Known(r) /\ job[j].key = Home(r)
  BY DEF Placed
<1>3. Home(r)' = Home(r) /\ Known(r)'
  BY <1>2, HomeKept
<1>4. job'[j].key = job[j].key
  BY DEF KeepsPayloads
<1>5. Home(Target(j))' = Home(r)' /\ (Known(Target(j))' <=> Known(r)')
  BY <1>1, <1>2 DEF Home, Known
<1> QED
  BY <1>1, <1>2, <1>3, <1>4, <1>5

LEMMA PlacedKept ==
  ASSUME Placed, KeepsPayloads,
         \A j \in Jobs : job'[j].phase # "idle" => job[j].phase # "idle",
         \A s \in Rows : Exists(s)' =>
           Key(s)' = Home(s)' /\ Known(s)' 
  PROVE  Placed'
<1>1. \A j \in Jobs : job'[j].phase # "idle" =>
        /\ Target(j)' \in Rows /\ Known(Target(j))' /\ job'[j].key = Home(Target(j))'
  BY TargetKept
<1> QED
  BY <1>1 DEF Placed

LEMMA KeysKept ==
  ASSUME Placed, KeepsPayloads, NEW s \in Rows, Exists(s),
         guest'[s].kind = guest[s].kind, guest'[s].vmid = guest[s].vmid
  PROVE  Key(s)' = Home(s)' /\ Known(s)'
<1>1. Key(s) = Home(s) /\ Known(s)
  BY DEF Placed
<1>2. Home(s)' = Home(s) /\ Known(s)'
  BY <1>1, HomeKept
<1>3. Key(s)' = Key(s)
  BY DEF Key
<1> QED
  BY <1>1, <1>2, <1>3

LEMMA AsksSane ==
  ASSUME Sane, NEW j \in Jobs, Asks(j)
  PROVE  Sane'
<1>1. Typed'
  <2>1. \A i \in Jobs : Shaped(i)'
    BY DEF Asks, Sane, Typed, Shaped
  <2>2. Tables' /\ CallShapes
    BY DEF Asks, Sane, Typed, Tables, CallShapes, RequestShaped
  <2> QED
    BY <2>1, <2>2 DEF Asks, Sane, Typed, CallShapes
<1>2. KeepsPayloads
  BY DEF Asks, KeepsPayloads
<1>3. \A s \in Rows : Exists(s)' => Key(s)' = Home(s)' /\ Known(s)'
  BY <1>2, KeysKept DEF Asks, Sane, Exists
<1>4. \A i \in Jobs : job'[i].phase # "idle" =>
        /\ Target(i)' \in Rows /\ Known(Target(i))' /\ job'[i].key = Home(Target(i))'
  <2> SUFFICES ASSUME NEW i \in Jobs, job'[i].phase # "idle"
               PROVE  /\ Target(i)' \in Rows /\ Known(Target(i))'
                      /\ job'[i].key = Home(Target(i))'
    OBVIOUS
  <2>1. CASE i # j
    BY <1>2, <2>1, TargetKept DEF Asks, Sane
  <2>2. CASE i = j /\ job'[j].op \in {"create", "clone"}
    <3>1. Target(j)' = j /\ j \in Rows /\ j \notin Seeded
      BY <2>2, NamesAssumption DEF Target, Rows
    <3>2. Home(j)' = job'[j].key /\ Known(j)'
      BY <3>1 DEF Home, Known, Asks
    <3>3. Home(Target(j))' = Home(j)' /\ (Known(Target(j))' <=> Known(j)')
      BY <3>1 DEF Home, Known
    <3> QED
      BY <2>2, <3>1, <3>2, <3>3
  <2>3. CASE i = j /\ job'[j].op \notin {"create", "clone"}
    <3>1. PICK r \in Rows : job'[j].row = r /\ Exists(r) /\ job'[j].key = Key(r)
      BY <2>3 DEF Asks
    <3>2. Target(j)' = r
      BY <2>3, <3>1 DEF Target
    <3>3. Key(r)' = Home(r)' /\ Known(r)'
      BY <3>1, <1>3 DEF Asks, Exists
    <3>4. Key(r)' = Key(r)
      BY DEF Asks, Key
    <3>5. Home(Target(j))' = Home(r)' /\ (Known(Target(j))' <=> Known(r)')
      BY <3>2 DEF Home, Known
    <3> QED
      BY <2>3, <3>1, <3>2, <3>3, <3>4, <3>5
  <2> QED
    BY <2>1, <2>2, <2>3
<1>5. Placed'
  BY <1>3, <1>4 DEF Placed
<1>6. Locking'
  BY NamesAssumption DEF Asks, Sane, Locking, Typed, Tables, Active
<1>7. VmidUnique'
  BY DEF Asks, Sane, VmidUnique, Exists
<1> QED
  BY <1>1, <1>5, <1>6, <1>7 DEF Sane

LEMMA HandlesSane ==
  ASSUME Sane, NEW j \in Jobs, Handles(j)
  PROVE  Sane'
<1>1. Typed'
  <2>1. \A i \in Jobs : Shaped(i)'
    BY DEF Handles, Proceeds, Sane, Typed, Shaped
  <2>2. CallShapes
    BY DEF Handles, Sane, Typed, CallShapes, RequestShaped
  <2> QED
    BY <2>1, <2>2 DEF Handles, Proceeds, Sane, Typed, CallShapes
<1>2. KeepsPayloads /\ \A i \in Jobs : job'[i].phase # "idle" => job[i].phase # "idle"
  BY DEF Handles, Proceeds, KeepsPayloads, Active
<1>3. \A s \in Rows : Exists(s)' => Key(s)' = Home(s)' /\ Known(s)'
  <2> SUFFICES ASSUME NEW s \in Rows, Exists(s)' PROVE Key(s)' = Home(s)' /\ Known(s)'
    OBVIOUS
  <2>1. CASE Exists(s)
    BY <1>2, <2>1, KeysKept DEF Handles, WritesTarget, Sane
  <2>2. CASE ~Exists(s)
    <3>1. /\ s = j /\ job[j].op \in {"create", "clone"}
          /\ guest'[j].kind = job[j].key[1] /\ guest'[j].vmid = job[j].key[2]
      BY <2>2 DEF Handles, WritesTarget
    <3>2. job[j].key \in ResourceKeys /\ job'[j].key = job[j].key /\ job'[j].phase # "idle"
      BY DEF Handles, Proceeds, Sane, Typed, Shaped, Active
    <3>3. Key(j)' = job'[j].key
      BY <3>1, <3>2 DEF Key, ResourceKeys
    <3>4. j \notin Seeded
      BY NamesAssumption
    <3> QED
      BY <3>1, <3>2, <3>3, <3>4 DEF Home, Known
  <2> QED
    BY <2>1, <2>2
<1>4. Placed'
  BY <1>2, <1>3, PlacedKept DEF Sane
<1>5. Locking'
  BY NamesAssumption DEF Handles, Proceeds, Sane, Locking, Typed, Tables
<1>6. VmidUnique'
  <2>1. \A s \in Rows : Exists(s) /\ Exists(s)' => guest'[s].vmid = guest[s].vmid
    BY DEF Handles, WritesTarget
  <2>2. \A s \in Rows : ~Exists(s) /\ Exists(s)' =>
          s = j /\ \A r \in Rows : Exists(r) => guest[r].vmid # guest'[s].vmid
    BY DEF Handles, WritesTarget, VmidTaken
  <2> QED
    BY <2>1, <2>2 DEF VmidUnique, Sane
<1> QED
  BY <1>1, <1>4, <1>5, <1>6 DEF Sane

LEMMA CallsSane == Sane /\ Calls => Sane'
<1> SUFFICES ASSUME Sane, Calls PROVE Sane'
  OBVIOUS
<1>1. Typed'
  BY DEF Calls, CallShapes, Sane, Typed, Shaped
<1>2. KeepsPayloads /\ \A i \in Jobs : job'[i].phase # "idle" => job[i].phase # "idle"
  BY DEF Calls, KeepsPayloads
<1>3. \A s \in Rows : Exists(s)' => Key(s)' = Home(s)' /\ Known(s)'
  BY <1>2, KeysKept DEF Calls, KeepsGuests, Sane
<1>4. Placed'
  BY <1>2, <1>3, PlacedKept DEF Sane
<1>5. Locking'
  BY DEF Calls, Sane, Locking
<1>6. VmidUnique'
  BY DEF Calls, KeepsGuests, Sane, VmidUnique
<1> QED
  BY <1>1, <1>4, <1>5, <1>6 DEF Sane

(* The engine's steps.                                                     *)
LEMMA EngineStep ==
  ASSUME Sane, NEW j \in Jobs, job[j].phase # "idle", job' \in [Jobs -> JobRecords],
         \A i \in Jobs : i # j => job'[i] = job[i],
         job'[j].phase # "idle", job'[j].op = job[j].op, job'[j].row = job[j].row,
         job'[j].key = job[j].key, job'[j].args = job[j].args,
         job'[j].phase \notin {"loaded", "half"},
         lock' \in [ResourceKeys -> Jobs \cup {None}], Locking',
         interrupts' \in 0 .. MaxInterrupts, UNCHANGED <<guest, snap, request>>
  PROVE  Sane'
<1>1. Typed'
  <2>1. \A i \in Jobs : Shaped(i)'
    BY DEF Sane, Typed, Shaped
  <2>2. CallShapes
    BY DEF Sane, Typed, CallShapes, RequestShaped
  <2> QED
    BY <2>1, <2>2 DEF Sane, Typed, Tables, CallShapes
<1>2. KeepsPayloads /\ \A i \in Jobs : job'[i].phase # "idle" => job[i].phase # "idle"
  BY DEF KeepsPayloads
<1>3. \A s \in Rows : Exists(s)' => Key(s)' = Home(s)' /\ Known(s)'
  BY <1>2, KeysKept DEF Sane, Exists
<1>4. Placed'
  BY <1>2, <1>3, PlacedKept DEF Sane
<1>5. VmidUnique'
  BY DEF Sane, VmidUnique, Exists
<1> QED
  BY <1>1, <1>4, <1>5 DEF Sane

LEMMA SubmitSane ==
  ASSUME Sane, NEW j \in Jobs, Submit(j)
  PROVE  Sane'
<1>1. job[j].phase = "checked" /\ UNCHANGED <<guest, snap, request, interrupts>>
  BY DEF Submit
<1>2. PICK phase \in {"queued", "refused"} :
        /\ Phase(j, phase)
        /\ phase = "queued" => lock[job[j].key] = None /\ lock' = [lock EXCEPT ![job[j].key] = j]
        /\ phase = "refused" => UNCHANGED lock
  BY DEF Submit
<1>3. /\ job' \in [Jobs -> JobRecords]
      /\ job'[j].phase = phase
      /\ job'[j].op = job[j].op /\ job'[j].row = job[j].row /\ job'[j].key = job[j].key
      /\ job'[j].args = job[j].args
      /\ \A i \in Jobs : i # j => job'[i] = job[i]
  BY <1>2, PhaseStep DEF Sane, Phases, Active
<1>4. job[j].key \in ResourceKeys
  BY <1>1 DEF Sane, Typed, Shaped
<1>5. lock' \in [ResourceKeys -> Jobs \cup {None}] /\ Locking'
  <2>1. CASE lock[job[j].key] = None /\ lock' = [lock EXCEPT ![job[j].key] = j] /\ phase = "queued"
    <3>1. /\ lock' \in [ResourceKeys -> Jobs \cup {None}] /\ lock'[job[j].key] = j
          /\ \A k \in ResourceKeys : k # job[j].key => lock'[k] = lock[k]
      BY <1>4, <2>1 DEF Sane, Typed, Tables
    <3>2. \A i \in Jobs : job'[i].phase \in Active => lock'[job'[i].key] = i
      <4> SUFFICES ASSUME NEW i \in Jobs, i # j, job[i].phase \in Active
                   PROVE  lock'[job[i].key] = i
        BY <1>3, <3>1
      <4>1. job[i].key \in ResourceKeys /\ lock[job[i].key] = i
        BY DEF Sane, Typed, Shaped, Locking, Active
      <4>2. job[i].key # job[j].key
        BY <2>1, <4>1, NamesAssumption DEF Rows
      <4> QED
        BY <3>1, <4>1, <4>2
    <3>3. \A k \in ResourceKeys : lock'[k] # None =>
            job'[lock'[k]].phase \in Active /\ job'[lock'[k]].key = k
      <4> SUFFICES ASSUME NEW k \in ResourceKeys, lock'[k] # None
                   PROVE  job'[lock'[k]].phase \in Active /\ job'[lock'[k]].key = k
        OBVIOUS
      <4>1. CASE k = job[j].key
        BY <1>3, <2>1, <3>1, <4>1 DEF Active
      <4>2. CASE k # job[j].key
        <5>1. lock'[k] = lock[k] /\ lock[k] \in Jobs
          BY <3>1, <4>2
        <5>2. job[lock[k]].phase \in Active /\ job[lock[k]].key = k
          BY <5>1 DEF Sane, Locking
        <5>3. lock[k] # j
          BY <1>1, <5>2 DEF Active
        <5> QED
          BY <1>3, <5>1, <5>2, <5>3
      <4> QED
        BY <4>1, <4>2
    <3> QED
      BY <3>1, <3>2, <3>3 DEF Locking
  <2>2. CASE UNCHANGED lock /\ phase = "refused"
    <3>1. \A k \in ResourceKeys : lock[k] # j
      BY <1>1, NamesAssumption DEF Sane, Locking, Active, Rows
    <3> QED
      BY <1>3, <2>2, <3>1 DEF Sane, Typed, Tables, Locking, Active
  <2> QED
    BY <1>2, <2>1, <2>2
<1> QED
  BY <1>1, <1>2, <1>3, <1>5, EngineStep DEF Sane, Typed

LEMMA EndsSane ==
  ASSUME Sane, NEW j \in Jobs, NEW outcome \in {"success", "error", "cancelled"},
         job[j].phase \in Active, Ends(j, outcome)
  PROVE  Sane'
<1>1. /\ Phase(j, outcome) /\ UNCHANGED <<guest, snap, request, interrupts>>
      /\ lock' = [k \in ResourceKeys |-> IF lock[k] = j THEN None ELSE lock[k]]
  BY DEF Ends
<1>2. /\ job' \in [Jobs -> JobRecords]
      /\ job'[j].phase = outcome
      /\ job'[j].op = job[j].op /\ job'[j].row = job[j].row /\ job'[j].key = job[j].key
      /\ job'[j].args = job[j].args
      /\ \A i \in Jobs : i # j => job'[i] = job[i]
  BY <1>1, PhaseStep DEF Sane, Phases
<1>3. lock' \in [ResourceKeys -> Jobs \cup {None}]
  BY <1>1 DEF Sane, Typed, Tables
<1>4. outcome \notin Active /\ outcome # "idle" /\ job[j].phase # "idle"
  BY DEF Active
<1>5. Locking'
  <2>1. \A i \in Jobs : job'[i].phase \in Active => lock'[job'[i].key] = i
    <3> SUFFICES ASSUME NEW i \in Jobs, i # j, job[i].phase \in Active
                 PROVE  lock'[job[i].key] = i
      BY <1>2, <1>4
    <3>1. job[i].key \in ResourceKeys /\ lock[job[i].key] = i
      BY DEF Sane, Typed, Shaped, Locking, Active
    <3> QED
      BY <1>1, <3>1
  <2>2. \A k \in ResourceKeys : lock'[k] # None =>
          job'[lock'[k]].phase \in Active /\ job'[lock'[k]].key = k
    BY <1>1, <1>2 DEF Sane, Typed, Tables, Locking
  <2> QED
    BY <2>1, <2>2 DEF Locking
<1> QED
  BY <1>1, <1>2, <1>3, <1>4, <1>5, EngineStep DEF Sane, Typed

LEMMA BreaksOffSane ==
  ASSUME Sane, NEW j \in Jobs, NEW phase \in {"queued", "failed"}, BreaksOff(j, phase)
  PROVE  Sane'
<1>1. job[j].phase \in Active /\ UNCHANGED <<guest, snap, lock, request>>
  BY DEF BreaksOff
<1>2. /\ job' \in [Jobs -> JobRecords]
      /\ job'[j].phase = phase
      /\ job'[j].op = job[j].op /\ job'[j].row = job[j].row /\ job'[j].key = job[j].key
      /\ job'[j].args = job[j].args
      /\ \A i \in Jobs : i # j => job'[i] = job[i]
      /\ interrupts' \in 0 .. MaxInterrupts
  BY BreaksOffStep DEF Sane
<1>3. lock' \in [ResourceKeys -> Jobs \cup {None}]
  BY <1>1 DEF Sane, Typed, Tables
<1>4. Locking'
  BY <1>1, <1>2 DEF Sane, Locking, Typed, Tables, Active
<1>5. job[j].phase # "idle"
  BY <1>1 DEF Active
<1> QED
  BY <1>1, <1>2, <1>3, <1>4, <1>5, EngineStep

(* The next-state relation, as the kinds of step it consists of.           *)
LEMMA NextKinds ==
  ASSUME Next
  PROVE  \/ \E j \in Jobs : Check(j) \/ Submit(j) \/ Handle(j)
         \/ \E j \in Jobs : \E phase \in {"queued", "failed"} : BreaksOff(j, phase)
         \/ \E j \in Jobs : \E outcome \in {"success", "error", "cancelled"} :
              /\ job[j].phase \in Active /\ Ends(j, outcome)
              /\ outcome = "success" => job[j].phase = "applied"
              /\ outcome = "error" => job[j].phase = "failed"
         \/ \E q \in Requests : Directly(q)
         \/ UNCHANGED vars
<1>1. ASSUME NEW j \in Jobs, Finish(j) \/ Cancel(j)
      PROVE  \E outcome \in {"success", "error", "cancelled"} :
               /\ job[j].phase \in Active /\ Ends(j, outcome)
               /\ outcome = "success" => job[j].phase = "applied"
               /\ outcome = "error" => job[j].phase = "failed"
  BY <1>1 DEF Finish, Cancel, Active
<1> QED
  BY <1>1 DEF Next, Quiet, Reexecute, Raise

LEMMA NextSane == Sane /\ [Next]_vars => Sane'
<1> SUFFICES ASSUME Sane, [Next]_vars PROVE Sane'
  OBVIOUS
<1>1. CASE UNCHANGED vars
  BY <1>1 DEF vars, Sane, Typed, Tables, Shaped, RequestShaped, Placed, Exists, Key, Home, Known,
              Target, Locking, VmidUnique
<1>2. ASSUME NEW j \in Jobs, Check(j) PROVE Sane'
  BY <1>2, CheckAsks, AsksSane DEF Sane
<1>3. ASSUME NEW j \in Jobs, Submit(j) PROVE Sane'
  BY <1>3, SubmitSane
<1>4. ASSUME NEW j \in Jobs, Handle(j) PROVE Sane'
  BY <1>4, HandleHandles, HandlesSane DEF Sane
<1>5. ASSUME NEW j \in Jobs, NEW phase \in {"queued", "failed"}, BreaksOff(j, phase) PROVE Sane'
  BY <1>5, BreaksOffSane
<1>6. ASSUME NEW j \in Jobs, NEW outcome \in {"success", "error", "cancelled"},
             job[j].phase \in Active, Ends(j, outcome)
      PROVE  Sane'
  BY <1>6, EndsSane
<1>7. ASSUME NEW q \in Requests, Directly(q) PROVE Sane'
  <2>1. Calls
    BY <1>7, DirectCalls DEF Sane
  <2> QED
    BY <2>1, CallsSane
<1> QED
  BY <1>1, <1>2, <1>3, <1>4, <1>5, <1>6, <1>7, NextKinds

LEMMA SaneAlways == Spec => []Sane
BY InitSane, NextSane, PTL DEF Spec

(* The types of the tables, and of what tasks and calls remember.          *)
THEOREM GuestTypes == Spec => []TypeOK
<1>1. Sane => TypeOK
  BY TypedTypeOK DEF Sane
<1> QED
  BY <1>1, SaneAlways, PTL

(* One guest per vmid, whatever tasks and calls run, are cancelled or lost. *)
THEOREM GuestVmids == Spec => []VmidUnique
<1>1. Sane => VmidUnique
  BY DEF Sane
<1> QED
  BY <1>1, SaneAlways, PTL

-----------------------------------------------------------------------------
(* The promise of the task engine, kept by the tasks on guests.            *)
EngineSafety == Engine!PSafety

LEMMA EngineInit == Init => Engine!PInit
<1> SUFFICES ASSUME Init PROVE Engine!PInit
  OBVIOUS
<1>1. \A j \in Jobs : job[j].phase = "idle"
  BY DEF Init, Idle
<1>2. TaskState = [j \in Jobs |-> "none"]
  BY <1>1 DEF TaskState, Active
<1> QED
  BY <1>2 DEF Engine!PInit, Init

(* The engine does not notice a step that leaves the state of all tasks.   *)
LEMMA EngineStutters ==
  ASSUME \A j \in Jobs : job'[j].phase = job[j].phase
           \/ (job[j].phase \in Active /\ job'[j].phase \in Active)
           \/ (job[j].phase \in {"idle", "checked"} /\ job'[j].phase \in {"checked", "refused"}),
         UNCHANGED lock
  PROVE  UNCHANGED Engine!pvars
<1>1. \A j \in Jobs : TaskState'[j] = TaskState[j]
  BY DEF TaskState, Active
<1>2. TaskState' = TaskState
  BY <1>1 DEF TaskState
<1> QED
  BY <1>2 DEF Engine!pvars

LEMMA EngineAccepts ==
  ASSUME Typed, NEW j \in Jobs, job[j].phase = "checked", lock[job[j].key] = None,
         lock' = [lock EXCEPT ![job[j].key] = j], Phase(j, "queued")
  PROVE  Engine!Accept(j)
<1>1. /\ job'[j].phase = "queued"
      /\ \A i \in Jobs : i # j => job'[i] = job[i]
  BY PhaseStep DEF Phases, Active
<1>2. job[j].key \in ResourceKeys /\ job[j].key # None
  BY NamesAssumption DEF Typed, Shaped
<1>3. TaskState[j] = "none"
  BY DEF TaskState, Active
<1>4. TaskState' = [TaskState EXCEPT ![j] = "active"]
  BY <1>1 DEF TaskState, Active
<1>5. {} = {} \cup ({None} \ {None})
  OBVIOUS
<1> QED
  BY <1>2, <1>3, <1>4, <1>5 DEF Engine!Accept

LEMMA EngineEnds ==
  ASSUME Typed, NEW j \in Jobs, NEW outcome \in {"success", "error", "cancelled"},
         job[j].phase \in Active, Ends(j, outcome)
  PROVE  Engine!End(j)
<1>1. /\ job'[j].phase = outcome
      /\ \A i \in Jobs : i # j => job'[i] = job[i]
  BY PhaseStep DEF Ends, Phases
<1>2. TaskState[j] = "active"
  BY DEF TaskState, Active
<1>3. TaskState' = [TaskState EXCEPT ![j] = outcome]
  BY <1>1 DEF TaskState, Active
<1> QED
  BY <1>2, <1>3 DEF Engine!End, Engine!Outcomes, Ends

LEMMA EngineNext == Sane /\ [Next]_vars => [Engine!PNext]_(Engine!pvars)
<1> SUFFICES ASSUME Sane, [Next]_vars PROVE [Engine!PNext]_(Engine!pvars)
  OBVIOUS
<1> USE DEF Sane
<1>1. CASE UNCHANGED vars
  BY <1>1, EngineStutters DEF vars
<1>2. ASSUME NEW j \in Jobs, Check(j) PROVE UNCHANGED Engine!pvars
  BY <1>2, CheckAsks, EngineStutters DEF Asks
<1>3. ASSUME NEW j \in Jobs, Submit(j) PROVE Engine!Accept(j) \/ UNCHANGED Engine!pvars
  <2>1. CASE lock[job[j].key] = None
    BY <1>3, <2>1, EngineAccepts DEF Submit
  <2>2. CASE lock[job[j].key] # None
    <3>1. job[j].phase = "checked" /\ Phase(j, "refused") /\ UNCHANGED lock
      BY <1>3, <2>2 DEF Submit
    <3>2. job'[j].phase = "refused" /\ \A i \in Jobs : i # j => job'[i] = job[i]
      BY <3>1, PhaseStep DEF Phases
    <3> QED
      BY <3>1, <3>2, EngineStutters
  <2> QED
    BY <2>1, <2>2
<1>4. ASSUME NEW j \in Jobs, Handle(j) PROVE UNCHANGED Engine!pvars
  BY <1>4, HandleHandles, EngineStutters DEF Handles, Proceeds
<1>5. ASSUME NEW j \in Jobs, NEW phase \in {"queued", "failed"}, BreaksOff(j, phase)
      PROVE  UNCHANGED Engine!pvars
  <2>1. job'[j].phase \in Active /\ job[j].phase \in Active /\ \A i \in Jobs : i # j => job'[i] = job[i]
    BY <1>5, BreaksOffStep DEF BreaksOff, Active
  <2> QED
    BY <1>5, <2>1, EngineStutters DEF BreaksOff, Active
<1>6. ASSUME NEW j \in Jobs, NEW outcome \in {"success", "error", "cancelled"},
             job[j].phase \in Active, Ends(j, outcome)
      PROVE  Engine!End(j)
  BY <1>6, EngineEnds
<1>7. ASSUME NEW q \in Requests, Directly(q) PROVE UNCHANGED Engine!pvars
  <2>1. Calls
    BY <1>7, DirectCalls
  <2> QED
    BY <2>1, EngineStutters DEF Calls
<1> QED
  BY <1>1, <1>2, <1>3, <1>4, <1>5, <1>6, <1>7, NextKinds DEF Engine!PNext

(* The tasks on guests implement what TaskPromise says of tasks: an        *)
(* accepted task holds its guest until it ends, and ends once.             *)
THEOREM GuestTasksKeepPromise == Spec => EngineSafety
BY EngineInit, EngineNext, SaneAlways, PTL DEF Spec, EngineSafety, Engine!PSafety

-----------------------------------------------------------------------------
(* Two tasks that are being handled have different targets.                *)
LEMMA TargetsDiffer ==
  ASSUME Sane, NEW i \in Jobs, NEW j \in Jobs, i # j,
         job[i].phase \in Active, job[j].phase \in Active
  PROVE  Target(i) # Target(j)
<1>1. job[i].key # job[j].key
  BY DEF Sane, Locking
<1>2. job[i].key = Home(Target(i)) /\ job[j].key = Home(Target(j))
  BY DEF Sane, Placed, Active
<1> QED
  BY <1>1, <1>2

(* What a task has left behind stays left behind.                          *)
Remembers ==
  /\ \A k \in Keys : Parted(k) => Parted(k)'
  /\ \A r \in Rows : \A i \in Jobs : LeftBy(i, r) => LeftBy(i, r)'

LEMMA ProceedsRemembers ==
  ASSUME Typed, NEW j \in Jobs, Proceeds(j)
  PROVE  Remembers
<1>1. ASSUME NEW k \in Keys, Parted(k) PROVE Parted(k)'
  <2>1. PICK i \in Jobs :
          Parts(i, k) /\ (job[i].hurt \/ job[i].phase \in {"applied", "success", "cancelled"})
    BY <1>1 DEF Parted
  <2>2. Parts(i, k)' /\ (job'[i].hurt \/ job'[i].phase \in {"applied", "success", "cancelled"})
    BY <2>1 DEF Parts, Proceeds, Active
  <2> QED
    BY <2>2 DEF Parted
<1>2. ASSUME NEW r \in Rows, NEW i \in Jobs, LeftBy(i, r) PROVE LeftBy(i, r)'
  BY <1>2 DEF LeftBy, Proceeds, Active
<1> QED
  BY <1>1, <1>2 DEF Remembers

LEMMA AsksRemembers ==
  ASSUME Typed, NEW j \in Jobs, Asks(j)
  PROVE  Remembers
<1>1. job[j].row = None /\ job[j].hurt = FALSE /\ job[j].phase = "idle"
  BY DEF Asks, Typed, Shaped
<1>2. ASSUME NEW k \in Keys, Parted(k) PROVE Parted(k)'
  <2>1. PICK i \in Jobs :
          Parts(i, k) /\ (job[i].hurt \/ job[i].phase \in {"applied", "success", "cancelled"})
    BY <1>2 DEF Parted
  <2>2. job'[i] = job[i]
    BY <1>1, <2>1 DEF Asks
  <2> QED
    BY <2>1, <2>2 DEF Parted, Parts
<1>3. ASSUME NEW r \in Rows, NEW i \in Jobs, LeftBy(i, r) PROVE LeftBy(i, r)'
  BY <1>1, <1>3 DEF LeftBy, Asks
<1> QED
  BY <1>2, <1>3 DEF Remembers

LEMMA EngineProceeds ==
  ASSUME Sane', NEW j \in Jobs, job[j].phase \in Active \cup {"checked"},
         \A i \in Jobs : i # j => job'[i] = job[i],
         job'[j].phase # "idle", job'[j].op = job[j].op, job'[j].row = job[j].row,
         job'[j].key = job[j].key, job'[j].args = job[j].args,
         job[j].hurt => job'[j].hurt,
         job[j].phase = "applied" => job'[j].phase \in {"success", "cancelled"} \/ job'[j].hurt,
         job[j].phase = "half" => job'[j].phase = "cancelled" \/ job'[j].hurt
  PROVE  Proceeds(j)
BY DEF Proceeds, Sane, Typed

(* Only the task being handled can be halfway on its target.               *)
LEMMA NoOtherHalf ==
  ASSUME Sane, NEW j \in Jobs, job[j].phase \in Active, NEW i \in Jobs, i # j,
         job[i].row = Target(j)
  PROVE  ~At(i, "half", Stepwise)
<1> SUFFICES ASSUME At(i, "half", Stepwise) PROVE FALSE
  OBVIOUS
<1>1. Target(i) = job[i].row /\ job[i].phase \in Active
  BY DEF At, Target, Active, Stepwise, Power
<1> QED
  BY <1>1, TargetsDiffer

-----------------------------------------------------------------------------
(***************************************************************************)
(* The intermediate statuses, beside all direct calls but those that save  *)
(* what they have read of any guest (Rewriters): a task that writes back a *)
(* status it has read has read it from a guest that was stuck in it        *)
(* (HeldBack), and a call only writes back a status that is not an         *)
(* intermediate one (SavedBack).                                           *)
(***************************************************************************)
NoRewrites == Ops \cap Rewriters = {}

Stuck(r) == \E i \in Jobs : LeftBy(i, r)

Halfway(j, r) == job[j].row = r /\ At(j, "half", Stepwise)

Explained(r) ==
  Exists(r) /\ guest[r].status \in Transient => Stuck(r) \/ \E j \in Jobs : Halfway(j, r)

Captured(r) == snap[r] # None /\ snap[r].status \in Transient => Stuck(r)

Restorers == {"update", "snapshot-create", "snapshot-rollback"}

HeldBack(j) == At(j, "loaded", Restorers) /\ job[j].seen.status \in Transient => Stuck(job[j].row)

SavedBack(q) ==
  request[q].phase \in {"read", "half"} =>
    /\ request[q].op \notin Rewriters
    /\ request[q].op \in {"agent", "template"} => request[q].seen.status \in Settled

Transients ==
  /\ Sane
  /\ \A r \in Rows : Explained(r) /\ Captured(r)
  /\ \A j \in Jobs : HeldBack(j)
  /\ \A q \in Requests : SavedBack(q)

(* What a step may do to the status of a guest and to that of its snapshot. *)
StatusKept(r) ==
  Exists(r)' => \/ guest'[r].status \in Settled
                \/ Exists(r) /\ guest'[r].status = guest[r].status
                \/ Stuck(r)
                \/ \E j \in Jobs : Halfway(j, r)'

SnapKept(r) ==
  (snap[r] # None)' => \/ snap'[r] = snap[r]
                       \/ snap'[r].status \in Transient => Stuck(r)

(* How a task leaves the point between its two writes.                     *)
HalfKept(i) ==
  \A r \in Rows : Halfway(i, r) =>
    Halfway(i, r)' \/ LeftBy(i, r)' \/ (Exists(r)' => guest'[r].status \in Settled)

LEMMA TransientsKept ==
  ASSUME Transients, Sane', Remembers,
         \A r \in Rows : StatusKept(r) /\ SnapKept(r),
         \A i \in Jobs : HalfKept(i) /\ (job'[i] = job[i] \/ HeldBack(i)'),
         \A q \in Requests : SavedBack(q)'
  PROVE  Transients'
<1>1. \A r \in Rows : Stuck(r) => Stuck(r)'
  BY DEF Stuck, Remembers
<1>2. ASSUME NEW r \in Rows PROVE Explained(r)'
  <2> SUFFICES ASSUME Exists(r)', guest'[r].status \in Transient
               PROVE  Stuck(r)' \/ \E j \in Jobs : Halfway(j, r)'
    BY DEF Explained
  <2>1. guest'[r].status \notin Settled
    BY SettledNotTransient
  <2>2. CASE Stuck(r)
    BY <1>1, <2>2
  <2>3. CASE Exists(r) /\ guest'[r].status = guest[r].status /\ ~Stuck(r)
    <3>1. PICK i \in Jobs : Halfway(i, r)
      BY <2>3 DEF Transients, Explained
    <3>2. Halfway(i, r)' \/ LeftBy(i, r)'
      BY <2>1, <3>1 DEF HalfKept
    <3> QED
      BY <3>2 DEF Stuck
  <2> QED
    BY <2>1, <2>2, <2>3 DEF StatusKept
<1>3. ASSUME NEW r \in Rows PROVE Captured(r)'
  BY <1>1 DEF Transients, Captured, SnapKept
<1>4. ASSUME NEW i \in Jobs, job'[i] = job[i] PROVE HeldBack(i)'
  <2> SUFFICES ASSUME At(i, "loaded", Restorers), job[i].seen.status \in Transient
               PROVE  Stuck(job[i].row)'
    BY <1>4 DEF HeldBack, At
  <2>1. PICK r \in Rows : r = job[i].row
    BY DEF At, Restorers, Transients, Sane, Typed, Shaped
  <2>2. Stuck(r)
    BY <2>1 DEF Transients, HeldBack
  <2>3. Stuck(r)'
    BY <1>1, <2>2
  <2> QED
    BY <1>4, <2>1, <2>3
<1> QED
  BY <1>2, <1>3, <1>4 DEF Transients

(* What the record of a task leaves alone when it does not go on halfway.  *)
LEMMA SameHalf ==
  ASSUME NEW i \in Jobs, job'[i] = job[i]
  PROVE  HalfKept(i)
BY DEF HalfKept, Halfway, At

LEMMA SameRow ==
  ASSUME NEW r \in Rows, guest'[r] = guest[r], snap'[r] = snap[r]
  PROVE  StatusKept(r) /\ SnapKept(r)
BY DEF StatusKept, SnapKept, Exists

LEMMA StuckBefore ==
  ASSUME Transients, NEW j \in Jobs, job[j].phase \in {"queued", "loaded"},
         NEW r \in Rows, r = Target(j), Exists(r), guest[r].status \in Transient
  PROVE  Stuck(r)
<1>1. ASSUME NEW i \in Jobs, Halfway(i, r) PROVE FALSE
  <2>1. i # j /\ job[i].row = Target(j) /\ At(i, "half", Stepwise)
    BY <1>1 DEF Halfway, At
  <2> QED
    BY <2>1, NoOtherHalf DEF Transients, Active
<1> QED
  BY <1>1 DEF Transients, Explained

LEMMA StatusStored ==
  ASSUME Typed, NEW r \in Rows, NEW status, NEW row, row.status = status, Store(r, row)
  PROVE  /\ Exists(r)' => Exists(r) /\ guest'[r].status = status
         /\ \A s \in Rows : s # r => guest'[s] = guest[s]
BY DEF Store, Typed, Tables, Exists

-----------------------------------------------------------------------------
(* What each handler leaves behind.                                        *)
Leaves(j) ==
  /\ HeldBack(j)' /\ HalfKept(j)
  /\ \A r \in Rows : r = Target(j) => StatusKept(r) /\ SnapKept(r)

LEMMA QuietLeaves ==
  ASSUME Transients, NEW j \in Jobs, job[j].phase # "half", job'[j].phase # "loaded",
         UNCHANGED <<guest, snap>>
  PROVE  Leaves(j)
BY SameRow DEF Leaves, HeldBack, HalfKept, Halfway, At

LEMMA FailsLeaves ==
  ASSUME Transients, NEW j \in Jobs, Fails(j), job[j].phase \in {"queued", "loaded"}
  PROVE  Leaves(j)
<1>1. job'[j].phase = "failed"
  BY PhaseStep DEF Fails, Transients, Sane, Phases, Active
<1> QED
  BY <1>1, QuietLeaves DEF Fails

LEMMA PlanPowerLeaves ==
  ASSUME Transients, NEW j \in Jobs, PlanPower(j)
  PROVE  Leaves(j)
<1>1. job[j].phase = "queued" /\ job[j].op \in Stepwise
  BY DEF PlanPower, At
<1>2. CASE Fails(j)
  BY <1>1, <1>2, FailsLeaves
<1>3. CASE \E x \in Plans(guest[job[j].row].status, job[j].op) :
             Exists(job[j].row) /\ Loads(j, guest[job[j].row], x)
  <2>1. PICK x \in Transitions : Exists(job[j].row) /\ Loads(j, guest[job[j].row], x)
    BY <1>3 DEF Plans
  <2>2. PICK r \in Rows : r = job[j].row
    BY <1>1 DEF Transients, Sane, Typed, Shaped, Stepwise, Power
  <2>3. guest[r] \in Guest
    BY <2>1, <2>2, KeyType DEF Transients, Sane
  <2>4. job'[j].op = job[j].op
    BY <2>1, <2>2, <2>3, LoadsStep DEF Transients, Sane
  <2>5. HeldBack(j)'
    BY <1>1, <2>4 DEF HeldBack, At, Restorers, Stepwise, Power
  <2> QED
    BY <1>1, <2>1, <2>5, SameRow DEF Leaves, HalfKept, Halfway, At, Loads
<1> QED
  BY <1>2, <1>3 DEF PlanPower

LEMMA LoadLeaves ==
  ASSUME Transients, NEW j \in Jobs, Load(j)
  PROVE  Leaves(j)
<1>1. job[j].phase = "queued" /\ job[j].op \in GuestReaders \cup {"snapshot-rollback"}
  BY DEF Load, At, GuestReaders
<1>2. PICK r \in Rows : r = job[j].row
  BY <1>1 DEF Transients, Sane, Typed, Shaped, GuestReaders
<1>3. CASE Fails(j)
  BY <1>1, <1>3, FailsLeaves
<1>4. CASE ~Fails(j)
  <2> DEFINE row == IF job[j].op = "snapshot-rollback" THEN snap[r] ELSE guest[r]
  <2>1. row # None /\ Loads(j, row, None)
    BY <1>2, <1>4 DEF Load
  <2>2. row \in Guest \cup Snapshot
    BY <2>1 DEF Transients, Sane, Typed, Tables
  <2>3. /\ job'[j].phase = "loaded" /\ job'[j].seen = row
        /\ job'[j].op = job[j].op /\ job'[j].row = job[j].row
        /\ \A i \in Jobs : i # j => job'[i] = job[i]
    BY <2>1, <2>2, LoadsStep DEF Transients, Sane
  <2>4. job[j].op \in Restorers /\ row.status \in Transient => Stuck(r)
    <3>1. CASE job[j].op = "snapshot-rollback"
      BY <2>1, <3>1 DEF Transients, Captured
    <3>2. CASE job[j].op \in Restorers \ {"snapshot-rollback"}
      <4>1. Target(j) = r /\ row = guest[r]
        BY <1>2, <3>2 DEF Target, Restorers
      <4> QED
        BY <1>1, <2>1, <4>1, StuckBefore DEF Exists
    <3> QED
      BY <3>1, <3>2
  <2>5. Stuck(r) => Stuck(r)'
    BY <1>1, <1>2, LoadHandles, ProceedsRemembers DEF Transients, Sane, Handles, Remembers, Stuck
  <2>6. HeldBack(j)'
    <3> HIDE DEF row
    <3>1. (At(j, "loaded", Restorers) /\ job[j].seen.status \in Transient)' => Stuck(r)'
      BY <2>3, <2>4, <2>5 DEF At
    <3>2. Stuck(r)' => (Stuck(job[j].row))'
      BY <1>2, <2>3 DEF Stuck, LeftBy
    <3> QED
      BY <3>1, <3>2 DEF HeldBack
  <2> QED
    BY <1>1, <2>1, <2>6, SameRow DEF Leaves, HalfKept, Halfway, At, Loads
<1> QED
  BY <1>3, <1>4

LEMMA StoreLeaves ==
  ASSUME Transients, NEW j \in Jobs, NEW r \in Rows, job[j].row = r, NEW row, Store(r, row),
         Target(j) = r, UNCHANGED snap, job'[j].phase # "loaded",
         Exists(r) => \/ row.status \in Settled \/ row.status = guest[r].status
                      \/ Stuck(r) \/ Halfway(j, r)',
         job[j].phase = "half" => row.status \in Settled
  PROVE  Leaves(j)
<1>1. Exists(r)' => Exists(r) /\ guest'[r].status = row.status
  BY StatusStored DEF Transients, Sane
<1>2. StatusKept(r) /\ SnapKept(r)
  BY <1>1 DEF StatusKept, SnapKept
<1>3. HalfKept(j)
  BY <1>1 DEF HalfKept, Halfway, At
<1>4. HeldBack(j)'
  BY DEF HeldBack, At
<1> QED
  BY <1>2, <1>3, <1>4 DEF Leaves

(* The target of a task on a guest that exists, and the step it is about to take. *)
LEMMA TargetRow ==
  ASSUME Transients, NEW j \in Jobs, job[j].phase \in {"queued", "loaded", "half"},
         job[j].op \notin {"create", "clone"}
  PROVE  job[j].row \in Rows /\ Target(j) = job[j].row
BY DEF Transients, Sane, Typed, Shaped, Target

LEMMA PowerLeaves ==
  ASSUME Transients, NEW j \in Jobs, BeginPower(j) \/ EndPower(j) \/ EndMigrate(j)
  PROVE  Leaves(j)
<1>1. job[j].phase \in {"loaded", "half"} /\ job[j].op \in Stepwise
  BY DEF BeginPower, EndPower, EndMigrate, At, Stepwise
<1>2. PICK r \in Rows : r = job[j].row /\ r = Target(j)
  BY <1>1, TargetRow DEF Stepwise, Power
<1>3. UNCHANGED snap /\ job[j].plan.to \in Settled
  BY <1>1, Transition DEF BeginPower, EndPower, EndMigrate, Transients, Sane, Typed, Shaped
<1>4. CASE BeginPower(j)
  <2>1. job'[j].phase = "half" /\ job'[j].op = job[j].op /\ job'[j].row = job[j].row
    BY <1>4, PhaseStep DEF BeginPower, Transients, Sane, Phases, Active
  <2>2. Halfway(j, r)'
    BY <1>1, <1>2, <2>1 DEF Halfway, At
  <2>3. PICK row : Store(r, row)
    BY <1>2, <1>4 DEF BeginPower
  <2> QED
    BY <1>2, <1>3, <1>4, <2>1, <2>2, <2>3, StoreLeaves DEF BeginPower, At
<1>5. CASE EndPower(j) \/ EndMigrate(j)
  <2>1. job'[j].phase = "applied"
    BY <1>5, PhaseStep DEF EndPower, EndMigrate, Transients, Sane, Phases, Active
  <2> DEFINE ended == Row(r, job[j].plan.to, job[j].seen.cfg, guest[r].config,
                          IF job[j].op = "migrate" THEN 1 ELSE 0)
             moved == [ended EXCEPT !.node = job[j].args.node]
  <2>2. ended.status = job[j].plan.to /\ moved.status = job[j].plan.to
    BY DEF Row
  <2>3. Store(r, ended) \/ Store(r, moved)
    BY <1>2, <1>5 DEF EndPower, EndMigrate, At, Power
  <2> HIDE DEF ended, moved
  <2>4. PICK row : Store(r, row) /\ row.status \in Settled
    BY <1>3, <2>2, <2>3
  <2> QED
    BY <1>2, <1>3, <2>1, <2>4, StoreLeaves
<1> QED
  BY <1>4, <1>5

LEMMA InsertLeaves ==
  ASSUME Transients, NEW j \in Jobs, NEW status \in Settled, NEW cfg, NEW config,
         Insert(j, status, cfg, config), job[j].phase \in {"queued", "loaded"}, Target(j) = j
  PROVE  Leaves(j)
<1>1. CASE Fails(j)
  BY <1>1, FailsLeaves
<1>2. CASE ~Fails(j)
  <2>1. job'[j].phase = "applied" /\ UNCHANGED snap
    BY <1>2, PhaseStep DEF Insert, Transients, Sane, Phases, Active
  <2>2. guest'[j].status = status
    BY <1>2 DEF Insert, Transients, Sane, Typed, Tables, Rows
  <2>3. StatusKept(j) /\ SnapKept(j)
    BY <2>1, <2>2 DEF StatusKept, SnapKept
  <2> QED
    BY <2>1, <2>3 DEF Leaves, HeldBack, HalfKept, Halfway, At
<1> QED
  BY <1>1, <1>2

LEMMA CreateLeaves ==
  ASSUME Transients, NEW j \in Jobs, Create(j) \/ Clone(j)
  PROVE  Leaves(j)
<1>1. job[j].phase \in {"queued", "loaded"} /\ Target(j) = j
  BY DEF Create, Clone, At, Target
<1>2. \E status \in Settled : \E cfg : \E config : Insert(j, status, cfg, config)
  BY DEF Create, Clone, Settled
<1> QED
  BY <1>1, <1>2, InsertLeaves

LEMMA DeleteLeaves ==
  ASSUME Transients, NEW j \in Jobs, Delete(j)
  PROVE  Leaves(j)
<1>1. job[j].phase = "queued" /\ job[j].op = "delete"
  BY DEF Delete, At
<1>2. PICK r \in Rows : r = job[j].row /\ r = Target(j)
  BY <1>1, TargetRow
<1>3. CASE Fails(j)
  BY <1>1, <1>3, FailsLeaves
<1>4. CASE ~Fails(j)
  <2>1. job'[j].phase = "applied"
    BY <1>4, PhaseStep DEF Delete, Transients, Sane, Phases, Active
  <2>2. guest'[r] = None /\ snap'[r] = None
    BY <1>2, <1>4 DEF Delete, Transients, Sane, Typed, Tables
  <2> QED
    BY <1>1, <1>2, <2>1, <2>2 DEF Leaves, HeldBack, HalfKept, Halfway, At, StatusKept, SnapKept, Exists
<1> QED
  BY <1>3, <1>4

LEMMA UpdateLeaves ==
  ASSUME Transients, NEW j \in Jobs, Update(j) \/ SnapshotRollback(j)
  PROVE  Leaves(j)
<1>1. /\ At(j, "loaded", Restorers) /\ job[j].phase = "loaded" /\ Phase(j, "applied")
      /\ job[j].op \in {"update", "snapshot-rollback"} /\ UNCHANGED snap
  BY DEF Update, SnapshotRollback, Applies, At, Restorers
<1>2. PICK r \in Rows : r = job[j].row /\ r = Target(j)
  BY <1>1, TargetRow
<1>3. job'[j].phase = "applied"
  BY <1>1, PhaseStep DEF Transients, Sane, Phases, Active
<1>4. PICK row : Store(r, row) /\ (row.status = job[j].seen.status \/ row.status = "running")
  BY <1>2 DEF Update, SnapshotRollback, Applies, Row
<1>5. job[j].seen.status \in Transient => Stuck(r)
  BY <1>1, <1>2 DEF Transients, HeldBack
<1>6. job[j].seen.status \in Settled \cup Transient
  BY <1>1 DEF Transients, Sane, Typed, Shaped, GuestReaders, Guest, Snapshot
<1> QED
  BY <1>1, <1>2, <1>3, <1>4, <1>5, <1>6, StoreLeaves DEF Settled

LEMMA MoveDiskLeaves ==
  ASSUME Transients, NEW j \in Jobs, MoveDisk(j)
  PROVE  Leaves(j)
<1>1. job[j].phase = "loaded" /\ job[j].op = "move-disk"
  BY DEF MoveDisk, At
<1>2. PICK r \in Rows : r = job[j].row /\ r = Target(j)
  BY <1>1, TargetRow
<1>3. CASE Fails(j)
  BY <1>1, <1>3, FailsLeaves
<1>4. CASE ~Fails(j)
  <2>1. Phase(j, "applied") /\ UNCHANGED snap
    BY <1>4 DEF MoveDisk, Applies
  <2>2. job'[j].phase = "applied"
    BY <2>1, PhaseStep DEF Transients, Sane, Phases, Active
  <2>3. PICK row : Store(r, row) /\ row.status = guest[r].status
    BY <1>2, <1>4 DEF MoveDisk, Applies, Row
  <2> QED
    BY <1>1, <1>2, <2>1, <2>2, <2>3, StoreLeaves
<1> QED
  BY <1>3, <1>4

LEMMA SnapshotLeaves ==
  ASSUME Transients, NEW j \in Jobs, SnapshotCreate(j) \/ SnapshotDelete(j)
  PROVE  Leaves(j)
<1>1. /\ job[j].phase \in {"queued", "loaded"}
      /\ job[j].op \in {"snapshot-create", "snapshot-delete"}
  BY DEF SnapshotCreate, SnapshotDelete, At
<1>2. PICK r \in Rows : r = job[j].row /\ r = Target(j)
  BY <1>1, TargetRow
<1>3. CASE Fails(j)
  BY <1>1, <1>3, FailsLeaves
<1>4. CASE ~Fails(j)
  <2>1. Phase(j, "applied") /\ UNCHANGED guest
    BY <1>4 DEF SnapshotCreate, SnapshotDelete
  <2>2. job'[j].phase = "applied"
    BY <2>1, PhaseStep DEF Transients, Sane, Phases, Active
  <2>3. SnapKept(r)
    <3>1. CASE SnapshotDelete(j)
      BY <1>2, <1>4, <3>1 DEF SnapshotDelete, SnapKept, Transients, Sane, Typed, Tables
    <3>2. CASE SnapshotCreate(j)
      <4>1. snap'[r].status = job[j].seen.status
        BY <1>2, <1>4, <3>2 DEF SnapshotCreate, Transients, Sane, Typed, Tables
      <4>2. job[j].seen.status \in Transient => Stuck(r)
        BY <1>2, <3>2 DEF SnapshotCreate, Transients, HeldBack, At, Restorers
      <4> QED
        BY <4>1, <4>2 DEF SnapKept
    <3> QED
      BY <3>1, <3>2
  <2>4. StatusKept(r)
    BY <2>1 DEF StatusKept, Exists
  <2> QED
    BY <1>1, <1>2, <2>2, <2>3, <2>4 DEF Leaves, HeldBack, HalfKept, Halfway, At
<1> QED
  BY <1>3, <1>4

LEMMA HandleLeaves ==
  ASSUME Transients, NEW j \in Jobs, Handle(j)
  PROVE  Leaves(j)
BY PlanPowerLeaves, PowerLeaves, LoadLeaves, CreateLeaves, DeleteLeaves, UpdateLeaves,
   MoveDiskLeaves, SnapshotLeaves DEF Handle

-----------------------------------------------------------------------------
(* Every step keeps the intermediate statuses explained.                   *)
LEMMA HandleTransients ==
  ASSUME Transients, NEW j \in Jobs, Handle(j)
  PROVE  Transients'
<1>1. Handles(j) /\ Leaves(j)
  BY HandleHandles, HandleLeaves DEF Transients, Sane
<1>2. Sane' /\ Remembers
  BY <1>1, HandlesSane, ProceedsRemembers DEF Transients, Sane, Handles
<1>3. \A r \in Rows : StatusKept(r) /\ SnapKept(r)
  BY <1>1, SameRow DEF Leaves, Handles, WritesTarget
<1>4. \A i \in Jobs : HalfKept(i) /\ (job'[i] = job[i] \/ HeldBack(i)')
  BY <1>1, SameHalf DEF Leaves, Handles, Proceeds
<1>5. \A q \in Requests : SavedBack(q)'
  BY <1>1 DEF Handles, Transients, SavedBack
<1> QED
  BY <1>2, <1>3, <1>4, <1>5, TransientsKept

(* The steps that change only the phase of one task.                       *)
LEMMA PhaseTransients ==
  ASSUME Transients, Sane', Remembers, NEW j \in Jobs, UNCHANGED <<guest, snap, request>>,
         \A i \in Jobs : i # j => job'[i] = job[i],
         job'[j].phase # "loaded",
         job[j].phase = "half" => /\ job'[j].row = job[j].row /\ job'[j].op = job[j].op
                                  /\ job'[j].hurt \/ job'[j].phase = "cancelled"
  PROVE  Transients'
<1>1. HalfKept(j) /\ HeldBack(j)'
  BY DEF HalfKept, Halfway, LeftBy, HeldBack, At
<1>2. \A q \in Requests : SavedBack(q)'
  BY DEF Transients, SavedBack
<1> QED
  BY <1>1, <1>2, SameHalf, SameRow, TransientsKept

LEMMA CheckTransients ==
  ASSUME Transients, NEW j \in Jobs, Check(j)
  PROVE  Transients'
<1>1. Asks(j)
  BY CheckAsks DEF Transients, Sane
<1>2. Sane' /\ Remembers
  BY <1>1, AsksSane, AsksRemembers DEF Transients, Sane
<1> QED
  BY <1>1, <1>2, PhaseTransients DEF Asks

LEMMA EngineTransients ==
  ASSUME Transients, NEW j \in Jobs, Sane', UNCHANGED <<guest, snap, request>>,
         job[j].phase \in Active \cup {"checked"},
         \A i \in Jobs : i # j => job'[i] = job[i],
         job'[j].phase \in {"queued", "failed", "refused", "success", "error", "cancelled"},
         job'[j].op = job[j].op, job'[j].row = job[j].row,
         job'[j].key = job[j].key, job'[j].args = job[j].args,
         job[j].hurt => job'[j].hurt,
         job[j].phase = "applied" => job'[j].phase \in {"success", "cancelled"} \/ job'[j].hurt,
         job[j].phase = "half" => job'[j].phase = "cancelled" \/ job'[j].hurt
  PROVE  Transients'
<1>1. Remembers
  BY EngineProceeds, ProceedsRemembers DEF Transients, Sane
<1> QED
  BY <1>1, PhaseTransients

LEMMA SubmitTransients ==
  ASSUME Transients, NEW j \in Jobs, Submit(j)
  PROVE  Transients'
<1>1. job[j].phase = "checked" /\ UNCHANGED <<guest, snap, request>>
  BY DEF Submit
<1>2. PICK phase \in {"queued", "refused"} : Phase(j, phase)
  BY DEF Submit
<1>3. /\ job'[j].phase = phase /\ job'[j].hurt = job[j].hurt
      /\ job'[j].op = job[j].op /\ job'[j].row = job[j].row /\ job'[j].key = job[j].key
      /\ job'[j].args = job[j].args
      /\ \A i \in Jobs : i # j => job'[i] = job[i]
  BY <1>2, PhaseStep DEF Transients, Sane, Phases, Active
<1>4. Sane'
  BY SubmitSane DEF Transients
<1> QED
  BY <1>1, <1>3, <1>4, EngineTransients

LEMMA EndsTransients ==
  ASSUME Transients, NEW j \in Jobs, NEW outcome \in {"success", "error", "cancelled"},
         job[j].phase \in Active, Ends(j, outcome),
         outcome = "success" => job[j].phase = "applied",
         outcome = "error" => job[j].phase = "failed"
  PROVE  Transients'
<1>1. Phase(j, outcome) /\ UNCHANGED <<guest, snap, request>>
  BY DEF Ends
<1>2. /\ job'[j].phase = outcome /\ job'[j].hurt = job[j].hurt
      /\ job'[j].op = job[j].op /\ job'[j].row = job[j].row /\ job'[j].key = job[j].key
      /\ job'[j].args = job[j].args
      /\ \A i \in Jobs : i # j => job'[i] = job[i]
  BY <1>1, PhaseStep DEF Transients, Sane, Phases
<1>3. Sane'
  BY EndsSane DEF Transients
<1> QED
  BY <1>1, <1>2, <1>3, EngineTransients

LEMMA BreaksOffTransients ==
  ASSUME Transients, NEW j \in Jobs, NEW phase \in {"queued", "failed"}, BreaksOff(j, phase)
  PROVE  Transients'
<1>1. job[j].phase \in Active /\ UNCHANGED <<guest, snap, request>>
  BY DEF BreaksOff
<1>2. /\ job'[j].phase = phase /\ job'[j].hurt
      /\ job'[j].op = job[j].op /\ job'[j].row = job[j].row /\ job'[j].key = job[j].key
      /\ job'[j].args = job[j].args
      /\ \A i \in Jobs : i # j => job'[i] = job[i]
  BY BreaksOffStep DEF Transients, Sane
<1>3. Sane'
  BY BreaksOffSane DEF Transients
<1> QED
  BY <1>1, <1>2, <1>3, EngineTransients

(* What the direct calls write, when none is a rewriter.                   *)
LEMMA SavesSettled ==
  ASSUME Transients, NEW q \in Requests, Respond(q), NEW r \in Rows
  PROVE  StatusKept(r)
<1>1. request[q].phase \in {"read", "half"}
  BY DEF Respond, PutState, PutConfig, SaveConfig, ResizeState, SaveState, ConvertColumn,
         ConvertState, Pending
<1>2. /\ request[q].op \notin Rewriters
      /\ request[q].op \in {"agent", "template"} => request[q].seen.status \in Settled
  BY <1>1 DEF Transients, SavedBack
<1>3. PICK t \in Rows : t = request[q].row
  BY <1>1 DEF Transients, Sane, Typed, RequestShaped
<1>4. CASE UNCHANGED guest
  BY <1>4 DEF StatusKept, Exists
<1>5. CASE \E row : Store(t, row) /\ (row.status \in Settled \/ row.status = guest[t].status)
  <2>1. PICK row : Store(t, row) /\ (row.status \in Settled \/ row.status = guest[t].status)
    BY <1>5
  <2> QED
    BY <2>1, StatusStored DEF StatusKept, Exists, Transients, Sane
<1>6. CASE SaveConfig(q) \/ ResizeState(q)
  <2>1. \E row : Store(t, row) /\ row.status = guest[t].status
    BY <1>3, <1>6 DEF SaveConfig, ResizeState, Row
  <2> QED
    BY <1>5, <2>1
<1>7. CASE SaveState(q) \/ ConvertState(q)
  <2>1. SavedStatuses(q) \subseteq Settled \/ ~SaveState(q)
    BY <1>2 DEF SavedStatuses, SaveState, Pending, Rewriters, Settled
  <2>2. CASE SaveState(q)
    <3>1. PICK status \in Settled :
            Store(t, Row(t, status, request[q].seen.cfg, guest[t].config, 1))
      BY <1>3, <2>1, <2>2 DEF SaveState
    <3>2. Row(t, status, request[q].seen.cfg, guest[t].config, 1).status = status
      BY DEF Row
    <3> QED
      BY <1>5, <3>1, <3>2
  <2>3. CASE ConvertState(q)
    <3>1. \E row : Store(t, row) /\ row.status \in Settled
      BY <1>2, <1>3, <2>3 DEF ConvertState, Pending, Row
    <3> QED
      BY <1>5, <3>1
  <2> QED
    BY <1>7, <2>2, <2>3
<1> QED
  BY <1>2, <1>4, <1>6, <1>7 DEF Respond, PutState, PutConfig, ConvertColumn, Pending, Rewriters

LEMMA DirectKeepsStatuses ==
  ASSUME Transients, NEW q \in Requests, Directly(q), NEW r \in Rows
  PROVE  StatusKept(r)
<1>1. CASE Read(q) \/ Abort(q)
  BY <1>1 DEF Read, Abort, StatusKept, Exists
<1>2. CASE SetStatuses(q)
  <2>1. PICK ns \in {Nodes} \cup {{n} : n \in Nodes}, status \in Settled :
          guest' = [s \in Rows |-> IF s \in On(ns) THEN [guest[s] EXCEPT !.status = status]
                                                   ELSE guest[s]]
    BY <1>2 DEF SetStatuses
  <2>2. Exists(r) => [guest[r] EXCEPT !.status = status].status = status
    BY KeyType DEF Transients, Sane, Guest
  <2> QED
    BY <2>1, <2>2 DEF On, StatusKept, Exists
<1>3. CASE MigrateAll(q)
  <2>1. PICK rs \in {On({n}) : n \in Nodes} \cup {{s} : s \in On(Nodes)}, to \in Nodes :
          guest' = [s \in Rows |-> IF s \in rs THEN [guest[s] EXCEPT !.node = to] ELSE guest[s]]
    BY <1>3 DEF MigrateAll
  <2>2. Exists(r) => [guest[r] EXCEPT !.node = to].status = guest[r].status
    BY KeyType DEF Transients, Sane, Guest
  <2>3. Exists(r)' => Exists(r)
    BY <1>3, SweepCalls DEF Calls, KeepsGuests, Transients, Sane
  <2> QED
    BY <2>1, <2>2, <2>3 DEF StatusKept
<1> QED
  BY <1>1, <1>2, <1>3, SavesSettled DEF Directly

LEMMA DirectSaves ==
  ASSUME NoRewrites, Transients, NEW q \in Requests, Directly(q), NEW p \in Requests
  PROVE  SavedBack(p)'
<1>1. request \in [Requests -> RequestRecords] /\ SavedBack(p)
  BY DEF Transients, Sane, Typed
<1>2. CASE Read(q)
  <2>1. PICK op \in Ops \cap Savers, r \in Rows, k \in Keys, v \in Values \cup {None} :
          /\ Proper(r, op, k, v)
          /\ request' = [request EXCEPT ![q] = [op |-> op, row |-> r, key |-> k, value |-> v,
                                                seen |-> guest[r], ended |-> Complete,
                                                phase |-> "read"]]
    BY <1>2 DEF Read
  <2>2. /\ op = "agent" => guest[r].status = "running"
        /\ op = "template" => guest[r].status = "stopped"
    BY <2>1 DEF Proper
  <2> QED
    BY <1>1, <2>1, <2>2 DEF SavedBack, NoRewrites, Settled
<1>3. CASE Respond(q) \/ Abort(q)
  <2>1. PICK phase : request' = [request EXCEPT ![q].phase = phase]
    BY <1>3 DEF Respond, Abort, PutState, PutConfig, SaveConfig, ResizeState, SaveState,
                ConvertColumn, ConvertState, Turns
  <2>2. request[q].phase \in {"read", "half"}
    BY <1>3 DEF Respond, Abort, PutState, PutConfig, SaveConfig, ResizeState, SaveState,
                ConvertColumn, ConvertState, Pending
  <2>3. request[q] \in RequestRecords /\ SavedBack(q)
    BY <1>1 DEF Transients
  <2>4. request'[p].op = request[p].op /\ request'[p].seen = request[p].seen
    BY <1>1, <2>1, <2>3 DEF RequestRecords
  <2>5. p # q => request'[p] = request[p]
    BY <1>1, <2>1
  <2> QED
    BY <1>1, <2>2, <2>3, <2>4, <2>5 DEF SavedBack
<1>4. CASE SetStatuses(q) \/ MigrateAll(q)
  <2>1. PICK op : request' = [request EXCEPT ![q].op = op, ![q].phase = "done"]
    BY <1>4 DEF SetStatuses, MigrateAll, Sweeps
  <2> DEFINE new == [request[q] EXCEPT !.op = op, !.phase = "done"]
  <2>2. new.phase = "done"
    BY <1>1 DEF RequestRecords
  <2>3. request' = [request EXCEPT ![q] = new]
    BY <2>1
  <2> HIDE DEF new
  <2>4. request'[q].phase = "done" /\ (p # q => request'[p] = request[p])
    BY <1>1, <2>2, <2>3
  <2> QED
    BY <1>1, <2>4 DEF SavedBack
<1> QED
  BY <1>2, <1>3, <1>4 DEF Directly

LEMMA DirectTransients ==
  ASSUME NoRewrites, Transients, NEW q \in Requests, Directly(q)
  PROVE  Transients'
<1>1. Calls
  BY DirectCalls DEF Transients, Sane
<1>2. Sane'
  BY <1>1, CallsSane DEF Transients
<1>3. Remembers
  BY <1>1 DEF Calls, Remembers, Parted, Parts, LeftBy
<1>4. \A r \in Rows : StatusKept(r) /\ SnapKept(r)
  BY <1>1, DirectKeepsStatuses DEF Calls, SnapKept
<1>5. \A i \in Jobs : HalfKept(i) /\ job'[i] = job[i]
  BY <1>1, SameHalf DEF Calls
<1>6. \A p \in Requests : SavedBack(p)'
  BY DirectSaves
<1> QED
  BY <1>2, <1>3, <1>4, <1>5, <1>6, TransientsKept

LEMMA NextTransients ==
  ASSUME NoRewrites, Transients, [Next]_vars
  PROVE  Transients'
<1>1. CASE UNCHANGED vars
  <2>1. Sane'
    BY NextSane DEF Transients
  <2>2. Remembers
    BY <1>1 DEF vars, Remembers, Parted, Parts, LeftBy
  <2>3. \A q \in Requests : SavedBack(q)'
    BY <1>1 DEF vars, Transients, SavedBack
  <2> QED
    BY <1>1, <2>1, <2>2, <2>3, SameHalf, SameRow, TransientsKept DEF vars
<1>2. ASSUME NEW j \in Jobs, Check(j) \/ Submit(j) \/ Handle(j)
      PROVE  Transients'
  BY <1>2, CheckTransients, SubmitTransients, HandleTransients
<1>3. ASSUME NEW j \in Jobs, NEW outcome \in {"success", "error", "cancelled"},
             job[j].phase \in Active, Ends(j, outcome),
             outcome = "success" => job[j].phase = "applied",
             outcome = "error" => job[j].phase = "failed"
      PROVE  Transients'
  BY <1>3, EndsTransients
<1>4. ASSUME NEW q \in Requests, Directly(q) PROVE Transients'
  BY <1>4, DirectTransients
<1>5. ASSUME NEW j \in Jobs, NEW phase \in {"queued", "failed"}, BreaksOff(j, phase)
      PROVE  Transients'
  BY <1>5, BreaksOffTransients
<1> QED
  BY <1>1, <1>2, <1>3, <1>4, <1>5, NextKinds

LEMMA InitTransients == Init => Transients
<1> SUFFICES ASSUME Init PROVE Transients
  OBVIOUS
<1>1. Sane
  BY InitSane
<1>2. \A j \in Jobs : HeldBack(j)
  BY DEF Init, Idle, HeldBack, At
<1>3. \A q \in Requests : SavedBack(q)
  BY DEF Init, SavedBack
<1>4. ASSUME NEW r \in Rows PROVE Explained(r) /\ Captured(r)
  <2>1. snap[r] = None
    BY DEF Init
  <2>2. Exists(r) => r \in Seeded /\ guest[r] = Seed[r]
    BY DEF Init, Exists
  <2>3. Exists(r) => guest[r].status \notin Transient
    BY <2>2, SeedAssumption, SettledNotTransient
  <2> QED
    BY <2>1, <2>3 DEF Explained, Captured
<1> QED
  BY <1>1, <1>2, <1>3, <1>4 DEF Transients

LEMMA TransientsAlways == ASSUME NoRewrites PROVE Spec => []Transients
<1>1. Transients /\ [Next]_vars => Transients'
  BY NextTransients
<1> QED
  BY <1>1, InitTransients, PTL DEF Spec

(* Beside all direct calls but Rewriters, an intermediate status is that   *)
(* of a task between its writes, or left by one that was cancelled or      *)
(* lost.                                                                   *)
THEOREM GuestTransients == ASSUME NoRewrites PROVE Spec => []TransientExplained
<1>1. Transients => TransientExplained
  BY DEF Transients, Explained, Stuck, Halfway, TransientExplained
<1> QED
  BY <1>1, TransientsAlways, PTL

(* And a snapshot captures one only of a guest that such a task left in it. *)
THEOREM GuestSnapshots == ASSUME NoRewrites PROVE Spec => []SnapshotsSettled
<1>1. Transients => SnapshotsSettled
  BY DEF Transients, Captured, Stuck, SnapshotsSettled
<1> QED
  BY <1>1, TransientsAlways, PTL

-----------------------------------------------------------------------------
(***************************************************************************)
(* What the handlers know, when only tasks write: nobody else writes the   *)
(* row of a task that is being handled, so what its handler has seen there *)
(* is still so when it writes.                                             *)
(***************************************************************************)
TasksOnly == Ops \cap DirectOps = {}

Rereaders == Stepwise \cup {"update", "move-disk", "snapshot-create"}

Sound(j) ==
  /\ At(j, "loaded", Rereaders) => guest[job[j].row] = job[j].seen
  /\ At(j, "loaded", Stepwise) => job[j].plan.from = job[j].seen.status
  /\ At(j, "loaded", {"clone"}) => Agree(job[j].seen)
  /\ At(j, "loaded", {"snapshot-rollback"}) => snap[job[j].row] = job[j].seen
  /\ job[j].phase = "half" => /\ Exists(job[j].row)
                              /\ guest[job[j].row].status = job[j].plan.via
                              /\ guest[job[j].row].cfg = job[j].seen.cfg
  /\ job[j].phase = "applied" => Achieved(j)

RowSound(r) ==
  /\ Exists(r) => Agree(guest[r])
  /\ snap[r] # None => Exists(r) /\ Agree(snap[r])

Truthful ==
  /\ \A j \in Jobs : Sound(j)
  /\ \A r \in Rows : RowSound(r)
  /\ \A q \in Requests : request[q].phase = "idle"

Good == Sane /\ Truthful

LEMMA AgreeKept ==
  ASSUME Remembers, NEW row, Agree(row)
  PROVE  \A k \in Keys : row.cfg[k] = row.config[k] \/ (row.config[k] = None /\ Parted(k)')
BY DEF Remembers, Agree

(* A row that a step leaves as it is stays sound.                          *)
LEMMA RowKept ==
  ASSUME Remembers, NEW r \in Rows, RowSound(r), guest'[r] = guest[r], snap'[r] = snap[r]
  PROVE  RowSound(r)'
<1>1. Exists(r)' => Agree(guest[r])'
  BY AgreeKept DEF RowSound, Exists, Agree
<1>2. (snap[r] # None)' => Exists(r)' /\ Agree(snap[r])'
  BY AgreeKept DEF RowSound, Exists, Agree
<1> QED
  BY <1>1, <1>2 DEF RowSound

(* A task whose target a step leaves as it is stays sound.                 *)
LEMMA TaskKept ==
  ASSUME Typed, Remembers, NEW i \in Jobs, Sound(i), job'[i] = job[i],
         \A s \in Rows : s = Target(i) /\ job[i].phase \in {"loaded", "half", "applied"} =>
           guest'[s] = guest[s] /\ snap'[s] = snap[s]
  PROVE  Sound(i)'
<1>1. CASE job[i].phase \notin {"loaded", "half", "applied"}
  BY <1>1 DEF Sound, At
<1>2. CASE job[i].phase \in {"loaded", "half", "applied"} /\ job[i].op \in {"create", "clone"}
  <2>1. guest'[i] = guest[i]
    BY <1>2 DEF Target, Rows
  <2>2. At(i, "loaded", {"clone"}) => Agree(job[i].seen)'
    BY AgreeKept DEF Sound, Agree
  <2>3. job[i].phase # "half" /\ job[i].op \notin Stepwise \cup Rereaders \cup {"snapshot-rollback"}
    BY <1>2 DEF Typed, Shaped, Rereaders, Stepwise, Power
  <2>4. (job[i].phase = "applied" => Achieved(i))'
    BY <1>2, <2>1 DEF Sound, Achieved, UpdateAchieved, Exists, Power
  <2> QED
    BY <2>2, <2>3, <2>4 DEF Sound, At
<1>3. CASE job[i].phase \in {"loaded", "half", "applied"} /\ job[i].op \notin {"create", "clone"}
  <2>1. PICK r \in Rows : r = job[i].row
    BY <1>3 DEF Typed, Shaped
  <2>2. guest'[r] = guest[r] /\ snap'[r] = snap[r]
    BY <1>3, <2>1 DEF Target
  <2>3. guest'[job'[i].row] = guest[job[i].row] /\ snap'[job'[i].row] = snap[job[i].row]
    BY <2>1, <2>2
  <2>4. (job[i].phase = "applied" => Achieved(i))'
    BY <1>3, <2>3 DEF Sound, Achieved, UpdateAchieved, Exists
  <2> QED
    BY <1>3, <2>3, <2>4 DEF Sound, At, Exists
<1> QED
  BY <1>1, <1>2, <1>3

-----------------------------------------------------------------------------
(* Each handler leaves its task and its target sound.                      *)
LeavesSound(j) == Sound(j)' /\ \A r \in Rows : r = Target(j) => RowSound(r)'

LEMMA HandlesRemembers ==
  ASSUME Good, NEW j \in Jobs, Handles(j)
  PROVE  Remembers
BY ProceedsRemembers DEF Handles, Good, Sane

LEMMA NothingWritten ==
  ASSUME Good, NEW j \in Jobs, Handles(j), UNCHANGED <<guest, snap>>
  PROVE  \A r \in Rows : RowSound(r)'
BY HandlesRemembers, RowKept DEF Good, Truthful

(* A handler that writes its target, and what must hold of what it writes. *)
LEMMA GuestWritten ==
  ASSUME Good, NEW j \in Jobs, Handles(j), NEW r \in Rows, r = Target(j),
         Exists(r) => snap'[r] = snap[r], ~Exists(r) => snap'[r] = None,
         Exists(r)', Agree(guest[r])'
  PROVE  RowSound(r)'
<1>1. Remembers
  BY HandlesRemembers
<1>2. RowSound(r)
  BY DEF Good, Truthful
<1>3. (snap[r] # None)' => Agree(snap[r])'
  BY <1>1, <1>2, AgreeKept DEF RowSound, Agree
<1> QED
  BY <1>3 DEF RowSound

LEMMA FailsSound ==
  ASSUME Good, NEW j \in Jobs, Fails(j), job[j].phase \in {"queued", "loaded"}
  PROVE  LeavesSound(j)
<1>1. Handles(j)
  BY FailsHandles DEF Good, Sane
<1>2. job'[j].phase = "failed"
  BY PhaseStep DEF Fails, Good, Sane, Phases, Active
<1>3. Sound(j)'
  BY <1>2 DEF Sound, At
<1> QED
  BY <1>1, <1>3, NothingWritten DEF Fails, LeavesSound

LEMMA PlanPowerSound ==
  ASSUME Good, NEW j \in Jobs, PlanPower(j)
  PROVE  LeavesSound(j)
<1>1. job[j].phase = "queued" /\ job[j].op \in Stepwise
  BY DEF PlanPower, At
<1>2. CASE Fails(j)
  BY <1>1, <1>2, FailsSound
<1>3. CASE \E x \in Plans(guest[job[j].row].status, job[j].op) :
             Exists(job[j].row) /\ Loads(j, guest[job[j].row], x)
  <2>1. PICK x \in Transitions : /\ x.from = guest[job[j].row].status /\ Exists(job[j].row)
                                 /\ Loads(j, guest[job[j].row], x)
    BY <1>3 DEF Plans
  <2>2. PICK r \in Rows : r = job[j].row
    BY <1>1 DEF Good, Sane, Typed, Shaped, Stepwise, Power
  <2>3. guest[r] \in Guest
    BY <2>1, <2>2, KeyType DEF Good, Sane
  <2>4. /\ job'[j].phase = "loaded" /\ job'[j].seen = guest[r] /\ job'[j].plan = x
        /\ job'[j].op = job[j].op /\ job'[j].row = r
    BY <2>1, <2>2, <2>3, LoadsStep DEF Good, Sane
  <2>5. UNCHANGED <<guest, snap>>
    BY <2>1 DEF Loads
  <2>6. Sound(j)'
    BY <1>1, <2>1, <2>2, <2>4, <2>5 DEF Sound, At, Stepwise, Power
  <2> QED
    BY <1>1, <2>5, <2>6, PlanPowerHandles, NothingWritten DEF LeavesSound, Good, Sane
<1> QED
  BY <1>2, <1>3 DEF PlanPower

LEMMA LoadSound ==
  ASSUME Good, NEW j \in Jobs, Load(j)
  PROVE  LeavesSound(j)
<1>1. /\ job[j].phase = "queued"
      /\ job[j].op \in GuestReaders \cup {"snapshot-rollback"}
  BY DEF Load, At, GuestReaders
<1>2. PICK r \in Rows : r = job[j].row
  BY <1>1 DEF Good, Sane, Typed, Shaped, GuestReaders
<1>3. CASE Fails(j)
  BY <1>1, <1>3, FailsSound
<1>4. CASE job[j].op \in GuestReaders /\ Exists(r) /\ Loads(j, guest[r], None)
  <2>1. guest[r] \in Guest /\ UNCHANGED <<guest, snap>> /\ Remembers
    BY <1>4, KeyType, LoadHandles, HandlesRemembers DEF Good, Sane, Loads
  <2>2. /\ job'[j].phase = "loaded" /\ job'[j].seen = guest[r]
        /\ job'[j].op = job[j].op /\ job'[j].row = job[j].row
    BY <1>4, <2>1, LoadsStep DEF Good, Sane
  <2>3. Agree(job[j].seen)'
    <3>1. Agree(guest[r])
      BY <1>4 DEF Good, Truthful, RowSound
    <3> QED
      BY <2>1, <2>2, <3>1, AgreeKept DEF Agree
  <2>4. Sound(j)'
    BY <1>2, <1>4, <2>1, <2>2, <2>3 DEF Sound, At, Stepwise, Power, GuestReaders
  <2> QED
    BY <1>1, <2>1, <2>4, LoadHandles, NothingWritten DEF LeavesSound, Good, Sane
<1>5. CASE job[j].op = "snapshot-rollback" /\ snap[r] # None /\ Loads(j, snap[r], None)
  <2>1. snap[r] \in Snapshot /\ UNCHANGED <<guest, snap>>
    BY <1>5 DEF Good, Sane, Typed, Tables, Loads
  <2>2. /\ job'[j].phase = "loaded" /\ job'[j].seen = snap[r]
        /\ job'[j].op = job[j].op /\ job'[j].row = job[j].row
    BY <1>5, <2>1, LoadsStep DEF Good, Sane
  <2>3. Sound(j)'
    BY <1>2, <1>5, <2>1, <2>2 DEF Sound, At, Stepwise, Power, Rereaders
  <2> QED
    BY <1>1, <2>1, <2>3, LoadHandles, NothingWritten DEF LeavesSound, Good, Sane
<1> QED
  BY <1>1, <1>2, <1>3, <1>4, <1>5 DEF Load, Exists

LEMMA StoredFields ==
  ASSUME Typed, NEW r \in Rows, Exists(r), NEW status \in Statuses, NEW cfg \in Configs,
         NEW config \in Configs, NEW bump \in {0, 1}, Store(r, Row(r, status, cfg, config, bump))
  PROVE  /\ Exists(r)' /\ guest'[r].status = status
         /\ guest'[r].cfg = cfg /\ guest'[r].config = config
<1>1. guest[r] \in Guest
  BY KeyType
<1>2. /\ Row(r, status, cfg, config, bump) \in Guest
      /\ Row(r, status, cfg, config, bump).status = status
      /\ Row(r, status, cfg, config, bump).cfg = cfg
      /\ Row(r, status, cfg, config, bump).config = config
  BY <1>1, RowFields
<1>3. guest'[r] = Row(r, status, cfg, config, bump) /\ guest'[r] # None
  BY <1>2, StoreStep
<1> QED
  BY <1>2, <1>3 DEF Exists

LEMMA BeginPowerSound ==
  ASSUME Good, NEW j \in Jobs, BeginPower(j)
  PROVE  LeavesSound(j)
<1>1. /\ job[j].phase = "loaded" /\ job[j].op \in Stepwise /\ Phase(j, "half")
      /\ UNCHANGED snap
  BY DEF BeginPower, At
<1>2. /\ Target(j) = job[j].row /\ job[j].row \in Rows
      /\ job[j].seen \in Guest /\ job[j].plan \in Transitions
  BY <1>1 DEF Good, Sane, Typed, Shaped, Target, Stepwise, Power
<1>3. PICK r \in Rows : r = job[j].row
  BY <1>2
<1>4. guest[r] = job[j].seen /\ Exists(r)
  <2>1. Sound(j)
    BY DEF Good, Truthful
  <2> QED
    BY <1>1, <1>2, <1>3, <2>1, NamesAssumption DEF Sound, At, Exists, Rereaders
<1>5. /\ job[j].plan.via \in Statuses
      /\ job[j].seen.cfg \in Configs /\ guest[r].config \in Configs
  BY <1>2, <1>4, Transition DEF Statuses, Guest
<1>6. Store(r, Row(r, job[j].plan.via, job[j].seen.cfg, guest[r].config, 0))
  BY <1>3 DEF BeginPower
<1>7. /\ Exists(r)' /\ guest'[r].status = job[j].plan.via
      /\ guest'[r].cfg = guest[r].cfg /\ guest'[r].config = guest[r].config
  BY <1>4, <1>5, <1>6, StoredFields DEF Good, Sane
<1>8. /\ job'[j].phase = "half" /\ job'[j].op = job[j].op /\ job'[j].row = r
      /\ job'[j].seen = job[j].seen /\ job'[j].plan = job[j].plan
  BY <1>1, <1>3, PhaseStep DEF Good, Sane, Phases, Active
<1>9. Handles(j) /\ Remembers
  BY BeginPowerHandles, HandlesRemembers DEF Good, Sane
<1>10. Sound(j)'
  BY <1>1, <1>3, <1>4, <1>7, <1>8 DEF Sound, At, Exists
<1>11. Agree(guest[r])'
  BY <1>4, <1>7, <1>9, AgreeKept DEF Agree, Good, Truthful, RowSound
<1>12. RowSound(r)'
  BY <1>1, <1>2, <1>3, <1>4, <1>7, <1>8, <1>9, <1>11, GuestWritten DEF At
<1> QED
  BY <1>2, <1>3, <1>10, <1>12 DEF LeavesSound

LEMMA EndPowerSound ==
  ASSUME Good, NEW j \in Jobs, EndPower(j)
  PROVE  LeavesSound(j)
<1>1. /\ job[j].phase = "half" /\ job[j].op \in Power /\ Phase(j, "applied")
      /\ UNCHANGED snap
  BY DEF EndPower, At
<1>2. /\ Target(j) = job[j].row /\ job[j].row \in Rows
      /\ job[j].seen \in Guest /\ job[j].plan \in Transitions
  BY <1>1 DEF Good, Sane, Typed, Shaped, Target, Stepwise, Power
<1>3. PICK r \in Rows : r = job[j].row
  BY <1>2
<1>4. Exists(r) /\ guest[r].cfg = job[j].seen.cfg /\ guest[r] \in Guest
  BY <1>1, <1>3, KeyType DEF Good, Sane, Truthful, Sound
<1>5. /\ job[j].plan.to \in Statuses /\ job[j].plan.to \notin Transient
      /\ job[j].seen.cfg \in Configs /\ guest[r].config \in Configs
  BY <1>2, <1>4, Transition, SettledNotTransient DEF Statuses, Guest
<1>6. Store(r, Row(r, job[j].plan.to, job[j].seen.cfg, guest[r].config, 0))
  BY <1>3 DEF EndPower
<1>7. /\ Exists(r)' /\ guest'[r].status = job[j].plan.to
      /\ guest'[r].cfg = guest[r].cfg /\ guest'[r].config = guest[r].config
  BY <1>4, <1>5, <1>6, StoredFields DEF Good, Sane
<1>8. /\ job'[j].phase = "applied" /\ job'[j].op = job[j].op /\ job'[j].row = r
      /\ job'[j].plan = job[j].plan
  BY <1>1, <1>3, PhaseStep DEF Good, Sane, Phases, Active
<1>9. Handles(j) /\ Remembers
  BY EndPowerHandles, HandlesRemembers DEF Good, Sane
<1>10. Sound(j)'
  <2>1. Achieved(j)'
    BY <1>1, <1>7, <1>8 DEF Achieved, Exists, Power
  <2> QED
    BY <1>8, <2>1 DEF Sound, At
<1>11. Agree(guest[r])'
  BY <1>4, <1>7, <1>9, AgreeKept DEF Agree, Good, Truthful, RowSound
<1>12. RowSound(r)'
  BY <1>1, <1>2, <1>3, <1>4, <1>5, <1>7, <1>9, <1>11, GuestWritten
<1> QED
  BY <1>2, <1>3, <1>10, <1>12 DEF LeavesSound

LEMMA EndMigrateSound ==
  ASSUME Good, NEW j \in Jobs, EndMigrate(j)
  PROVE  LeavesSound(j)
<1>1. /\ job[j].phase = "half" /\ job[j].op = "migrate" /\ Phase(j, "applied")
      /\ UNCHANGED snap
  BY DEF EndMigrate, At
<1>2. /\ Target(j) = job[j].row /\ job[j].row \in Rows
      /\ job[j].seen \in Guest /\ job[j].plan \in Transitions /\ job[j].args \in NodeArgs
  BY <1>1 DEF Good, Sane, Typed, Shaped, Target, Stepwise, Power
<1>3. PICK r \in Rows : r = job[j].row
  BY <1>2
<1>4. Exists(r) /\ guest[r].cfg = job[j].seen.cfg /\ guest[r] \in Guest
  BY <1>1, <1>3, KeyType DEF Good, Sane, Truthful, Sound
<1>5. /\ job[j].plan.to \in Statuses /\ job[j].plan.to \notin Transient
      /\ job[j].seen.cfg \in Configs /\ guest[r].config \in Configs
  BY <1>2, <1>4, Transition, SettledNotTransient DEF Statuses, Guest
<1> DEFINE row == Row(r, job[j].plan.to, job[j].seen.cfg, guest[r].config, 1)
           moved == [row EXCEPT !.node = job[j].args.node]
<1>6. Store(r, moved)
  BY <1>3 DEF EndMigrate
<1>7. /\ row \in Guest /\ row.status = job[j].plan.to
      /\ row.cfg = job[j].seen.cfg /\ row.config = guest[r].config
  BY <1>4, <1>5, RowFields
<1> HIDE DEF row
<1>8. /\ moved \in Guest /\ moved.status = row.status /\ moved.node = job[j].args.node
      /\ moved.cfg = row.cfg /\ moved.config = row.config
  BY <1>2, <1>7 DEF Guest, NodeArgs
<1> HIDE DEF moved
<1>9. /\ Exists(r)' /\ guest'[r].status = job[j].plan.to /\ guest'[r].node = job[j].args.node
      /\ guest'[r].cfg = guest[r].cfg /\ guest'[r].config = guest[r].config
  BY <1>4, <1>6, <1>7, <1>8, StoreStep DEF Good, Sane, Exists
<1>10. /\ job'[j].phase = "applied" /\ job'[j].op = job[j].op /\ job'[j].row = r
       /\ job'[j].plan = job[j].plan /\ job'[j].args = job[j].args
  BY <1>1, <1>3, PhaseStep DEF Good, Sane, Phases, Active
<1>11. Handles(j) /\ Remembers
  BY EndMigrateHandles, HandlesRemembers DEF Good, Sane
<1>12. Sound(j)'
  <2>1. Achieved(j)'
    BY <1>1, <1>9, <1>10 DEF Achieved, Exists, Power
  <2> QED
    BY <1>10, <2>1 DEF Sound, At
<1>13. Agree(guest[r])'
  BY <1>4, <1>9, <1>11, AgreeKept DEF Agree, Good, Truthful, RowSound
<1>14. RowSound(r)'
  BY <1>1, <1>2, <1>3, <1>4, <1>5, <1>9, <1>11, <1>13, GuestWritten
<1> QED
  BY <1>2, <1>3, <1>12, <1>14 DEF LeavesSound

LEMMA InsertSound ==
  ASSUME Good, NEW j \in Jobs, job[j].op \in {"create", "clone"},
         job[j].phase \in {"queued", "loaded"}, NEW status \in {"running", "stopped"},
         NEW cfg \in Configs, NEW config \in Configs, Insert(j, status, cfg, config),
         \A k \in Keys : cfg[k] = config[k] \/ (config[k] = None /\ Parted(k))
  PROVE  LeavesSound(j)
<1> DEFINE new == [kind |-> job[j].key[1], vmid |-> job[j].key[2], node |-> job[j].args.node,
                   version |-> 1, status |-> status, cfg |-> cfg, config |-> config]
<1>1. CASE Fails(j)
  BY <1>1, FailsSound
<1>2. CASE /\ guest' = [guest EXCEPT ![j] = new] /\ Phase(j, "applied") /\ UNCHANGED snap
           /\ ~VmidTaken(job[j].key[2])
  <2>1. status \in Statuses /\ status \notin Transient
    BY SettledNotTransient DEF Statuses, Settled
  <2>2. Handles(j) /\ Remembers
    BY <2>1, InsertHandles, HandlesRemembers DEF Good, Sane
  <2>3. j \in Rows /\ Target(j) = j
    BY DEF Rows, Target
  <2>4. guest'[j] = new
    BY <1>2, <2>3 DEF Good, Sane, Typed, Tables
  <2>5. ~Exists(j)
    <3>1. Exists(j) => Key(j) = job[j].key
      BY <2>3, NamesAssumption DEF Placed, Home, Good, Sane
    <3>2. Exists(j) => guest[j].vmid = job[j].key[2]
      BY <3>1 DEF Key
    <3> QED
      BY <1>2, <2>3, <3>2 DEF VmidTaken
  <2>6. snap'[j] = None
    BY <1>2, <2>3, <2>5 DEF Good, Truthful, RowSound
  <2>7. Exists(j)'
    <3>1. guest'[j] \in Guest \cup {None} /\ guest'[j].cfg = cfg
      BY <2>2, <2>3, <2>4 DEF Handles, Tables
    <3>2. ~Exists(j) /\ guest'[j] # guest[j]
      <4>1. job[j].key \in ResourceKeys /\ (job[j].args \in CreateArgs \/ job[j].args \in NodeArgs)
        BY DEF Good, Sane, Typed, Shaped
      <4>2. new \in Guest
        BY <2>1, <4>1 DEF Guest, Statuses, ResourceKeys, CreateArgs, NodeArgs
      <4> QED
        BY <2>4, <2>5, <4>2, NamesAssumption DEF Exists
    <3> QED
      BY <3>2 DEF Exists
  <2>8. /\ job'[j].phase = "applied" /\ job'[j].op = job[j].op
    BY <1>2, PhaseStep DEF Good, Sane, Phases, Active
  <2>9. Sound(j)'
    <3>1. Achieved(j)'
      BY <2>7, <2>8 DEF Achieved, Power
    <3> QED
      BY <2>8, <3>1 DEF Sound, At
  <2>10. Agree(guest[j])'
    BY <2>2, <2>4 DEF Agree, Remembers
  <2>11. RowSound(j)'
    BY <2>1, <2>2, <2>3, <2>4, <2>5, <2>6, <2>7, <2>10, GuestWritten
  <2> QED
    BY <2>3, <2>9, <2>11 DEF LeavesSound
<1> QED
  BY <1>1, <1>2 DEF Insert

LEMMA CreateSound ==
  ASSUME Good, NEW j \in Jobs, Create(j)
  PROVE  LeavesSound(j)
<1>1. job[j].phase = "queued" /\ job[j].op = "create"
  BY DEF Create, At
<1>2. job[j].args.config \in Configs
  BY <1>1 DEF Good, Sane, Typed, Shaped, CreateArgs
<1>3. PICK status \in {"running", "stopped"} :
        Insert(j, status, job[j].args.config, job[j].args.config)
  BY DEF Create
<1> QED
  BY <1>1, <1>2, <1>3, InsertSound

LEMMA CloneSound ==
  ASSUME Good, NEW j \in Jobs, Clone(j)
  PROVE  LeavesSound(j)
<1> DEFINE s == job[j].seen
           over == Overlay(s.cfg, s.config)
<1>1. job[j].phase = "loaded" /\ job[j].op = "clone" /\ Insert(j, "stopped", over, s.config)
  BY DEF Clone, At
<1>2. s \in Guest /\ Agree(s)
  BY <1>1 DEF Good, Sane, Typed, Shaped, GuestReaders, Truthful, Sound, At
<1>3. s.cfg \in Configs /\ s.config \in Configs
  BY <1>2 DEF Guest
<1>4. over \in Configs
  BY <1>3, OverlayType
<1>5. \A k \in Keys : over[k] = s.config[k] \/ (s.config[k] = None /\ Parted(k))
  BY <1>2 DEF Agree, Overlay
<1> HIDE DEF over
<1> QED
  BY <1>1, <1>3, <1>4, <1>5, InsertSound

LEMMA DeleteSound ==
  ASSUME Good, NEW j \in Jobs, Delete(j)
  PROVE  LeavesSound(j)
<1>1. job[j].phase = "queued" /\ job[j].op = "delete"
  BY DEF Delete, At
<1>2. PICK r \in Rows : r = job[j].row
  BY <1>1 DEF Good, Sane, Typed, Shaped
<1>3. CASE Fails(j)
  BY <1>1, <1>3, FailsSound
<1>4. CASE /\ guest' = [guest EXCEPT ![r] = None] /\ snap' = [snap EXCEPT ![r] = None]
           /\ Phase(j, "applied")
  <2>1. guest'[r] = None /\ snap'[r] = None /\ Target(j) = r
    BY <1>1, <1>2, <1>4 DEF Good, Sane, Typed, Tables, Target
  <2>2. job'[j].phase = "applied" /\ job'[j].op = job[j].op /\ job'[j].row = r
    BY <1>2, <1>4, PhaseStep DEF Good, Sane, Phases, Active
  <2>3. Sound(j)'
    <3>1. Achieved(j)'
      BY <1>1, <2>1, <2>2 DEF Achieved, Power, Exists
    <3> QED
      BY <2>2, <3>1 DEF Sound, At
  <2>4. RowSound(r)'
    BY <2>1 DEF RowSound, Exists
  <2> QED
    BY <2>1, <2>3, <2>4 DEF LeavesSound
<1> QED
  BY <1>2, <1>3, <1>4 DEF Delete

(* The tasks that read the guest and then write it.                        *)
LEMMA RereaderSees ==
  ASSUME Good, NEW j \in Jobs, At(j, "loaded", {"update", "move-disk", "snapshot-create"})
  PROVE  /\ job[j].row \in Rows /\ Target(j) = job[j].row
         /\ job[j].seen = guest[job[j].row] /\ job[j].seen \in Guest
<1>1. job[j].row \in Rows /\ Target(j) = job[j].row /\ job[j].seen \in Guest
  BY DEF At, Good, Sane, Typed, Shaped, Target, GuestReaders
<1>2. Sound(j)
  BY DEF Good, Truthful
<1> QED
  BY <1>1, <1>2 DEF Sound, At, Rereaders

LEMMA UpdateSound ==
  ASSUME Good, NEW j \in Jobs, Update(j)
  PROVE  LeavesSound(j)
<1>1. /\ At(j, "loaded", {"update", "move-disk", "snapshot-create"})
      /\ job[j].phase = "loaded" /\ job[j].op = "update" /\ Phase(j, "applied") /\ UNCHANGED snap
  BY DEF Update, Applies, At
<1>2. PICK r \in Rows : r = job[j].row
  BY <1>1, RereaderSees
<1>3. Target(j) = r /\ job[j].seen = guest[r] /\ guest[r] \in Guest /\ Exists(r)
  BY <1>1, <1>2, RereaderSees, NamesAssumption DEF Exists
<1>4. job[j].args \in OptionArgs
  BY <1>1 DEF Good, Sane, Typed, Shaped
<1>5. PICK args \in OptionArgs : args = job[j].args
  BY <1>4
<1> DEFINE cfg == Changed(Deleted(guest[r].cfg, args), args)
           config == Deleted(Changed(guest[r].config, args), args)
<1>6. Store(r, Row(r, guest[r].status, cfg, config, 1))
  BY <1>2, <1>3, <1>5 DEF Update, Applies
<1>7. /\ guest[r].status \in Statuses /\ guest[r].cfg \in Configs /\ guest[r].config \in Configs
  BY <1>3 DEF Guest, Statuses
<1>8. /\ cfg \in Configs /\ config \in Configs
      /\ \A l \in Keys \ {args.key} : cfg[l] = guest[r].cfg[l] /\ config[l] = guest[r].config[l]
      /\ args.value # None => cfg[args.key] = args.value
      /\ args.drop => config[args.key] = None
  BY <1>7, UpdateCopies
<1>8a. /\ ~args.drop /\ args.value # None => config[args.key] = args.value
       /\ args.drop /\ args.value = None => cfg[args.key] = None
       /\ ~args.drop /\ args.value = None => cfg = guest[r].cfg /\ config = guest[r].config
  BY <1>5, <1>7 DEF Changed, Deleted, OptionArgs, Configs
<1> HIDE DEF cfg, config
<1>9. /\ Exists(r)' /\ guest'[r].status = guest[r].status
      /\ guest'[r].cfg = cfg /\ guest'[r].config = config
  BY <1>3, <1>6, <1>7, <1>8, StoredFields DEF Good, Sane
<1>10. /\ job'[j].phase = "applied" /\ job'[j].op = "update" /\ job'[j].row = r
       /\ job'[j].args = job[j].args
  BY <1>1, <1>2, PhaseStep DEF Good, Sane, Phases, Active
<1>11. Handles(j) /\ Remembers
  BY UpdateHandles, HandlesRemembers DEF Good, Sane
<1>12. Sound(j)'
  <2>1. Achieved(j)'
    BY <1>5, <1>8, <1>8a, <1>9, <1>10 DEF Achieved, UpdateAchieved, Exists, Power
  <2> QED
    BY <1>10, <2>1 DEF Sound, At
<1>13. Agree(guest[r])'
  <2>1. Agree(guest[r])
    BY <1>3 DEF Good, Truthful, RowSound
  <2>2. args.drop /\ args.value # None => Parted(args.key)'
    BY <1>5, <1>10 DEF Parted, Parts
  <2>3. ASSUME NEW l \in Keys PROVE cfg[l] = config[l] \/ (config[l] = None /\ Parted(l)')
    <3>1. CASE l # args.key \/ (~args.drop /\ args.value = None)
      BY <1>8, <1>8a, <1>11, <2>1, <3>1 DEF Agree, Remembers
    <3>2. CASE l = args.key /\ (args.drop \/ args.value # None)
      BY <1>8, <1>8a, <2>2, <3>2 DEF OptionArgs
    <3> QED
      BY <3>1, <3>2
  <2> QED
    BY <1>9, <2>3 DEF Agree
<1>14. RowSound(r)'
  BY <1>1, <1>3, <1>9, <1>11, <1>13, GuestWritten
<1> QED
  BY <1>3, <1>12, <1>14 DEF LeavesSound

LEMMA MoveDiskSound ==
  ASSUME Good, NEW j \in Jobs, MoveDisk(j)
  PROVE  LeavesSound(j)
<1>1. /\ At(j, "loaded", {"update", "move-disk", "snapshot-create"})
      /\ job[j].phase = "loaded" /\ job[j].op = "move-disk"
  BY DEF MoveDisk, At
<1>2. PICK r \in Rows : r = job[j].row
  BY <1>1, RereaderSees
<1>3. Target(j) = r /\ job[j].seen = guest[r] /\ guest[r] \in Guest /\ Exists(r)
  BY <1>1, <1>2, RereaderSees, NamesAssumption DEF Exists
<1>4. job[j].args \in MoveArgs
  BY <1>1 DEF Good, Sane, Typed, Shaped
<1>5. PICK from \in Keys, to \in Keys, drop \in BOOLEAN :
        from = job[j].args.from /\ to = job[j].args.to /\ drop = job[j].args.drop
  BY <1>4 DEF MoveArgs
<1>6. /\ guest[r].status \in Statuses /\ guest[r].cfg \in Configs /\ guest[r].config \in Configs
  BY <1>3 DEF Guest, Statuses
<1> DEFINE volume == guest[r].config[from]
           copied == [guest[r].config EXCEPT ![to] = volume]
           moved  == IF drop /\ to # from THEN [copied EXCEPT ![from] = None] ELSE copied
           cfg    == [guest[r].cfg EXCEPT ![to] = volume]
<1>7. CASE Fails(j)
  BY <1>1, <1>7, FailsSound
<1>8. CASE Applies(j, Row(r, guest[r].status, cfg, moved, 1))
  <2>1. /\ copied \in Configs /\ cfg \in Configs /\ cfg[to] = volume /\ copied[to] = volume
        /\ \A l \in Keys \ {to} : cfg[l] = guest[r].cfg[l] /\ copied[l] = guest[r].config[l]
    BY <1>6 DEF Configs
  <2> HIDE DEF copied, cfg, volume
  <2>2. /\ moved \in Configs
        /\ \A l \in Keys : moved[l] = copied[l] \/ (l = from /\ drop /\ to # from /\ moved[l] = None)
    BY <2>1 DEF Configs
  <2> HIDE DEF moved
  <2>3. /\ Store(r, Row(r, guest[r].status, cfg, moved, 1))
        /\ Phase(j, "applied") /\ UNCHANGED snap
    BY <1>2, <1>8 DEF Applies
  <2>4. /\ Exists(r)' /\ guest'[r].status = guest[r].status
        /\ guest'[r].cfg = cfg /\ guest'[r].config = moved
    BY <1>3, <1>6, <2>1, <2>2, <2>3, StoredFields DEF Good, Sane
  <2>5. /\ job'[j].phase = "applied" /\ job'[j].op = "move-disk" /\ job'[j].row = r
        /\ job'[j].args = job[j].args
    BY <1>1, <1>2, <2>3, PhaseStep DEF Good, Sane, Phases, Active
  <2>6. Handles(j) /\ Remembers
    BY MoveDiskHandles, HandlesRemembers DEF Good, Sane
  <2>7. Sound(j)'
    <3>1. Achieved(j)'
      BY <2>5 DEF Achieved, Power
    <3> QED
      BY <2>5, <3>1 DEF Sound, At
  <2>8. drop /\ to # from => Parted(from)'
    BY <1>5, <2>5 DEF Parted, Parts
  <2>9. Agree(guest[r])'
    <3>1. Agree(guest[r])
      BY <1>3 DEF Good, Truthful, RowSound
    <3>2. ASSUME NEW l \in Keys PROVE cfg[l] = moved[l] \/ (moved[l] = None /\ Parted(l)')
      <4>1. CASE l = from /\ drop /\ to # from /\ moved[l] = None
        BY <2>8, <4>1
      <4>2. CASE moved[l] = copied[l] /\ l = to
        BY <2>1, <4>2
      <4>3. CASE moved[l] = copied[l] /\ l # to
        BY <2>1, <2>6, <3>1, <4>3 DEF Agree, Remembers
      <4> QED
        BY <2>2, <4>1, <4>2, <4>3
    <3> QED
      BY <2>4, <3>2 DEF Agree
  <2>10. RowSound(r)'
    BY <1>1, <1>3, <2>3, <2>4, <2>6, <2>9, GuestWritten
  <2> QED
    BY <1>3, <2>7, <2>10 DEF LeavesSound
<1>9. Fails(j) \/ Applies(j, Row(r, guest[r].status, cfg, moved, 1))
  BY <1>2, <1>3, <1>5 DEF MoveDisk
<1> QED
  BY <1>7, <1>8, <1>9

LEMMA SnapshotCreateSound ==
  ASSUME Good, NEW j \in Jobs, SnapshotCreate(j)
  PROVE  LeavesSound(j)
<1>1. /\ At(j, "loaded", {"update", "move-disk", "snapshot-create"})
      /\ job[j].phase = "loaded" /\ job[j].op = "snapshot-create"
  BY DEF SnapshotCreate, At
<1>2. PICK r \in Rows : r = job[j].row
  BY <1>1, RereaderSees
<1>3. Target(j) = r /\ job[j].seen = guest[r] /\ guest[r] \in Guest /\ Exists(r)
  BY <1>1, <1>2, RereaderSees, NamesAssumption DEF Exists
<1> DEFINE new == [status |-> guest[r].status, cfg |-> guest[r].cfg, config |-> guest[r].config]
<1>4. CASE Fails(j)
  BY <1>1, <1>4, FailsSound
<1>5. CASE /\ snap' = [snap EXCEPT ![r] = new] /\ Phase(j, "applied") /\ UNCHANGED guest
  <2>1. new \in Snapshot /\ new # None
    <3>1. new \in Snapshot
      BY <1>3 DEF Guest, Snapshot
    <3> QED
      BY <3>1, NamesAssumption
  <2>2. /\ new.status = guest[r].status /\ new.cfg = guest[r].cfg /\ new.config = guest[r].config
    OBVIOUS
  <2> HIDE DEF new
  <2>3. snap'[r] = new
    BY <1>5 DEF Good, Sane, Typed, Tables
  <2>4. /\ job'[j].phase = "applied" /\ job'[j].op = "snapshot-create" /\ job'[j].row = r
    BY <1>1, <1>2, <1>5, PhaseStep DEF Good, Sane, Phases, Active
  <2>5. Handles(j) /\ Remembers
    BY SnapshotCreateHandles, HandlesRemembers DEF Good, Sane
  <2>6. Sound(j)'
    <3>1. Achieved(j)'
      BY <2>1, <2>3, <2>4 DEF Achieved, Power
    <3> QED
      BY <2>4, <3>1 DEF Sound, At
  <2>7. Agree(guest[r])' /\ Agree(snap[r])'
    <3>1. Agree(guest[r])
      BY <1>3 DEF Good, Truthful, RowSound
    <3> QED
      BY <1>5, <2>2, <2>3, <2>5, <3>1 DEF Agree, Remembers
  <2>8. RowSound(r)'
    BY <1>3, <1>5, <2>7 DEF RowSound, Exists
  <2> QED
    BY <1>3, <2>6, <2>8 DEF LeavesSound
<1> QED
  BY <1>2, <1>3, <1>4, <1>5 DEF SnapshotCreate

LEMMA SnapshotDeleteSound ==
  ASSUME Good, NEW j \in Jobs, SnapshotDelete(j)
  PROVE  LeavesSound(j)
<1>1. job[j].phase = "queued" /\ job[j].op = "snapshot-delete"
  BY DEF SnapshotDelete, At
<1>2. PICK r \in Rows : r = job[j].row
  BY <1>1 DEF Good, Sane, Typed, Shaped
<1>3. Target(j) = r
  BY <1>1, <1>2 DEF Target
<1>4. CASE Fails(j)
  BY <1>1, <1>4, FailsSound
<1>5. CASE snap' = [snap EXCEPT ![r] = None] /\ Phase(j, "applied") /\ UNCHANGED guest
  <2>1. snap'[r] = None
    BY <1>5 DEF Good, Sane, Typed, Tables
  <2>2. /\ job'[j].phase = "applied" /\ job'[j].op = "snapshot-delete" /\ job'[j].row = r
    BY <1>1, <1>2, <1>5, PhaseStep DEF Good, Sane, Phases, Active
  <2>3. Handles(j) /\ Remembers
    BY SnapshotDeleteHandles, HandlesRemembers DEF Good, Sane
  <2>4. Sound(j)'
    <3>1. Achieved(j)'
      BY <2>1, <2>2 DEF Achieved, Power
    <3> QED
      BY <2>2, <3>1 DEF Sound, At
  <2>5. RowSound(r)
    BY DEF Good, Truthful
  <2>6. Exists(r)' => Agree(guest[r])'
    BY <1>5, <2>3, <2>5, AgreeKept DEF RowSound, Exists, Agree
  <2>7. RowSound(r)'
    BY <2>1, <2>6 DEF RowSound
  <2> QED
    BY <1>3, <2>4, <2>7 DEF LeavesSound
<1> QED
  BY <1>2, <1>4, <1>5 DEF SnapshotDelete

LEMMA SnapshotRollbackSound ==
  ASSUME Good, NEW j \in Jobs, SnapshotRollback(j)
  PROVE  LeavesSound(j)
<1> DEFINE s == job[j].seen
           status == IF job[j].args.start THEN "running" ELSE s.status
<1>1. /\ job[j].phase = "loaded" /\ job[j].op = "snapshot-rollback"
      /\ Phase(j, "applied") /\ UNCHANGED snap
  BY DEF SnapshotRollback, Applies, At
<1>2. PICK r \in Rows : r = job[j].row
  BY <1>1 DEF Good, Sane, Typed, Shaped
<1>3. Target(j) = r /\ s \in Snapshot /\ snap[r] = s
  <2>1. Sound(j)
    BY DEF Good, Truthful
  <2> QED
    BY <1>1, <1>2, <2>1 DEF Target, Good, Sane, Typed, Shaped, Sound, At
<1>4. RowSound(r)
  BY DEF Good, Truthful
<1>5. Exists(r) /\ Agree(s)
  BY <1>3, <1>4, NamesAssumption DEF RowSound
<1>6. Store(r, Row(r, status, s.cfg, s.config, 1))
  BY <1>2 DEF SnapshotRollback, Applies
<1>7. status \in Statuses /\ s.cfg \in Configs /\ s.config \in Configs
  BY <1>3 DEF Snapshot, Statuses, Settled
<1> HIDE DEF status
<1>8. /\ Exists(r)' /\ guest'[r].status = status
      /\ guest'[r].cfg = s.cfg /\ guest'[r].config = s.config
  BY <1>5, <1>6, <1>7, StoredFields DEF Good, Sane
<1>9. /\ job'[j].phase = "applied" /\ job'[j].op = "snapshot-rollback" /\ job'[j].row = r
       /\ job'[j].seen = s
  BY <1>1, <1>2, PhaseStep DEF Good, Sane, Phases, Active
<1>10. Handles(j) /\ Remembers
  BY SnapshotRollbackHandles, HandlesRemembers DEF Good, Sane
<1>11. Sound(j)'
  <2>1. Achieved(j)'
    BY <1>8, <1>9 DEF Achieved, Exists, Power
  <2> QED
    BY <1>9, <2>1 DEF Sound, At
<1>12. Agree(guest[r])'
  BY <1>5, <1>8, <1>10 DEF Agree, Remembers
<1>13. RowSound(r)'
  BY <1>1, <1>3, <1>5, <1>8, <1>10, <1>12, GuestWritten
<1> QED
  BY <1>3, <1>11, <1>13 DEF LeavesSound

LEMMA HandleSound ==
  ASSUME Good, NEW j \in Jobs, Handle(j)
  PROVE  LeavesSound(j)
BY PlanPowerSound, BeginPowerSound, EndPowerSound, EndMigrateSound, LoadSound,
   CreateSound, CloneSound, DeleteSound, UpdateSound, MoveDiskSound,
   SnapshotCreateSound, SnapshotDeleteSound, SnapshotRollbackSound DEF Handle

-----------------------------------------------------------------------------
(* Every step leaves every task and every row sound.                       *)
LEMMA HandleGood ==
  ASSUME Good, NEW j \in Jobs, Handle(j)
  PROVE  Good'
<1>1. Handles(j)
  BY HandleHandles DEF Good, Sane
<1>2. Sane' /\ Remembers /\ LeavesSound(j)
  BY <1>1, HandlesSane, HandlesRemembers, HandleSound DEF Good
<1>3. ASSUME NEW i \in Jobs PROVE Sound(i)'
  <2>1. CASE i = j
    BY <1>2, <2>1 DEF LeavesSound
  <2>2. CASE i # j
    <3>1. job'[i] = job[i] /\ Sound(i)
      BY <1>1, <2>2 DEF Handles, Proceeds, Good, Truthful
    <3>2. ASSUME NEW s \in Rows, s = Target(i), job[i].phase \in {"loaded", "half", "applied"}
          PROVE  guest'[s] = guest[s] /\ snap'[s] = snap[s]
      <4>1. s # Target(j)
        BY <1>1, <2>2, <3>2, TargetsDiffer DEF Good, Active, Handles
      <4> QED
        BY <1>1, <4>1 DEF Handles, WritesTarget
    <3> QED
      BY <1>2, <3>1, <3>2, TaskKept DEF Good, Sane
  <2> QED
    BY <2>1, <2>2
<1>4. ASSUME NEW r \in Rows PROVE RowSound(r)'
  <2>1. CASE r = Target(j)
    BY <1>2, <2>1 DEF LeavesSound
  <2>2. CASE r # Target(j)
    <3>1. guest'[r] = guest[r] /\ snap'[r] = snap[r]
      BY <1>1, <2>2 DEF Handles, WritesTarget
    <3> QED
      BY <1>2, <3>1, RowKept DEF Good, Truthful
  <2> QED
    BY <2>1, <2>2
<1>5. \A q \in Requests : request'[q].phase = "idle"
  BY <1>1 DEF Handles, Good, Truthful
<1> QED
  BY <1>2, <1>3, <1>4, <1>5 DEF Good, Truthful

(* The steps that change only one task's phase.                            *)
LEMMA PhaseGood ==
  ASSUME Good, Sane', Remembers, NEW j \in Jobs, UNCHANGED <<guest, snap, request>>,
         \A i \in Jobs : i # j => job'[i] = job[i],
         job'[j].phase \notin {"loaded", "half", "applied"}
  PROVE  Good'
<1>1. ASSUME NEW i \in Jobs PROVE Sound(i)'
  <2>1. CASE i = j
    BY <2>1 DEF Sound, At
  <2>2. CASE i # j
    BY <2>2, TaskKept DEF Good, Truthful, Sane
  <2> QED
    BY <2>1, <2>2
<1>2. ASSUME NEW r \in Rows PROVE RowSound(r)'
  BY RowKept DEF Good, Truthful
<1> QED
  BY <1>1, <1>2 DEF Good, Truthful

LEMMA SubmitGood ==
  ASSUME Good, NEW j \in Jobs, Submit(j)
  PROVE  Good'
<1>1. job[j].phase = "checked" /\ UNCHANGED <<guest, snap, request>>
  BY DEF Submit
<1>2. PICK phase \in {"queued", "refused"} : Phase(j, phase)
  BY DEF Submit
<1>3. /\ job'[j].phase = phase /\ job'[j].hurt = job[j].hurt
      /\ job'[j].op = job[j].op /\ job'[j].row = job[j].row /\ job'[j].key = job[j].key
      /\ job'[j].args = job[j].args
      /\ \A i \in Jobs : i # j => job'[i] = job[i]
  BY <1>2, PhaseStep DEF Good, Sane, Phases, Active
<1>4. Sane'
  BY SubmitSane DEF Good
<1>5. Remembers
  BY <1>1, <1>3, <1>4, EngineProceeds, ProceedsRemembers DEF Good, Sane
<1> QED
  BY <1>1, <1>3, <1>4, <1>5, PhaseGood

LEMMA EndsGood ==
  ASSUME Good, NEW j \in Jobs, NEW outcome \in {"success", "error", "cancelled"},
         job[j].phase \in Active, Ends(j, outcome),
         outcome = "success" => job[j].phase = "applied",
         outcome = "error" => job[j].phase = "failed"
  PROVE  Good'
<1>1. Phase(j, outcome) /\ UNCHANGED <<guest, snap, request>>
  BY DEF Ends
<1>2. /\ job'[j].phase = outcome /\ job'[j].hurt = job[j].hurt
      /\ job'[j].op = job[j].op /\ job'[j].row = job[j].row /\ job'[j].key = job[j].key
      /\ job'[j].args = job[j].args
      /\ \A i \in Jobs : i # j => job'[i] = job[i]
  BY <1>1, PhaseStep DEF Good, Sane, Phases
<1>3. Sane'
  BY EndsSane DEF Good
<1>4. Remembers
  BY <1>2, <1>3, EngineProceeds, ProceedsRemembers DEF Good, Sane
<1> QED
  BY <1>1, <1>2, <1>3, <1>4, PhaseGood

LEMMA BreaksOffGood ==
  ASSUME Good, NEW j \in Jobs, NEW phase \in {"queued", "failed"}, BreaksOff(j, phase)
  PROVE  Good'
<1>1. job[j].phase \in Active /\ UNCHANGED <<guest, snap, request>>
  BY DEF BreaksOff
<1>2. /\ job'[j].phase = phase /\ job'[j].hurt
      /\ job'[j].op = job[j].op /\ job'[j].row = job[j].row /\ job'[j].key = job[j].key
      /\ job'[j].args = job[j].args
      /\ \A i \in Jobs : i # j => job'[i] = job[i]
  BY BreaksOffStep DEF Good, Sane
<1>3. Sane'
  BY BreaksOffSane DEF Good
<1>4. Remembers
  BY <1>1, <1>2, <1>3, EngineProceeds, ProceedsRemembers DEF Good, Sane
<1> QED
  BY <1>1, <1>2, <1>3, <1>4, PhaseGood

LEMMA CheckGood ==
  ASSUME Good, NEW j \in Jobs, Check(j)
  PROVE  Good'
<1>1. Asks(j)
  BY CheckAsks DEF Good, Sane
<1>2. Sane' /\ Remembers
  BY <1>1, AsksSane, AsksRemembers DEF Good, Sane
<1> QED
  BY <1>1, <1>2, PhaseGood DEF Asks

LEMMA InitGood == Init => Good
<1> SUFFICES ASSUME Init PROVE Good
  OBVIOUS
<1>1. Sane
  BY InitSane
<1>2. \A j \in Jobs : job[j].phase = "idle"
  BY DEF Init, Idle
<1>3. \A j \in Jobs : Sound(j)
  BY <1>2 DEF Sound, At
<1>4. ASSUME NEW r \in Rows PROVE RowSound(r)
  <2>1. snap[r] = None
    BY DEF Init
  <2>2. Exists(r) => r \in Seeded /\ guest[r] = Seed[r]
    BY DEF Init, Exists
  <2>3. Exists(r) => guest[r].cfg = guest[r].config
    BY <2>2, SeedAssumption
  <2> QED
    BY <2>1, <2>3 DEF RowSound, Agree
<1>5. \A q \in Requests : request[q].phase = "idle"
  BY DEF Init
<1> QED
  BY <1>1, <1>3, <1>4, <1>5 DEF Good, Truthful

LEMMA StutterGood == Good /\ UNCHANGED vars => Good'
<1> SUFFICES ASSUME Good, UNCHANGED vars PROVE Good'
  OBVIOUS
<1>1. Sane'
  BY NextSane DEF Good
<1>2. Remembers
  BY DEF vars, Remembers, Parted, Parts, LeftBy
<1>3. \A i \in Jobs : Sound(i)'
  BY <1>2, TaskKept DEF Good, Truthful, Sane, vars
<1>4. \A r \in Rows : RowSound(r)'
  BY <1>2, RowKept DEF Good, Truthful, vars
<1> QED
  BY <1>1, <1>3, <1>4 DEF Good, Truthful, vars

LEMMA NoDirect ==
  ASSUME TasksOnly, Good, NEW q \in Requests
  PROVE  ~Directly(q)
<1>1. request[q].phase = "idle"
  BY DEF Good, Truthful
<1>2. Ops \cap Savers = {} /\ "status all" \notin Ops /\ "migrate all" \notin Ops
  BY DEF TasksOnly, DirectOps, Sweepers
<1>3. ~Read(q) /\ ~SetStatuses(q) /\ ~MigrateAll(q)
  BY <1>2 DEF Read, SetStatuses, MigrateAll, Sweeps
<1>4. ~Respond(q) /\ ~Abort(q)
  BY <1>1 DEF Respond, Abort, PutState, PutConfig, SaveConfig, ResizeState, SaveState,
              ConvertColumn, ConvertState, Pending
<1> QED
  BY <1>3, <1>4 DEF Directly

LEMMA NextGood ==
  ASSUME TasksOnly, Good, [Next]_vars
  PROVE  Good'
<1>1. ASSUME NEW q \in Requests PROVE ~Directly(q)
  BY NoDirect
<1>2. CASE UNCHANGED vars
  BY <1>2, StutterGood
<1>3. ASSUME NEW j \in Jobs, Check(j) \/ Submit(j) \/ Handle(j) PROVE Good'
  BY <1>3, CheckGood, SubmitGood, HandleGood
<1>4. ASSUME NEW j \in Jobs, NEW outcome \in {"success", "error", "cancelled"},
             job[j].phase \in Active, Ends(j, outcome),
             outcome = "success" => job[j].phase = "applied",
             outcome = "error" => job[j].phase = "failed"
      PROVE  Good'
  BY <1>4, EndsGood
<1>5. ASSUME NEW j \in Jobs, NEW phase \in {"queued", "failed"}, BreaksOff(j, phase) PROVE Good'
  BY <1>5, BreaksOffGood
<1> QED
  BY <1>1, <1>2, <1>3, <1>4, <1>5, NextKinds

LEMMA GoodAlways == ASSUME TasksOnly PROVE Spec => []Good
<1>1. Good /\ [Next]_vars => Good'
  BY NextGood
<1> QED
  BY <1>1, InitGood, PTL DEF Spec

(* While only tasks write, the two copies of a configuration agree, but    *)
(* for options that were moved and deleted or set and deleted.             *)
THEOREM GuestCopies == ASSUME TasksOnly PROVE Spec => []CopiesAgree
<1>1. Good => CopiesAgree
  BY DEF Good, Truthful, RowSound, CopiesAgree
<1> QED
  BY <1>1, GoodAlways, PTL

(* While only tasks write, what a task is about to report as its success   *)
(* is the case until it has ended.                                         *)
THEOREM GuestSuccesses == ASSUME TasksOnly PROVE Spec => []AppliedMeansAchieved
<1>1. Good => AppliedMeansAchieved
  BY DEF Good, Truthful, Sound, AppliedMeansAchieved
<1> QED
  BY <1>1, GoodAlways, PTL

-----------------------------------------------------------------------------
(* The statuses a step of a handler may take a guest through.              *)
Follows(r) ==
  Exists(r) =>
    IF guest'[r] = None
    THEN \A j \in Jobs : ~(job[j].row = r /\ At(j, "half", Stepwise))
    ELSE \/ guest'[r].status = guest[r].status
         \/ AlongTable(guest[r].status, guest'[r].status)
         \/ RollsBack(r)

LEMMA SameFollows ==
  ASSUME NEW r \in Rows, guest'[r] = guest[r]
  PROVE  Follows(r)
BY DEF Follows, Exists

LEMMA PowerFollows ==
  ASSUME Good, NEW j \in Jobs, BeginPower(j) \/ EndPower(j) \/ EndMigrate(j),
         NEW r \in Rows, r = Target(j)
  PROVE  Follows(r)
<1>1. job[j].op \in Stepwise /\ job[j].phase \in {"loaded", "half"}
  BY DEF BeginPower, EndPower, EndMigrate, At, Stepwise
<1>2. r = job[j].row /\ job[j].seen \in Guest /\ job[j].plan \in Transitions
  BY <1>1 DEF Good, Sane, Typed, Shaped, Target, Stepwise, Power
<1>3. Sound(j)
  BY DEF Good, Truthful
<1>4. CASE job[j].phase = "loaded"
  <2>1. guest[r] = job[j].seen /\ job[j].plan.from = guest[r].status
    BY <1>1, <1>2, <1>3, <1>4 DEF Sound, At, Rereaders
  <2>2. BeginPower(j)
    BY <1>4 DEF EndPower, EndMigrate, At
  <2>3. Exists(r) /\ guest[r] \in Guest
    BY <1>2, <2>1, NamesAssumption DEF Exists
  <2>4. /\ job[j].plan.via \in Statuses /\ job[j].seen.cfg \in Configs /\ guest[r].config \in Configs
    BY <1>2, <2>3, Transition DEF Statuses, Guest
  <2>5. Store(r, Row(r, job[j].plan.via, job[j].seen.cfg, guest[r].config, 0))
    BY <1>2, <2>2 DEF BeginPower
  <2>6. guest'[r].status = job[j].plan.via /\ Exists(r)'
    BY <2>3, <2>4, <2>5, StoredFields DEF Good, Sane
  <2>7. AlongTable(guest[r].status, guest'[r].status)
    BY <1>2, <2>1, <2>6 DEF AlongTable
  <2> QED
    BY <2>6, <2>7 DEF Follows, Exists
<1>5. CASE job[j].phase = "half"
  <2>1. Exists(r) /\ guest[r].status = job[j].plan.via
    BY <1>2, <1>3, <1>5 DEF Sound
  <2>2. guest[r] \in Guest
    BY <2>1, KeyType DEF Good, Sane
  <2>3. /\ job[j].plan.to \in Statuses /\ job[j].seen.cfg \in Configs /\ guest[r].config \in Configs
    BY <1>2, <2>2, Transition DEF Statuses, Guest
  <2>4. guest'[r].status = job[j].plan.to /\ Exists(r)'
    <3>1. CASE EndPower(j)
      <4>1. Store(r, Row(r, job[j].plan.to, job[j].seen.cfg, guest[r].config, 0))
        BY <1>2, <3>1 DEF EndPower
      <4> QED
        BY <2>1, <2>3, <4>1, StoredFields DEF Good, Sane
    <3>2. CASE EndMigrate(j)
      <4> DEFINE row == Row(r, job[j].plan.to, job[j].seen.cfg, guest[r].config, 1)
                 moved == [row EXCEPT !.node = job[j].args.node]
      <4>1. Store(r, moved)
        BY <1>2, <3>2 DEF EndMigrate
      <4>2. job[j].args.node \in Nodes
        BY <3>2 DEF EndMigrate, At, Good, Sane, Typed, Shaped, NodeArgs
      <4>3. row \in Guest /\ row.status = job[j].plan.to
        BY <2>2, <2>3, RowFields
      <4> HIDE DEF row
      <4>4. moved \in Guest /\ moved.status = row.status
        BY <4>2, <4>3 DEF Guest
      <4> HIDE DEF moved
      <4> QED
        BY <2>1, <4>1, <4>3, <4>4, StoreStep DEF Good, Sane, Exists
    <3> QED
      BY <1>5, <3>1, <3>2 DEF BeginPower, At
  <2>5. AlongTable(guest[r].status, guest'[r].status)
    BY <1>2, <2>1, <2>4 DEF AlongTable
  <2> QED
    BY <2>4, <2>5 DEF Follows, Exists
<1> QED
  BY <1>1, <1>4, <1>5

LEMMA InsertFollows ==
  ASSUME Good, NEW j \in Jobs, Create(j) \/ Clone(j), NEW r \in Rows, r = Target(j)
  PROVE  Follows(r)
<1>1. r = j /\ job[j].phase # "idle"
  BY DEF Create, Clone, At, Target
<1>2. UNCHANGED guest \/ ~VmidTaken(job[j].key[2])
  BY DEF Create, Clone, Insert, Fails
<1>3. Exists(r) => VmidTaken(job[j].key[2])
  <2>1. Exists(r) => Key(r) = job[j].key
    BY <1>1, NamesAssumption DEF Placed, Home, Good, Sane
  <2> QED
    BY <2>1 DEF Key, VmidTaken
<1> QED
  BY <1>2, <1>3, SameFollows DEF Follows

LEMMA RereaderFollows ==
  ASSUME Good, NEW j \in Jobs, Update(j) \/ MoveDisk(j), NEW r \in Rows, r = Target(j)
  PROVE  Follows(r)
<1>1. At(j, "loaded", {"update", "move-disk", "snapshot-create"})
  BY DEF Update, MoveDisk, At
<1>2. r = job[j].row /\ job[j].seen = guest[r] /\ guest[r] \in Guest /\ Exists(r)
  BY <1>1, RereaderSees, NamesAssumption DEF Exists
<1>3. CASE Fails(j)
  BY <1>3, SameFollows DEF Fails
<1>4. \A i \in Jobs : ~(job[i].row = r /\ At(i, "half", Stepwise))
  BY <1>1, <1>2, NoOtherHalf, RereaderSees DEF At, Active, Good
<1>5. ASSUME NEW cfg, NEW config, Store(r, Row(r, guest[r].status, cfg, config, 1)) PROVE Follows(r)
  <2>1. guest'[r] = Row(r, guest[r].status, cfg, config, 1)
    BY <1>2, <1>5 DEF Store, Good, Sane, Typed, Tables
  <2>2. guest'[r].status = guest[r].status
    BY <2>1 DEF Row
  <2> QED
    BY <1>4, <2>2 DEF Follows
<1> QED
  BY <1>2, <1>3, <1>5 DEF Update, MoveDisk, Applies

LEMMA DeleteFollows ==
  ASSUME Good, NEW j \in Jobs, Delete(j), NEW r \in Rows, r = Target(j)
  PROVE  Follows(r)
<1>1. job[j].phase = "queued" /\ job[j].op = "delete"
  BY DEF Delete, At
<1>2. r = job[j].row
  BY <1>1 DEF Target
<1>3. CASE Fails(j)
  BY <1>3, SameFollows DEF Fails
<1>4. CASE guest' = [guest EXCEPT ![r] = None]
  <2>1. guest'[r] = None
    BY <1>4 DEF Good, Sane, Typed, Tables
  <2>2. \A i \in Jobs : ~(job[i].row = r /\ At(i, "half", Stepwise))
    BY <1>1, NoOtherHalf DEF At, Active, Good
  <2> QED
    BY <2>1, <2>2 DEF Follows
<1> QED
  BY <1>2, <1>3, <1>4 DEF Delete

LEMMA RollbackFollows ==
  ASSUME Good, NEW j \in Jobs, SnapshotRollback(j), NEW r \in Rows, r = Target(j)
  PROVE  Follows(r)
<1>1. At(j, "loaded", {"snapshot-rollback"}) /\ Phase(j, "applied") /\ r = job[j].row
  BY DEF SnapshotRollback, Applies, At, Target
<1>2. job'[j].phase = "applied"
  BY <1>1, PhaseStep DEF Good, Sane, Phases, Active
<1>3. RollsBack(r)
  BY <1>1, <1>2 DEF RollsBack
<1>4. \A i \in Jobs : ~(job[i].row = r /\ At(i, "half", Stepwise))
  BY <1>1, NoOtherHalf DEF At, Active, Good
<1> QED
  BY <1>3, <1>4 DEF Follows

LEMMA HandleFollows ==
  ASSUME Good, NEW j \in Jobs, Handle(j), NEW r \in Rows
  PROVE  Follows(r)
<1>1. CASE r # Target(j)
  BY <1>1, HandleHandles, SameFollows DEF Handles, WritesTarget, Good, Sane
<1>2. CASE r = Target(j)
  <2>1. CASE PlanPower(j) \/ Load(j) \/ SnapshotCreate(j) \/ SnapshotDelete(j)
    <3>1. UNCHANGED guest
      BY <2>1 DEF PlanPower, Load, SnapshotCreate, SnapshotDelete, Loads, Fails
    <3> QED
      BY <3>1, SameFollows
  <2>2. CASE BeginPower(j) \/ EndPower(j) \/ EndMigrate(j)
    BY <1>2, <2>2, PowerFollows
  <2>3. CASE Create(j) \/ Clone(j)
    BY <1>2, <2>3, InsertFollows
  <2>4. CASE Update(j) \/ MoveDisk(j)
    BY <1>2, <2>4, RereaderFollows
  <2>5. CASE Delete(j)
    BY <1>2, <2>5, DeleteFollows
  <2>6. CASE SnapshotRollback(j)
    BY <1>2, <2>6, RollbackFollows
  <2> QED
    BY <2>1, <2>2, <2>3, <2>4, <2>5, <2>6 DEF Handle
<1> QED
  BY <1>1, <1>2

LEMMA NextFollows ==
  ASSUME TasksOnly, Good, [Next]_vars
  PROVE  \A r \in Rows : Follows(r)
<1> SUFFICES ASSUME NEW r \in Rows PROVE Follows(r)
  OBVIOUS
<1>1. ASSUME NEW j \in Jobs, Handle(j) PROVE Follows(r)
  BY <1>1, HandleFollows
<1>2. ASSUME NEW j \in Jobs, Check(j) PROVE Follows(r)
  BY <1>2, CheckAsks, SameFollows DEF Asks, Good, Sane
<1>3. ASSUME NEW j \in Jobs, NEW phase, Submit(j) \/ BreaksOff(j, phase) PROVE Follows(r)
  BY <1>3, SameFollows DEF Submit, BreaksOff
<1>4. ASSUME NEW j \in Jobs, NEW outcome, Ends(j, outcome) PROVE Follows(r)
  BY <1>4, SameFollows DEF Ends
<1>5. ASSUME NEW q \in Requests PROVE ~Directly(q)
  BY NoDirect
<1>6. CASE UNCHANGED vars
  BY <1>6, SameFollows DEF vars
<1> QED
  BY <1>1, <1>2, <1>3, <1>4, <1>5, <1>6, NextKinds

(* While only tasks write, a status changes along the table of the state   *)
(* machine, and no guest is deleted between the writes of a task on it.    *)
THEOREM GuestStatuses == ASSUME TasksOnly PROVE Spec => StatusFollowsTable
<1>1. Good /\ [Next]_vars => [\A r \in Rows : Follows(r)]_vars
  BY NextFollows
<1>2. StatusFollowsTable <=> [][\A r \in Rows : Follows(r)]_vars
  BY PTL DEF StatusFollowsTable, Follows
<1> QED
  BY <1>1, <1>2, GoodAlways, PTL DEF Spec

-----------------------------------------------------------------------------
(***************************************************************************)
(* PUT checks that the version of the row is the one it has read.  That    *)
(* protects it from the writers that count versions.  The power            *)
(* operations, the conversion to a template and the statements for all     *)
(* guests do not; while nobody calls those, a version stands for a status  *)
(* and a configuration (VersionsCount), and a row that is gone never comes *)
(* back under its uuid (Born, Fresh).                                      *)
(***************************************************************************)
Uncounted == Stepwise \cup {"template", "status all"}

AllCounted == Ops \cap Uncounted = {}

Ended == {"refused", "success", "error", "cancelled"}

(* Only the task that a row is named after has inserted it.                *)
Born ==
  \A j \in Jobs : Exists(j) => job[j].op \in {"create", "clone"} /\ job[j].phase # "checked"

(* What a PUT has read is still so, or the version tells.                  *)
Fresh(q) ==
  request[q].phase = "read" =>
    LET r == request[q].row
        s == request[q].seen
    IN  /\ Exists(r) => /\ guest[r].version >= s.version
                        /\ guest[r].version = s.version =>
                             guest[r].status = s.status /\ guest[r].cfg = s.cfg
        /\ ~Exists(r) /\ r \in Jobs => job[r].phase \in Ended

(* Of the column this is so, too, but for the calls that write it apart    *)
(* from the version and overlap the PUT, until it writes the column.       *)
Steady(q) ==
  request[q].op = "put" =>
    LET r == request[q].row
        s == request[q].seen
    IN  /\ request[q].phase = "read" =>
             (Exists(r) /\ guest[r].version = s.version => guest[r].config = s.config \/ Crossed(q))
        /\ request[q].phase = "half" =>
             /\ Exists(r) => guest[r].version >= s.version + 1
             /\ Exists(r) /\ guest[r].version = s.version + 1 =>
                  guest[r].config = s.config \/ Crossed(q)
             /\ ~Exists(r) /\ r \in Jobs => job[r].phase \in Ended

Answered == {"conflict", "done", "aborted"}

(* Calls that had ended stay so.                                           *)
Recorded ==
  \A q \in Requests : \A p \in request[q].ended :
    p \in Requests /\ request[p].phase \in Answered

Offered ==
  /\ \A j \in Jobs : job[j].phase # "idle" => job[j].op \in Ops
  /\ \A q \in Requests : request[q].phase \in {"read", "half"} => request[q].op \in Ops

Counted == Born /\ Offered /\ Recorded /\ \A q \in Requests : Fresh(q) /\ Steady(q)

(* What a step may do to rows and tasks: no row changes its status or its  *)
(* configuration under a version, but for the column, which a call that    *)
(* writes it apart may change (WritesApart); and only the task a row is    *)
(* named after makes it, once.                                             *)
WritesApart(s) ==
  \E p \in Requests : /\ request[p].phase \in {"read", "half"} /\ request[p].row = s
                      /\ request[p].op \in ColumnApart
                      /\ request[p].op = "put" => request'[p].phase = "done"

VersionsCount ==
  \A s \in Rows : Exists(s) /\ Exists(s)' =>
    /\ guest'[s].version >= guest[s].version
    /\ guest'[s].version = guest[s].version =>
         /\ guest'[s].status = guest[s].status /\ guest'[s].cfg = guest[s].cfg
         /\ guest'[s].config = guest[s].config \/ WritesApart(s)

RowsOnce ==
  \A s \in Rows :
    /\ Exists(s)' /\ ~Exists(s) =>
         s \in Jobs /\ job[s].phase \in Active /\ job'[s].phase # "checked"
           /\ job'[s].op \in {"create", "clone"}
    /\ Exists(s) /\ ~Exists(s)' /\ s \in Jobs => job'[s].phase \in Ended

TasksOnce ==
  \A j \in Jobs :
    /\ job[j].phase \in Ended => job'[j].phase \in Ended
    /\ Exists(j) => job'[j].op = job[j].op /\ job'[j].phase # "checked"

LEMMA NothingCounts ==
  ASSUME UNCHANGED guest, Sane
  PROVE  VersionsCount /\ RowsOnce
<1>1. \A s \in Rows : Exists(s) => guest[s].version \in Nat
  BY KeyType DEF Sane, Guest
<1> QED
  BY <1>1 DEF VersionsCount, RowsOnce, Exists

(* A row is stored with another version, or with what the property is of.  *)
LEMMA StoreCounts ==
  ASSUME Sane, NEW r \in Rows, NEW status, NEW cfg, NEW config, NEW bump \in {0, 1},
         Exists(r) => Row(r, status, cfg, config, bump) \in Guest,
         Store(r, Row(r, status, cfg, config, bump)),
         Exists(r) /\ bump = 0 =>
           /\ status = guest[r].status /\ cfg = guest[r].cfg
           /\ config = guest[r].config \/ WritesApart(r)
  PROVE  VersionsCount /\ \A s \in Rows : Exists(s)' <=> Exists(s)
<1>1. \A s \in Rows : Exists(s) => guest[s].version \in Nat
  BY KeyType DEF Sane, Guest
<1>2. PICK row : row = Row(r, status, cfg, config, bump)
  OBVIOUS
<1>3. /\ Exists(r) => guest'[r] = row /\ row # None
      /\ ~Exists(r) => guest'[r] = None
      /\ \A s \in Rows : s # r => guest'[s] = guest[s]
  BY <1>2, StoreStep DEF Sane
<1>4. /\ row.version = guest[r].version + bump /\ row.status = status /\ row.cfg = cfg
      /\ row.config = config
  BY <1>2 DEF Row
<1>5. ASSUME NEW s \in Rows, Exists(s)
      PROVE  /\ guest'[s].version >= guest[s].version
             /\ guest'[s].version = guest[s].version =>
                  /\ guest'[s].status = guest[s].status /\ guest'[s].cfg = guest[s].cfg
                  /\ guest'[s].config = guest[s].config \/ WritesApart(s)
  <2>1. CASE s # r
    BY <1>1, <1>3, <1>5, <2>1
  <2>2. CASE s = r /\ bump = 1
    BY <1>1, <1>3, <1>4, <1>5, <2>2
  <2>3. CASE s = r /\ bump = 0
    <3>1. guest[r].version \in Nat /\ guest'[r] = row
      BY <1>1, <1>3, <1>5, <2>3
    <3>2. guest'[r].version = guest[r].version
      BY <1>4, <2>3, <3>1
    <3>3. Exists(r) /\ bump = 0
      BY <1>5, <2>3
    <3>4. status = guest[r].status /\ cfg = guest[r].cfg
      BY <3>3
    <3>5. config = guest[r].config \/ WritesApart(r)
      BY <3>3
    <3> QED
      BY <1>4, <2>3, <3>1, <3>2, <3>4, <3>5
  <2> QED
    BY <2>1, <2>2, <2>3
<1> QED
  BY <1>3, <1>5 DEF VersionsCount, Exists

LEMMA InsertCounts ==
  ASSUME Sane, NEW j \in Jobs, job[j].op \in {"create", "clone"},
         NEW status, NEW cfg, NEW config, Insert(j, status, cfg, config)
  PROVE  VersionsCount /\ \A s \in Rows : Exists(s) => Exists(s)'
<1>1. CASE UNCHANGED guest
  BY <1>1, NothingCounts DEF Exists
<1>2. CASE ~UNCHANGED guest
  <2>1. PICK new : ~VmidTaken(job[j].key[2]) /\ guest' = [guest EXCEPT ![j] = new]
    BY <1>2 DEF Insert, Fails
  <2>2. ~Exists(j)
    <3>1. j \in Rows /\ j \notin Seeded
      BY NamesAssumption DEF Rows
    <3>2. Exists(j) => Key(j) = job[j].key
      BY <3>1 DEF Sane, Placed, Home
    <3>3. Exists(j) => guest[j].vmid = job[j].key[2]
      BY <3>2 DEF Key
    <3> QED
      BY <2>1, <3>1, <3>3 DEF VmidTaken
  <2>3. \A s \in Rows : Exists(s) => guest'[s] = guest[s]
    BY <2>1, <2>2 DEF Sane, Typed, Tables
  <2>4. \A s \in Rows : Exists(s) => guest[s].version \in Nat
    BY KeyType DEF Sane, Guest
  <2> QED
    BY <2>3, <2>4 DEF VersionsCount, Exists
<1> QED
  BY <1>1, <1>2

LEMMA AppliesCounts ==
  ASSUME Sane, NEW j \in Jobs, job[j].row \in Rows, NEW status \in Statuses, NEW cfg \in Configs,
         NEW config \in Configs, Applies(j, Row(job[j].row, status, cfg, config, 1))
  PROVE  VersionsCount /\ \A s \in Rows : Exists(s)' <=> Exists(s)
<1>1. PICK r \in Rows : r = job[j].row
  OBVIOUS
<1>2. Exists(r) => Row(r, status, cfg, config, 1) \in Guest
  BY KeyType, RowFields DEF Sane
<1> QED
  BY <1>1, <1>2, StoreCounts DEF Applies

LEMMA HandleCounts ==
  ASSUME AllCounted, Sane, Offered, NEW j \in Jobs, Handle(j)
  PROVE  VersionsCount /\ \A s \in Rows : Exists(s) /\ ~Exists(s)' => job[j].op = "delete"
<1>1. job[j].phase \in Active
  BY HandleHandles DEF Handles, Sane
<1>2. job[j].phase # "idle" /\ job[j].op \notin Stepwise
  BY <1>1 DEF Offered, AllCounted, Uncounted, Active
<1>3. CASE UNCHANGED guest
  BY <1>3, NothingCounts DEF Exists
<1>4. CASE Create(j)
  BY <1>4, InsertCounts DEF Create, At
<1>5. CASE Clone(j)
  BY <1>5, InsertCounts DEF Clone, At
<1>6. CASE Delete(j)
  <2>1. job[j].op = "delete"
    BY <1>6 DEF Delete, At
  <2>2. \A s \in Rows : Exists(s) => guest[s].version \in Nat
    BY KeyType DEF Sane, Guest
  <2>3. CASE guest' = [guest EXCEPT ![job[j].row] = None]
    BY <2>1, <2>2, <2>3 DEF VersionsCount, Exists, Sane, Typed, Tables
  <2> QED
    BY <1>3, <1>6, <2>1, <2>3 DEF Delete, Fails
<1>7. CASE Update(j)
  <2> DEFINE s == job[j].seen
             cfg == Changed(Deleted(s.cfg, job[j].args), job[j].args)
             config == Deleted(Changed(s.config, job[j].args), job[j].args)
  <2>1. job[j].phase = "loaded" /\ job[j].op = "update"
        /\ Applies(j, Row(job[j].row, s.status, cfg, config, 1))
    BY <1>7 DEF Update, At
  <2>2. job[j].row \in Rows /\ job[j].seen \in Guest /\ job[j].args \in OptionArgs
    BY <2>1 DEF Sane, Typed, Shaped, GuestReaders
  <2>3. s.status \in Statuses /\ cfg \in Configs /\ config \in Configs
    BY <2>2, UpdateCopies DEF Guest, Statuses
  <2> HIDE DEF cfg, config
  <2> QED
    BY <2>1, <2>2, <2>3, AppliesCounts
<1>8. CASE MoveDisk(j)
  <2> DEFINE args   == job[j].args
             g      == guest[job[j].row]
             volume == job[j].seen.config[args.from]
             copied == [job[j].seen.config EXCEPT ![args.to] = volume]
             moved  == IF args.drop /\ args.to # args.from
                       THEN [copied EXCEPT ![args.from] = None] ELSE copied
             cfg    == [g.cfg EXCEPT ![args.to] = volume]
  <2>1. CASE Applies(j, Row(job[j].row, g.status, cfg, moved, 1))
    <3>1. job[j].phase = "loaded" /\ job[j].op = "move-disk"
      BY <1>8 DEF MoveDisk, At
    <3>2. job[j].row \in Rows /\ job[j].seen \in Guest /\ args \in MoveArgs
      BY <3>1 DEF Sane, Typed, Shaped, GuestReaders
    <3>3. copied \in Configs /\ volume \in Values \cup {None}
      BY <3>2 DEF Guest, Configs, MoveArgs
    <3>4. moved \in Configs
      <4> HIDE DEF copied
      <4> QED
        BY <3>3 DEF Configs
    <3>5. g \in Guest => g.status \in Statuses /\ cfg \in Configs
      BY <3>2, <3>3 DEF Guest, Statuses, Configs, MoveArgs
    <3> HIDE DEF cfg, moved
    <3>6. CASE g \in Guest
      BY <2>1, <3>2, <3>4, <3>5, <3>6, AppliesCounts
    <3>7. CASE g \notin Guest
      <4>1. ~Exists(job[j].row)
        BY <3>2, <3>7, KeyType DEF Sane
      <4>2. Store(job[j].row, Row(job[j].row, g.status, cfg, moved, 1))
        BY <2>1 DEF Applies
      <4> QED
        BY <3>2, <4>1, <4>2, StoreCounts
    <3> QED
      BY <3>6, <3>7
  <2> QED
    BY <1>3, <1>8, <2>1 DEF MoveDisk, Fails
<1>9. CASE SnapshotRollback(j)
  <2> DEFINE s == job[j].seen
             status == IF job[j].args.start THEN "running" ELSE s.status
  <2>1. job[j].phase = "loaded" /\ job[j].op = "snapshot-rollback"
        /\ Applies(j, Row(job[j].row, status, s.cfg, s.config, 1))
    BY <1>9 DEF SnapshotRollback, At
  <2>2. job[j].row \in Rows /\ job[j].seen \in Snapshot
    BY <2>1 DEF Sane, Typed, Shaped
  <2>3. status \in Statuses /\ s.cfg \in Configs /\ s.config \in Configs
    BY <2>2 DEF Snapshot, Statuses, Settled
  <2> HIDE DEF status
  <2> QED
    BY <2>1, <2>2, <2>3, AppliesCounts
<1>10. CASE PlanPower(j) \/ BeginPower(j) \/ EndPower(j) \/ EndMigrate(j)
  BY <1>2, <1>10 DEF PlanPower, BeginPower, EndPower, EndMigrate, At, Stepwise
<1>11. CASE Load(j) \/ SnapshotCreate(j) \/ SnapshotDelete(j)
  BY <1>3, <1>11 DEF Load, SnapshotCreate, SnapshotDelete, Loads, Fails
<1> QED
  BY <1>4, <1>5, <1>6, <1>7, <1>8, <1>9, <1>10, <1>11 DEF Handle

LEMMA HandleOnce ==
  ASSUME AllCounted, Sane, Born, Offered, NEW j \in Jobs, Handle(j)
  PROVE  RowsOnce /\ TasksOnce
<1>1. Handles(j)
  BY HandleHandles DEF Sane
<1>2. /\ job[j].phase \in Active /\ job'[j].phase \in Active /\ job'[j].op = job[j].op
      /\ \A i \in Jobs : i # j => job'[i] = job[i]
  BY <1>1 DEF Handles, Proceeds
<1>3. ASSUME NEW s \in Rows, Exists(s)', ~Exists(s)
      PROVE  /\ s \in Jobs /\ job[s].phase \in Active /\ job'[s].phase # "checked"
             /\ job'[s].op \in {"create", "clone"}
  BY <1>1, <1>2, <1>3 DEF Handles, WritesTarget, Active
<1>4. ASSUME NEW s \in Jobs, s \in Rows, Exists(s), ~Exists(s)' PROVE job'[s].phase \in Ended
  <2>1. job[j].op = "delete"
    BY <1>4, HandleCounts
  <2>2. job[s].op \in {"create", "clone"} /\ job[s].phase \notin {"checked", "idle"} /\ s # j
    BY <1>4, <2>1 DEF Born, Sane, Placed, Known
  <2>3. s = job[j].row /\ Target(j) = s
    BY <1>1, <1>4, <2>1 DEF Handles, WritesTarget, Target, Exists
  <2>4. job[j].key = job[s].key /\ job[j].phase # "idle"
    BY <1>2, <2>3, NamesAssumption DEF Sane, Placed, Home, Active
  <2>5. job[s].phase \notin Active
    BY <1>2, <2>2, <2>4 DEF Sane, Locking
  <2>6. job[s].phase \in Phases
    BY DEF Sane, Typed, JobRecords
  <2> QED
    BY <1>2, <2>2, <2>5, <2>6 DEF Phases, Ended
<1>5. TasksOnce
  BY <1>2 DEF TasksOnce, Born, Active, Ended
<1> QED
  BY <1>3, <1>4, <1>5 DEF RowsOnce

LEMMA DirectCounts ==
  ASSUME AllCounted, Sane, Offered, NEW q \in Requests, Directly(q)
  PROVE  VersionsCount /\ \A s \in Rows : Exists(s)' <=> Exists(s)
<1>1. Calls
  BY DirectCalls DEF Sane
<1>2. \A s \in Rows : Exists(s)' <=> Exists(s)
  BY <1>1 DEF Calls, KeepsGuests
<1>3. CASE UNCHANGED guest
  BY <1>2, <1>3, NothingCounts
<1>4. CASE PutState(q) \/ PutConfig(q) \/ SaveConfig(q) \/ ResizeState(q) \/ SaveState(q)
  <2>1. /\ request[q].phase \in {"read", "half"}
        /\ request[q].row \in Rows /\ request[q].key \in Keys /\ request[q].seen \in Guest
    BY <1>4 DEF PutState, PutConfig, SaveConfig, ResizeState, SaveState, Pending, Sane, Typed,
                RequestShaped
  <2>2. PICK r \in Rows, s \in Guest : r = request[q].row /\ s = request[q].seen
    BY <2>1
  <2>3. /\ Change(q, s.cfg) \in Configs /\ Change(q, s.config) \in Configs
        /\ s.cfg \in Configs /\ s.status \in Statuses
    BY <2>1, ChangeType DEF Guest, Statuses, Sane
  <2>4. Exists(r) => /\ guest[r] \in Guest /\ guest[r].status \in Statuses
                     /\ guest[r].cfg \in Configs /\ guest[r].config \in Configs
                     /\ Change(q, guest[r].cfg) \in Configs
    BY <2>1, KeyType, ChangeType DEF Guest, Statuses, Sane
  <2>5. CASE PutState(q) /\ ~UNCHANGED guest
    <3>1. Store(r, Row(r, s.status, Change(q, s.cfg), guest[r].config, 1))
      BY <2>2, <2>5 DEF PutState
    <3>2. Exists(r) => Row(r, s.status, Change(q, s.cfg), guest[r].config, 1) \in Guest
      BY <2>3, <2>4, RowFields
    <3> QED
      BY <3>1, <3>2, StoreCounts
  <2>6. CASE PutConfig(q) \/ SaveConfig(q)
    <3>1. Store(r, Row(r, guest[r].status, guest[r].cfg, Change(q, s.config), 0))
      BY <2>2, <2>6 DEF PutConfig, SaveConfig
    <3>2. Exists(r) => Row(r, guest[r].status, guest[r].cfg, Change(q, s.config), 0) \in Guest
      BY <2>3, <2>4, RowFields
    <3>3. request[q].op \in ColumnApart /\ (request[q].op = "put" => PutConfig(q))
      BY <2>6 DEF PutConfig, SaveConfig, Pending, ColumnApart
    <3>4. PutConfig(q) => request'[q].phase = "done"
      BY DEF PutConfig, Turns, Sane, Typed, RequestRecords
    <3>5. WritesApart(r)
      BY <2>1, <2>2, <3>3, <3>4 DEF WritesApart
    <3> QED
      BY <3>1, <3>2, <3>5, StoreCounts
  <2>7. CASE ResizeState(q)
    <3>1. Store(r, Row(r, guest[r].status, Change(q, guest[r].cfg), guest[r].config, 1))
      BY <2>2, <2>7 DEF ResizeState
    <3>2. Exists(r) => Row(r, guest[r].status, Change(q, guest[r].cfg), guest[r].config, 1) \in Guest
      BY <2>3, <2>4, RowFields
    <3> QED
      BY <3>1, <3>2, StoreCounts
  <2>8. CASE SaveState(q)
    <3>1. SavedStatuses(q) \subseteq Statuses
      BY <2>2, <2>3 DEF SavedStatuses, Statuses, Settled
    <3>2. PICK status \in Statuses : Store(r, Row(r, status, s.cfg, guest[r].config, 1))
      BY <2>2, <2>8, <3>1 DEF SaveState
    <3>3. Exists(r) => Row(r, status, s.cfg, guest[r].config, 1) \in Guest
      BY <2>3, <2>4, RowFields
    <3> QED
      BY <3>2, <3>3, StoreCounts
  <2> QED
    BY <1>2, <1>3, <1>4, <2>5, <2>6, <2>7, <2>8
<1>5. CASE ConvertColumn(q) \/ Read(q) \/ Abort(q)
  BY <1>3, <1>5 DEF ConvertColumn, Read, Abort
<1>6. CASE ConvertState(q) \/ SetStatuses(q)
  BY <1>6 DEF ConvertState, SetStatuses, Sweeps, Pending, Offered, AllCounted, Uncounted
<1>7. CASE MigrateAll(q)
  <2>1. PICK rs, to :
          guest' = [r \in Rows |-> IF r \in rs THEN [guest[r] EXCEPT !.node = to] ELSE guest[r]]
    BY <1>7 DEF MigrateAll
  <2>2. \A s \in Rows : Exists(s) => guest[s] \in Guest
    BY KeyType DEF Sane
  <2>3. ASSUME NEW s \in Rows, Exists(s)
        PROVE  /\ guest[s].version \in Nat /\ guest'[s].version = guest[s].version
               /\ guest'[s].status = guest[s].status /\ guest'[s].cfg = guest[s].cfg
               /\ guest'[s].config = guest[s].config
    <3>1. guest[s] \in Guest
      BY <2>2, <2>3
    <3>2. CASE s \in rs
      BY <2>1, <3>1, <3>2 DEF Guest
    <3>3. CASE s \notin rs
      BY <2>1, <3>1, <3>3 DEF Guest
    <3> QED
      BY <3>2, <3>3
  <2> QED
    BY <1>2, <2>3 DEF VersionsCount
<1> QED
  BY <1>4, <1>5, <1>6, <1>7 DEF Directly, Respond

(* What a PUT has read stays so, or the version tells. *)
LEMMA FreshKept ==
  ASSUME Sane, Sane', VersionsCount, RowsOnce, TasksOnce,
         NEW q \in Requests, Fresh(q), request'[q] = request[q]
  PROVE  Fresh(q)'
<1> SUFFICES ASSUME request[q].phase = "read"
             PROVE  LET r == request[q].row
                        s == request[q].seen
                    IN  /\ Exists(r)' => /\ guest'[r].version >= s.version
                                         /\ guest'[r].version = s.version =>
                                              guest'[r].status = s.status /\ guest'[r].cfg = s.cfg
                        /\ ~Exists(r)' /\ r \in Jobs => job'[r].phase \in Ended
  BY DEF Fresh, Exists
<1>1. PICK r \in Rows, s \in Guest : r = request[q].row /\ s = request[q].seen
  BY DEF Sane, Typed, RequestShaped
<1>2. s.version \in Nat /\ (Exists(r) => guest[r].version \in Nat)
      /\ (Exists(r)' => guest'[r].version \in Nat)
  <2>1. Exists(r)' => guest'[r] \in Guest
    BY DEF Sane, Typed, Tables, Exists
  <2> QED
    BY <2>1, KeyType DEF Sane, Guest
<1>3. /\ Exists(r) => /\ guest[r].version >= s.version
                      /\ guest[r].version = s.version =>
                           guest[r].status = s.status /\ guest[r].cfg = s.cfg
      /\ ~Exists(r) /\ r \in Jobs => job[r].phase \in Ended
  BY <1>1 DEF Fresh
<1>4. Exists(r)' => Exists(r)
  BY <1>3 DEF RowsOnce, Ended, Active
<1>5. ~Exists(r)' /\ r \in Jobs => job'[r].phase \in Ended
  BY <1>3 DEF RowsOnce, TasksOnce
<1>6. ASSUME Exists(r)'
      PROVE  /\ guest'[r].version >= s.version
             /\ guest'[r].version = s.version =>
                  guest'[r].status = s.status /\ guest'[r].cfg = s.cfg
  <2>1. /\ guest'[r].version >= guest[r].version
        /\ guest'[r].version = guest[r].version =>
             guest'[r].status = guest[r].status /\ guest'[r].cfg = guest[r].cfg
    BY <1>4, <1>6 DEF VersionsCount
  <2> QED
    BY <1>2, <1>3, <1>4, <1>6, <2>1
<1> QED
  BY <1>1, <1>5, <1>6

(* A PUT stays overlapped by a call that overlaps it. *)
OthersKeep(q) ==
  \A p \in Requests \ {q} : request[p].phase # "idle" =>
    /\ request'[p].phase # "idle"
    /\ request'[p].op = request[p].op /\ request'[p].row = request[p].row

LEMMA OverlapKept ==
  ASSUME NEW q \in Requests, request'[q].row = request[q].row,
         request'[q].ended = request[q].ended, OthersKeep(q), Crossed(q)
  PROVE  Crossed(q)'
BY DEF Crossed, OthersKeep

LEMMA SteadyKept ==
  ASSUME Sane, Sane', VersionsCount, RowsOnce, TasksOnce, Recorded,
         NEW q \in Requests, Fresh(q), Steady(q), request'[q] = request[q], OthersKeep(q)
  PROVE  Steady(q)'
<1> SUFFICES ASSUME request[q].op = "put", request[q].phase \in {"read", "half"}
             PROVE  Steady(q)'
  BY DEF Steady
<1>1. PICK r \in Rows, s \in Guest : r = request[q].row /\ s = request[q].seen
  BY DEF Sane, Typed, RequestShaped
<1>2. s.version \in Nat /\ (Exists(r) => guest[r].version \in Nat)
      /\ (Exists(r)' => guest'[r].version \in Nat)
  <2>1. Exists(r)' => guest'[r] \in Guest
    BY DEF Sane, Typed, Tables, Exists
  <2> QED
    BY <2>1, KeyType DEF Sane, Guest
<1>3. ~Exists(r) /\ r \in Jobs => job[r].phase \in Ended
  BY <1>1 DEF Fresh, Steady
<1>4. Exists(r)' => Exists(r)
  BY <1>3 DEF RowsOnce, Ended, Active
<1>5. ~Exists(r)' /\ r \in Jobs => job'[r].phase \in Ended
  BY <1>3 DEF RowsOnce, TasksOnce
<1>6. Crossed(q) => Crossed(q)'
  BY OverlapKept
<1>7. Exists(r)' => /\ guest'[r].version >= guest[r].version
                    /\ guest'[r].version = guest[r].version =>
                         guest'[r].config = guest[r].config \/ Crossed(q)
  <2> SUFFICES ASSUME Exists(r)', WritesApart(r) PROVE Crossed(q)
    BY <1>4 DEF VersionsCount
  <2>1. PICK p \in Requests :
          /\ request[p].phase \in {"read", "half"} /\ request[p].row = r
          /\ request[p].op \in ColumnApart
          /\ request[p].op = "put" => request'[p].phase = "done"
    BY DEF WritesApart
  <2>2. p # q
    BY <2>1
  <2>3. p \notin request[q].ended
    BY <2>1 DEF Recorded, Answered
  <2> QED
    BY <1>1, <2>1, <2>2, <2>3 DEF Crossed
<1>8. /\ request[q].phase = "read" /\ Exists(r) =>
           /\ guest[r].version >= s.version
           /\ guest[r].version = s.version => guest[r].config = s.config \/ Crossed(q)
      /\ request[q].phase = "half" /\ Exists(r) =>
           /\ guest[r].version >= s.version + 1
           /\ guest[r].version = s.version + 1 => guest[r].config = s.config \/ Crossed(q)
  BY <1>1 DEF Fresh, Steady
<1>9. /\ request[q].phase = "read" /\ Exists(r)' =>
           (guest'[r].version = s.version => guest'[r].config = s.config \/ Crossed(q)')
      /\ request[q].phase = "half" /\ Exists(r)' =>
           /\ guest'[r].version >= s.version + 1
           /\ guest'[r].version = s.version + 1 => guest'[r].config = s.config \/ Crossed(q)'
  BY <1>2, <1>4, <1>6, <1>7, <1>8
<1> QED
  BY <1>1, <1>5, <1>9 DEF Steady

LEMMA BornKept ==
  ASSUME Born, RowsOnce, TasksOnce PROVE Born'
<1>1. \A j \in Jobs : j \in Rows
  BY DEF Rows
<1> QED
  BY <1>1 DEF Born, RowsOnce, TasksOnce

(* A step that only moves a task on. *)
LEMMA TaskMoves ==
  ASSUME Sane, Sane', Counted, NEW j \in Jobs, UNCHANGED <<guest, request>>,
         \A i \in Jobs : i # j => job'[i] = job[i],
         job[j].phase \notin Ended, Exists(j) => job'[j].op = job[j].op /\ job'[j].phase # "checked",
         job'[j].op \in Ops
  PROVE  Counted'
<1>1. VersionsCount /\ RowsOnce
  BY NothingCounts
<1>2. TasksOnce
  BY DEF TasksOnce, Counted, Born
<1>3. \A q \in Requests : Fresh(q)' /\ Steady(q)'
  BY <1>1, <1>2, FreshKept, SteadyKept DEF Counted, OthersKeep
<1>4. Offered' /\ Recorded'
  BY DEF Counted, Offered, Recorded
<1> QED
  BY <1>1, <1>2, <1>3, <1>4, BornKept DEF Counted

LEMMA EngineCounts ==
  ASSUME AllCounted, Sane, Sane', Counted, NEW j \in Jobs,
         Check(j) \/ Submit(j) \/ (\E phase \in {"queued", "failed"} : BreaksOff(j, phase))
           \/ \E outcome \in {"success", "error", "cancelled"} :
                job[j].phase \in Active /\ Ends(j, outcome)
  PROVE  Counted'
<1>1. j \in Rows
  BY DEF Rows
<1>2. CASE Check(j)
  <2>1. Asks(j)
    BY <1>2, CheckAsks DEF Sane
  <2>2. ~Exists(j)
    BY <1>1, <2>1 DEF Asks, Sane, Placed, Known
  <2> QED
    BY <2>1, <2>2, TaskMoves DEF Asks, Ended
<1>3. CASE Submit(j)
  <2>1. PICK phase \in {"queued", "refused"} : Phase(j, phase)
    BY <1>3 DEF Submit
  <2>2. job[j].phase = "checked" /\ UNCHANGED <<guest, request>>
    BY <1>3 DEF Submit
  <2>3. phase \in Phases
    BY DEF Phases, Active
  <2> QED
    BY <2>1, <2>2, <2>3, PhaseStep, TaskMoves DEF Sane, Counted, Offered, Ended
<1>4. ASSUME NEW phase \in {"queued", "failed"}, BreaksOff(j, phase) PROVE Counted'
  <2>1. job[j].phase \in Active /\ UNCHANGED <<guest, request>>
    BY <1>4 DEF BreaksOff
  <2> QED
    BY <1>4, <2>1, BreaksOffStep, TaskMoves DEF Sane, Counted, Offered, Ended, Active
<1>5. ASSUME NEW outcome \in {"success", "error", "cancelled"},
             job[j].phase \in Active, Ends(j, outcome)
      PROVE  Counted'
  <2>1. Phase(j, outcome) /\ UNCHANGED <<guest, request>> /\ outcome \in Phases
    BY <1>5 DEF Ends, Phases
  <2> QED
    BY <1>5, <2>1, PhaseStep, TaskMoves DEF Sane, Counted, Offered, Ended, Active
<1> QED
  BY <1>2, <1>3, <1>4, <1>5

(* What a direct write does to the calls: one begins, goes on, or is over  *)
(* in a single statement.                                                  *)
Begins(q) ==
  /\ request[q].phase = "idle" /\ request'[q].phase = "read" /\ UNCHANGED guest
  /\ \E op \in Ops, r \in Rows :
       /\ Exists(r) /\ request'[q].op = op
       /\ request'[q].row = r /\ request'[q].seen = guest[r] /\ request'[q].ended = Complete

GoesOn(q) ==
  /\ request[q].phase \in {"read", "half"} /\ request'[q].phase \in Answered \cup {"half"}
  /\ request'[q].op = request[q].op /\ request'[q].row = request[q].row
  /\ request'[q].seen = request[q].seen /\ request'[q].ended = request[q].ended

Swept(q) ==
  request[q].phase = "idle" /\ request'[q].phase = "done" /\ request'[q].ended = request[q].ended

LEMMA DirectRequests ==
  ASSUME Sane, NEW q \in Requests, Directly(q)
  PROVE  /\ \A p \in Requests : p # q => request'[p] = request[p]
         /\ Begins(q) \/ GoesOn(q) \/ Swept(q)
<1>1. request \in [Requests -> RequestRecords]
  BY DEF Sane, Typed
<1>2. CASE Read(q)
  <2>1. PICK op \in Ops \cap Savers, r \in Rows, k \in Keys, v \in Values \cup {None} :
          /\ request[q].phase = "idle" /\ Offers(r, op) /\ UNCHANGED guest
          /\ request' = [request EXCEPT ![q] = [op |-> op, row |-> r, key |-> k, value |-> v,
                                                seen |-> guest[r], ended |-> Complete,
                                                phase |-> "read"]]
    BY <1>2 DEF Read
  <2> QED
    BY <1>1, <2>1 DEF Offers, Begins
<1>3. CASE Respond(q) \/ Abort(q)
  <2>1. PICK phase \in Answered \cup {"half"} : request' = [request EXCEPT ![q].phase = phase]
    BY <1>3 DEF Respond, Abort, PutState, PutConfig, SaveConfig, ResizeState, SaveState,
                ConvertColumn, ConvertState, Turns, Answered
  <2>2. request[q].phase \in {"read", "half"}
    BY <1>3 DEF Respond, Abort, PutState, PutConfig, SaveConfig, ResizeState, SaveState,
                ConvertColumn, ConvertState, Pending
  <2>3. request[q] \in RequestRecords
    BY <1>1
  <2>4. PICK new : new = [request[q] EXCEPT !.phase = phase]
    OBVIOUS
  <2>5. /\ new.phase = phase /\ new.op = request[q].op /\ new.row = request[q].row
        /\ new.seen = request[q].seen /\ new.ended = request[q].ended
    BY <2>3, <2>4 DEF RequestRecords
  <2>6. request' = [request EXCEPT ![q] = new]
    BY <2>1, <2>4
  <2> QED
    BY <1>1, <2>2, <2>5, <2>6 DEF GoesOn
<1>4. CASE SetStatuses(q) \/ MigrateAll(q)
  <2>1. PICK op : request[q].phase = "idle"
                  /\ request' = [request EXCEPT ![q].op = op, ![q].phase = "done"]
    BY <1>4 DEF SetStatuses, MigrateAll, Sweeps
  <2>2. request[q] \in RequestRecords
    BY <1>1
  <2>3. PICK new : new = [[request[q] EXCEPT !.op = op] EXCEPT !.phase = "done"]
    OBVIOUS
  <2>4. new.phase = "done" /\ new.ended = request[q].ended
    BY <2>2, <2>3 DEF RequestRecords
  <2>5. request' = [request EXCEPT ![q] = new]
    BY <2>1, <2>3
  <2> QED
    BY <1>1, <2>1, <2>4, <2>5 DEF Swept
<1> QED
  BY <1>2, <1>3, <1>4 DEF Directly

(* The step at which a PUT is accepted, and the one that completes it. *)
LEMMA PutAccepted ==
  ASSUME Sane, NEW q \in Requests, Directly(q), Accepts(q)
  PROVE  \E r \in Rows, s \in Guest :
           /\ r = request[q].row /\ s = request[q].seen
           /\ Exists(r) /\ Exists(r)' /\ guest[r].version = s.version
           /\ guest'[r].version = s.version + 1 /\ guest'[r].status = s.status
           /\ guest'[r].cfg = Change(q, s.cfg) /\ guest'[r].config = guest[r].config
<1>1. request[q].op = "put" /\ request[q].phase = "read" /\ request'[q].phase = "half"
  BY DEF Accepts, Pending
<1>2. ASSUME NEW phase, request' = [request EXCEPT ![q].phase = phase] PROVE phase = "half"
  <2>1. request[q] \in RequestRecords /\ request \in [Requests -> RequestRecords]
    BY DEF Sane, Typed
  <2>2. [request[q] EXCEPT !.phase = phase].phase = phase
    BY <2>1 DEF RequestRecords
  <2> QED
    BY <1>1, <1>2, <2>1, <2>2
<1>3. PutState(q)
  <2>1. ~Read(q) /\ ~SetStatuses(q) /\ ~MigrateAll(q)
    BY <1>1 DEF Read, SetStatuses, MigrateAll, Sweeps
  <2>2. ~Abort(q)
    BY <1>2 DEF Abort
  <2> QED
    BY <1>1, <2>1, <2>2
       DEF Directly, Respond, PutConfig, SaveConfig, ResizeState, SaveState, ConvertColumn,
           ConvertState, Pending
<1>4. PICK r \in Rows, s \in Guest : r = request[q].row /\ s = request[q].seen
  BY <1>1 DEF Sane, Typed, RequestShaped
<1>5. /\ Exists(r) /\ guest[r].version = s.version
      /\ Store(r, Row(r, s.status, Change(q, s.cfg), guest[r].config, 1))
  BY <1>2, <1>3, <1>4 DEF PutState, Turns
<1>6. PICK row : row = Row(r, s.status, Change(q, s.cfg), guest[r].config, 1)
  OBVIOUS
<1>7. guest'[r] = row
  BY <1>5, <1>6 DEF Store, Sane, Typed, Tables
<1>8. Exists(r)'
  <2>1. Calls
    BY DirectCalls DEF Sane
  <2> QED
    BY <1>5, <2>1 DEF Calls, KeepsGuests
<1>9. /\ row.version = guest[r].version + 1 /\ row.status = s.status
      /\ row.cfg = Change(q, s.cfg) /\ row.config = guest[r].config
  BY <1>6 DEF Row
<1> QED
  BY <1>4, <1>5, <1>7, <1>8, <1>9

LEMMA PutCompleted ==
  ASSUME Sane, NEW q \in Requests, Directly(q), Completes(q), Exists(request[q].row)
  PROVE  LET r == request[q].row
             s == request[q].seen
         IN  r \in Rows /\ s \in Guest /\ guest'[r].config = Change(q, s.config)
<1>1. request[q].op = "put" /\ request[q].phase = "half" /\ request'[q].phase = "done"
  BY DEF Completes, Pending
<1>2. PutConfig(q)
  <2>1. ~Read(q) /\ ~SetStatuses(q) /\ ~MigrateAll(q)
    BY <1>1 DEF Read, SetStatuses, MigrateAll, Sweeps
  <2>2. ~Abort(q)
    BY <1>1 DEF Abort, Sane, Typed, RequestRecords
  <2> QED
    BY <1>1, <2>1, <2>2
       DEF Directly, Respond, PutState, SaveConfig, ResizeState, SaveState, ConvertColumn,
           ConvertState, Pending
<1>3. PICK r \in Rows, s \in Guest : r = request[q].row /\ s = request[q].seen
  BY <1>1 DEF Sane, Typed, RequestShaped
<1>4. PICK row : row = Row(r, guest[r].status, guest[r].cfg, Change(q, s.config), 0)
  OBVIOUS
<1>5. guest'[r] = row
  BY <1>2, <1>3, <1>4 DEF PutConfig, Store, Sane, Typed, Tables
<1> QED
  BY <1>3, <1>4, <1>5 DEF Row

LEMMA DirectSteady ==
  ASSUME Sane, Counted, NEW q \in Requests, Directly(q)
  PROVE  Steady(q)'
<1>1. CASE Begins(q)
  BY <1>1 DEF Begins, Steady, Exists
<1>2. CASE GoesOn(q)
  <2> SUFFICES ASSUME request[q].op = "put", request'[q].phase = "half" PROVE Steady(q)'
    BY <1>2 DEF GoesOn, Steady, Answered
  <2>1. request[q].phase = "read"
    <3> SUFFICES ASSUME request[q].phase = "half" PROVE FALSE
      BY <1>2 DEF GoesOn
    <3>1. Abort(q) \/ PutConfig(q)
      BY DEF Directly, Read, SetStatuses, MigrateAll, Sweeps, Respond, PutState, SaveConfig,
             ResizeState, SaveState, ConvertColumn, ConvertState, Pending
    <3> QED
      BY <3>1 DEF Abort, PutConfig, Turns, Sane, Typed, RequestRecords
  <2>2. Accepts(q)
    BY <2>1 DEF Accepts, Pending
  <2>3. PICK r \in Rows, s \in Guest :
          /\ r = request[q].row /\ s = request[q].seen
          /\ Exists(r) /\ Exists(r)' /\ guest[r].version = s.version
          /\ guest'[r].version = s.version + 1 /\ guest'[r].config = guest[r].config
    BY <2>2, PutAccepted
  <2>4. guest[r].config = s.config \/ Crossed(q)
    BY <2>1, <2>3 DEF Counted, Steady
  <2>5. OthersKeep(q)
    BY DirectRequests DEF OthersKeep
  <2>6. Crossed(q) => Crossed(q)'
    BY <1>2, <2>5, OverlapKept DEF GoesOn
  <2>7. s.version \in Nat
    BY DEF Guest
  <2> QED
    BY <1>2, <2>3, <2>4, <2>6, <2>7 DEF GoesOn, Steady
<1>3. CASE Swept(q)
  BY <1>3 DEF Swept, Steady
<1> QED
  BY <1>1, <1>2, <1>3, DirectRequests

LEMMA DirectRecorded ==
  ASSUME Sane, Recorded, NEW q \in Requests, Directly(q)
  PROVE  Recorded'
<1> SUFFICES ASSUME NEW c \in Requests, NEW p \in request'[c].ended
             PROVE  p \in Requests /\ request'[p].phase \in Answered
  BY DEF Recorded
<1>1. request[q].phase \notin Answered
  BY DirectRequests DEF Begins, GoesOn, Swept, Answered
<1>2. p \in request[c].ended \/ p \in Complete
  BY DirectRequests DEF Begins, GoesOn, Swept
<1>3. p \in Requests /\ request[p].phase \in Answered
  BY <1>2 DEF Recorded, Complete, Answered
<1> QED
  BY <1>1, <1>3, DirectRequests

LEMMA DirectCounted ==
  ASSUME AllCounted, Sane, Sane', Counted, NEW q \in Requests, Directly(q)
  PROVE  Counted'
<1>1. VersionsCount /\ \A s \in Rows : Exists(s)' <=> Exists(s)
  BY DirectCounts DEF Counted
<1>2. UNCHANGED job
  BY DirectCalls DEF Calls, Sane
<1>3. RowsOnce /\ TasksOnce
  BY <1>1, <1>2 DEF RowsOnce, TasksOnce, Counted, Born, Rows
<1>4. Fresh(q)'
  <2> SUFFICES ASSUME request'[q].phase = "read" PROVE Fresh(q)'
    BY DEF Fresh
  <2>1. PICK r \in Rows : /\ request'[q].row = r /\ request'[q].seen = guest[r]
                          /\ Exists(r) /\ UNCHANGED guest
    BY DirectRequests DEF Begins, GoesOn, Swept, Answered
  <2>2. guest[r].version \in Nat
    BY <2>1, KeyType DEF Guest, Sane
  <2> QED
    BY <2>1, <2>2 DEF Fresh, Exists
<1>5. \A p \in Requests : Fresh(p)'
  BY <1>1, <1>3, <1>4, DirectRequests, FreshKept DEF Counted
<1>6. ASSUME NEW p \in Requests PROVE Steady(p)'
  <2>1. p # q => OthersKeep(p)
    BY DirectRequests DEF OthersKeep, GoesOn, Begins, Swept, Answered
  <2> QED
    BY <1>1, <1>3, <2>1, DirectRequests, DirectSteady, SteadyKept DEF Counted
<1>7. Offered' /\ Recorded'
  BY <1>2, DirectRequests, DirectRecorded DEF Counted, Offered, Begins, GoesOn, Swept, Answered
<1> QED
  BY <1>3, <1>5, <1>6, <1>7, BornKept DEF Counted

LEMMA NextCounted ==
  ASSUME AllCounted, Sane, Counted, [Next]_vars PROVE Counted'
<1>1. Sane'
  BY NextSane
<1>2. CASE UNCHANGED vars
  BY <1>2 DEF vars, Counted, Born, Offered, Recorded, Fresh, Steady, Crossed, Exists
<1>3. ASSUME NEW j \in Jobs, Handle(j) PROVE Counted'
  <2>1. VersionsCount /\ RowsOnce /\ TasksOnce
    BY <1>3, HandleCounts, HandleOnce DEF Counted
  <2>2. Proceeds(j) /\ UNCHANGED request /\ job[j].phase \in Active
    BY <1>3, HandleHandles DEF Handles, Sane
  <2>3. \A q \in Requests : Fresh(q)' /\ Steady(q)'
    BY <1>1, <2>1, <2>2, FreshKept, SteadyKept DEF Counted, OthersKeep
  <2>4. Offered' /\ Recorded'
    BY <2>2 DEF Counted, Offered, Recorded, Proceeds, Active
  <2> QED
    BY <2>1, <2>3, <2>4, BornKept DEF Counted
<1>4. ASSUME NEW q \in Requests, Directly(q) PROVE Counted'
  BY <1>1, <1>4, DirectCounted
<1>5. CASE Next
  BY <1>1, <1>2, <1>3, <1>4, <1>5, NextKinds, EngineCounts
<1> QED
  BY <1>2, <1>5

LEMMA InitCounted == Init => Counted
<1> SUFFICES ASSUME Init PROVE Counted
  OBVIOUS
<1>1. \A j \in Jobs : ~Exists(j) /\ job[j].phase = "idle"
  BY NamesAssumption DEF Init, Exists, Idle, Rows
<1>2. \A q \in Requests : request[q].phase = "idle" /\ request[q].ended = {}
  BY DEF Init
<1> QED
  BY <1>1, <1>2 DEF Counted, Born, Offered, Recorded, Fresh, Steady

(* Only a direct call changes what calls remember. *)
LEMMA DirectStep ==
  ASSUME Sane, [Next]_vars, NEW q \in Requests, request'[q] # request[q]
  PROVE  Directly(q)
<1>1. ~UNCHANGED request
  OBVIOUS
<1>2. \A j \in Jobs : ~Check(j) /\ ~Submit(j) /\ ~Handle(j)
                      /\ \A phase \in {"queued", "failed"} : ~BreaksOff(j, phase)
                      /\ \A outcome \in {"success", "error", "cancelled"} : ~Ends(j, outcome)
  BY <1>1, CheckAsks, HandleHandles DEF Asks, Handles, Submit, BreaksOff, Ends, Sane
<1>3. PICK p \in Requests : Directly(p)
  BY <1>1, <1>2, NextKinds DEF vars
<1> QED
  BY <1>3, DirectRequests

(* A PUT that is accepted has read the row that it changes. *)
LEMMA AcceptsKeeps ==
  ASSUME Sane, Counted, [Next]_vars, NEW q \in Requests
  PROVE  StateKept(q)
<1> SUFFICES ASSUME Accepts(q) PROVE StateKept(q)
  BY DEF StateKept
<1>1. request[q].phase = "read" /\ request'[q].phase = "half"
  BY DEF Accepts, Pending
<1>2. Directly(q)
  BY <1>1, DirectStep
<1>3. PICK r \in Rows, s \in Guest :
        /\ r = request[q].row /\ s = request[q].seen
        /\ Exists(r) /\ guest[r].version = s.version
        /\ guest'[r].status = s.status /\ guest'[r].cfg = Change(q, s.cfg)
  BY <1>2, PutAccepted
<1>4. guest[r].status = s.status /\ guest[r].cfg = s.cfg
  BY <1>1, <1>3 DEF Counted, Fresh
<1>5. \A k \in Keys \ {request[q].key} : Change(q, s.cfg)[k] = s.cfg[k]
  BY DEF Change, Guest, Configs
<1> QED
  BY <1>3, <1>4, <1>5 DEF StateKept

(* And so has its column, when it completes, or someone overlaps it. *)
LEMMA CompletesKeeps ==
  ASSUME Sane, Counted, [Next]_vars, NEW q \in Requests
  PROVE  ColumnKept(q)
<1> SUFFICES ASSUME Completes(q), Exists(request[q].row),
                    guest[request[q].row].version = request[q].seen.version + 1
             PROVE  ColumnKept(q)
  BY DEF ColumnKept
<1>1. request[q].op = "put" /\ request[q].phase = "half" /\ request'[q].phase = "done"
  BY DEF Completes, Pending
<1>2. Directly(q)
  BY <1>1, DirectStep
<1>3. PICK r \in Rows, s \in Guest : r = request[q].row /\ s = request[q].seen
  BY <1>2, PutCompleted
<1>4. guest'[r].config = Change(q, s.config)
  BY <1>2, <1>3, PutCompleted
<1>5. guest[r].config = s.config \/ Crossed(q)
  BY <1>1, <1>3 DEF Counted, Steady
<1>6. \A k \in Keys \ {request[q].key} : Change(q, s.config)[k] = s.config[k]
  BY DEF Change, Guest, Configs
<1> QED
  BY <1>3, <1>4, <1>5, <1>6 DEF ColumnKept

LEMMA CountedAlways == ASSUME AllCounted PROVE Spec => [](Sane /\ Counted)
<1>1. Init => Sane /\ Counted
  BY InitSane, InitCounted
<1>2. Sane /\ Counted /\ [Next]_vars => (Sane /\ Counted)'
  BY NextSane, NextCounted
<1> QED
  BY <1>1, <1>2, PTL DEF Spec

(***************************************************************************)
(* An accepted PUT changes the option it names and nothing else, as long   *)
(* as the only other writers are those that count versions: UPDATE ...     *)
(* WHERE version=$2 (app/handlers/qemu.py); its second statement, unless   *)
(* another writer was counted in between or a call that writes the column  *)
(* apart from the version overlaps it.                                     *)
(***************************************************************************)
THEOREM GuestPuts == ASSUME AllCounted PROVE Spec => PutKeepsTheRest
<1>1. Sane /\ Counted /\ [Next]_vars => [\A q \in Requests : StateKept(q) /\ ColumnKept(q)]_vars
  BY AcceptsKeeps, CompletesKeeps
<1> QED
  BY <1>1, CountedAlways, PTL DEF Spec, PutKeepsTheRest
=============================================================================
