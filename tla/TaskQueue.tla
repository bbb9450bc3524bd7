------------------------------ MODULE TaskQueue ------------------------------
(***************************************************************************)
(* The durable task engine: the tables tasks and resource_locks, the       *)
(* repository that writes them (app/tasks/repository.py) and the worker    *)
(* loop of every server process (app/tasks/worker.py).                     *)
(*                                                                         *)
(* The tables survive a crash; the executions of a process (its asyncio    *)
(* tasks) do not.  An execution is named by the pair <<task, attempt>>,    *)
(* because every claim increments the row's attempt and starts at most one.*)
(* Each action is one transaction, or the local step between two awaits.   *)
(***************************************************************************)
EXTENDS Naturals, FiniteSets

CONSTANTS
    Tasks,            \* the calls of TaskRepository.create, one uuid4 each
    ResourceKeys,     \* values of resource_key
    IdempotencyKeys,  \* values of idempotency_key
    None,             \* Python's None, SQL's NULL
    Requests,         \* the arguments a call may carry, see Request
    Procs,            \* server processes
    WorkerIds,        \* values of worker_id
    workerId,         \* the worker_id each process runs under
    Concurrency,      \* TaskWorker.concurrency
    FaultKinds,       \* which of the faults below may happen
    MaxFaults         \* bound: faults in one behaviour

(***************************************************************************)
(* handled: the task type is a key of the worker's handler table.          *)
(***************************************************************************)
Request == [key : ResourceKeys \cup {None},
            idem : IdempotencyKeys \cup {None},
            handled : BOOLEAN]

ASSUME RequestsAssumption == Requests \subseteq Request
ASSUME NoneAssumption     == None \notin Tasks \cup WorkerIds \cup IdempotencyKeys
                                           \cup ResourceKeys \cup Procs
ASSUME WorkerIdAssumption == workerId \in [Procs -> WorkerIds]
ASSUME BoundsAssumption   == Concurrency \in Nat \ {0} /\ MaxFaults \in Nat
ASSUME FaultsAssumption   == FaultKinds \subseteq {"crash", "stop", "stall", "db"}

Active   == {"queued", "running"}
Terminal == {"success", "error", "cancelled"}
Status   == {"absent"} \cup Active \cup Terminal

(***************************************************************************)
(* Every attempt after the first costs a fault (invariant RetriesAreFaults),*)
(* so attempts never outgrow this range.                                   *)
(***************************************************************************)
Attempts   == 1 .. MaxFaults + 1
Executions == Tasks \X Attempts

VARIABLES
    call,             \* progress of each create call
    req,              \* the arguments it was made with
    status,           \* column tasks.status ("absent": no row)
    owner,            \* column tasks.worker_id
    lease,            \* column tasks.lease_expires_at against now()
    cancelRequested,  \* column tasks.cancel_requested
    attempt,          \* column tasks.attempt
    locks,            \* table resource_locks: key -> task_id
    proc,             \* the processes
    exec,             \* the executions, volatile
    faults            \* how many faults have happened

rows == <<status, owner, lease, cancelRequested, attempt>>
vars == <<call, req, rows, locks, proc, exec, faults>>

(***************************************************************************)
(* Where TaskWorker._execute stands: "claimed" before the handler lookup,  *)
(* "poll" in the polling loop, "succeed", "cancel", "fail" and "reject"    *)
(* about to call finish with success, cancelled, error, and error for an   *)
(* unsupported type.                                                       *)
(***************************************************************************)
Finishing == {"succeed", "cancel", "fail", "reject"}
Pc        == {"none", "claimed", "poll", "done"} \cup Finishing

HandlerState == {"none", "running", "ok", "raised", "cancelled"}

Execution == [proc      : Procs \cup {None},
              pc        : Pc,
              handler   : HandlerState,
              heartbeat : BOOLEAN]

Unstarted == [proc |-> None, pc |-> "none", handler |-> "none", heartbeat |-> FALSE]

TypeOK ==
    /\ call \in [Tasks -> {"idle", "selected", "created", "existing", "conflict"}]
    /\ req \in [Tasks -> Request]
    /\ status \in [Tasks -> Status]
    /\ owner \in [Tasks -> WorkerIds \cup {None}]
    /\ lease \in [Tasks -> {"null", "live", "expired"}]
    /\ cancelRequested \in [Tasks -> BOOLEAN]
    /\ attempt \in [Tasks -> 0 .. MaxFaults + 1]
    /\ locks \in [ResourceKeys -> Tasks \cup {None}]
    /\ proc \in [Procs -> {"up", "stopping", "down"}]
    /\ exec \in [Executions -> Execution]
    /\ faults \in 0 .. MaxFaults

NoRequest == [key |-> None, idem |-> None, handled |-> FALSE]

Init ==
    /\ call = [t \in Tasks |-> "idle"]
    /\ req = [t \in Tasks |-> NoRequest]
    /\ status = [t \in Tasks |-> "absent"]
    /\ owner = [t \in Tasks |-> None]
    /\ lease = [t \in Tasks |-> "null"]
    /\ cancelRequested = [t \in Tasks |-> FALSE]
    /\ attempt = [t \in Tasks |-> 0]
    /\ locks = [k \in ResourceKeys |-> None]
    /\ proc = [p \in Procs |-> "up"]
    /\ exec = [e \in Executions |-> Unstarted]
    /\ faults = 0

-----------------------------------------------------------------------------
(***************************************************************************)
(* TaskRepository.create: the SELECT by idempotency key, then the two      *)
(* INSERTs, whose unique constraints decide between concurrent calls.      *)
(***************************************************************************)
KeyTaken(r) == r.idem # None /\ \E u \in Tasks : status[u] # "absent"
                                              /\ req[u].idem = r.idem
Locked(r)   == r.key # None /\ locks[r.key] # None

CreateSelect(t) ==
    /\ call[t] = "idle"
    /\ \E r \in Requests :
          /\ req' = [req EXCEPT ![t] = r]
          /\ call' = [call EXCEPT ![t] = IF KeyTaken(r) THEN "existing" ELSE "selected"]
    /\ UNCHANGED <<rows, locks, proc, exec, faults>>

\* Bug: no UNIQUE constraint on tasks.idempotency_key.
CreateInsertDuplicate(t) ==
    /\ call[t] = "selected" /\ ~Locked(req[t])
    /\ call' = [call EXCEPT ![t] = "created"]
    /\ status' = [status EXCEPT ![t] = "queued"]
    /\ locks' = IF req[t].key = None THEN locks ELSE [locks EXCEPT ![req[t].key] = t]
    /\ UNCHANGED <<req, owner, lease, cancelRequested, attempt, proc, exec, faults>>

CreateInsert(t) ==
    /\ call[t] = "selected"
    /\ ~KeyTaken(req[t])
    /\ ~Locked(req[t])
    /\ call' = [call EXCEPT ![t] = "created"]
    /\ status' = [status EXCEPT ![t] = "queued"]
    /\ locks' = IF req[t].key = None THEN locks
                                     ELSE [locks EXCEPT ![req[t].key] = t]
    /\ UNCHANGED <<req, owner, lease, cancelRequested, attempt, proc, exec, faults>>

CreateConflict(t) ==
    /\ call[t] = "selected"
    /\ KeyTaken(req[t]) \/ Locked(req[t])
    /\ call' = [call EXCEPT ![t] = "conflict"]
    /\ UNCHANGED <<req, rows, locks, proc, exec, faults>>

(***************************************************************************)
(* TaskRepository.request_cancel; on a terminal row it changes nothing.    *)
(***************************************************************************)
RequestCancel(t) ==
    /\ status[t] \in Active
    /\ ~cancelRequested[t]
    /\ cancelRequested' = [cancelRequested EXCEPT ![t] = TRUE]
    /\ UNCHANGED <<call, req, status, owner, lease, attempt, locks, proc, exec, faults>>

-----------------------------------------------------------------------------
(***************************************************************************)
(* Faults draw on the budget MaxFaults.                                    *)
(***************************************************************************)
Fault(kind) ==
    /\ kind \in FaultKinds
    /\ faults < MaxFaults
    /\ faults' = faults + 1

Live(e)     == exec[e].pc \notin {"none", "done"}
Running(p)  == {e \in Executions : Live(e) /\ exec[e].proc = p}

(***************************************************************************)
(* TaskRepository.claim from TaskWorker.run.  ORDER BY created_at prefers  *)
(* the oldest candidate, but SKIP LOCKED passes over every row another     *)
(* transaction is touching, so any candidate can be the one returned.      *)
(***************************************************************************)
\* Bug: the lease is not consulted.
ClaimableLeased(t) == status[t] \in Active

\* Bug: expired leases are never picked up again.
ClaimableOnce(t) == status[t] = "queued"

Claimable(t) == status[t] = "queued" \/ (status[t] = "running" /\ lease[t] = "expired")

\* Bug: no concurrency limit.
CanClaimUnbounded(p, t) == proc[p] = "up" /\ Claimable(t) /\ attempt[t] <= MaxFaults

CanClaim(p, t) ==
    /\ proc[p] = "up"
    /\ Cardinality(Running(p)) < Concurrency
    /\ Claimable(t)
    /\ attempt[t] <= MaxFaults

Attempt(p, pc) == [proc |-> p, pc |-> pc, handler |-> "none", heartbeat |-> FALSE]

ClaimRow(p, t) ==
    /\ status' = [status EXCEPT ![t] = "running"]
    /\ owner' = [owner EXCEPT ![t] = workerId[p]]
    /\ lease' = [lease EXCEPT ![t] = "live"]
    /\ attempt' = [attempt EXCEPT ![t] = @ + 1]
    /\ UNCHANGED <<call, req, cancelRequested, locks, proc>>

Claim(p, t) ==
    /\ CanClaim(p, t)
    /\ ClaimRow(p, t)
    /\ exec' = [exec EXCEPT ![<<t, attempt[t] + 1>>] = Attempt(p, "claimed")]
    /\ UNCHANGED faults

(***************************************************************************)
(* The claim commits, but its answer is lost: run() logs the exception and *)
(* polls again, and nobody executes the attempt.                           *)
(***************************************************************************)
ClaimLost(p, t) ==
    /\ CanClaim(p, t)
    /\ Fault("db")
    /\ ClaimRow(p, t)
    /\ exec' = [exec EXCEPT ![<<t, attempt[t] + 1>>] = Attempt(p, "done")]

-----------------------------------------------------------------------------
(***************************************************************************)
(* TaskWorker._execute.                                                    *)
(***************************************************************************)
Step(e, pc, handler, heartbeat) ==
    exec' = [exec EXCEPT ![e] = [proc |-> exec[e].proc, pc |-> pc,
                                 handler |-> handler, heartbeat |-> heartbeat]]

Cancelled(handler) == IF handler = "running" THEN "cancelled" ELSE handler

\* Bug: the handler starts without looking at cancel_requested.
BeginBlindly(e) ==
    /\ exec[e].pc = "claimed"
    /\ \/ ~req[e[1]].handled /\ Step(e, "reject", "none", FALSE)
       \/ req[e[1]].handled /\ Step(e, "poll", "running", TRUE)
    /\ UNCHANGED <<call, req, rows, locks, proc, faults>>

Begin(e) ==
    /\ exec[e].pc = "claimed"
    /\ \/ ~req[e[1]].handled /\ Step(e, "reject", "none", FALSE)
       \/ req[e[1]].handled /\ cancelRequested[e[1]] /\ Step(e, "cancel", "none", FALSE)
       \/ req[e[1]].handled /\ ~cancelRequested[e[1]] /\ Step(e, "poll", "running", TRUE)
    /\ UNCHANGED <<call, req, rows, locks, proc, faults>>

(***************************************************************************)
(* The handler returns or raises; it may belong to an execution that has   *)
(* already left the loop without it (see PollError).                       *)
(***************************************************************************)
HandlerReturn(e) ==
    /\ exec[e].handler = "running"
    /\ \E result \in {"ok", "raised"} : exec' = [exec EXCEPT ![e].handler = result]
    /\ UNCHANGED <<call, req, rows, locks, proc, faults>>

(***************************************************************************)
(* The loop test sees execution.done().  The last get may have answered    *)
(* before a cancellation was requested, so the flag is not consulted here. *)
(***************************************************************************)
\* Bug: the handler's exception is not raised again by the await.
LoopExitSwallowing(e) ==
    /\ exec[e].pc = "poll" /\ exec[e].handler \in {"ok", "raised"}
    /\ Step(e, "succeed", exec[e].handler, FALSE)
    /\ UNCHANGED <<call, req, rows, locks, proc, faults>>

LoopExit(e) ==
    /\ exec[e].pc = "poll"
    /\ exec[e].handler \in {"ok", "raised"}
    /\ Step(e, IF exec[e].handler = "ok" THEN "succeed" ELSE "fail", exec[e].handler, FALSE)
    /\ UNCHANGED <<call, req, rows, locks, proc, faults>>

(***************************************************************************)
(* The loop's get sees cancel_requested: execution.cancel() stops a        *)
(* running handler and does nothing to one that has returned meanwhile.    *)
(***************************************************************************)
PollCancel(e) ==
    /\ exec[e].pc = "poll"
    /\ cancelRequested[e[1]]
    /\ Step(e, "cancel", Cancelled(exec[e].handler), FALSE)
    /\ UNCHANGED <<call, req, rows, locks, proc, faults>>

(***************************************************************************)
(* A get of _execute raises.  Inside the loop the finally clause cancels   *)
(* the heartbeat and nothing cancels the handler.                          *)
(***************************************************************************)
PollError(e) ==
    /\ exec[e].pc = "poll" \/ (exec[e].pc = "claimed" /\ req[e[1]].handled)
    /\ Fault("db")
    /\ Step(e, "fail", exec[e].handler, FALSE)
    /\ UNCHANGED <<call, req, rows, locks, proc>>

-----------------------------------------------------------------------------
(***************************************************************************)
(* TaskRepository.heartbeat from TaskWorker._heartbeat, whose first        *)
(* exception ends it: no row affected, or a database error.                *)
(***************************************************************************)
\* Bug: no AND status='running'; no AND worker_id=$2.
OwnsEnded(e)  == owner[e[1]] = workerId[exec[e].proc]
OwnsOthers(e) == status[e[1]] = "running"

Owns(e) == status[e[1]] = "running" /\ owner[e[1]] = workerId[exec[e].proc]

Heartbeat(e) ==
    /\ exec[e].heartbeat
    /\ Owns(e)
    /\ lease' = [lease EXCEPT ![e[1]] = "live"]
    /\ UNCHANGED <<call, req, status, owner, cancelRequested, attempt, locks, proc, exec, faults>>

HeartbeatRejected(e) ==
    /\ exec[e].heartbeat
    /\ ~Owns(e)
    /\ exec' = [exec EXCEPT ![e].heartbeat = FALSE]
    /\ UNCHANGED <<call, req, rows, locks, proc, faults>>

HeartbeatError(e) ==
    /\ exec[e].heartbeat
    /\ Fault("db")
    /\ exec' = [exec EXCEPT ![e].heartbeat = FALSE]
    /\ UNCHANGED <<call, req, rows, locks, proc>>

-----------------------------------------------------------------------------
(***************************************************************************)
(* TaskRepository.finish from _execute.  A failed finish inside the try    *)
(* block is followed by finish(error); a failure of that one, or of the    *)
(* finish for an unsupported type, ends the execution.                     *)
(***************************************************************************)
Outcome == [succeed |-> "success", cancel |-> "cancelled", fail |-> "error", reject |-> "error"]

AfterFailedFinish(e) == IF exec[e].pc \in {"succeed", "cancel"} THEN "fail" ELSE "done"

\* Bug: the DELETE FROM resource_locks is missing.
FinishKeepingLock(e) ==
    /\ Owns(e)
    /\ status' = [status EXCEPT ![e[1]] = Outcome[exec[e].pc]]
    /\ lease' = [lease EXCEPT ![e[1]] = "null"]
    /\ UNCHANGED <<call, req, owner, cancelRequested, attempt, locks, proc>>

FinishRow(e) ==
    /\ Owns(e)
    /\ status' = [status EXCEPT ![e[1]] = Outcome[exec[e].pc]]
    /\ lease' = [lease EXCEPT ![e[1]] = "null"]
    /\ locks' = [k \in ResourceKeys |-> IF locks[k] = e[1] THEN None ELSE locks[k]]
    /\ UNCHANGED <<call, req, owner, cancelRequested, attempt, proc>>

Finish(e) ==
    /\ exec[e].pc \in Finishing
    /\ FinishRow(e)
    /\ exec' = [exec EXCEPT ![e].pc = "done"]
    /\ UNCHANGED faults

FinishRejected(e) ==
    /\ exec[e].pc \in Finishing
    /\ ~Owns(e)
    /\ exec' = [exec EXCEPT ![e].pc = AfterFailedFinish(e)]
    /\ UNCHANGED <<call, req, rows, locks, proc, faults>>

(***************************************************************************)
(* The transaction fails with a database error before or after its commit. *)
(***************************************************************************)
FinishError(e) ==
    /\ exec[e].pc \in Finishing
    /\ Fault("db")
    /\ \/ UNCHANGED <<call, req, rows, locks, proc>>
       \/ FinishRow(e)
    /\ exec' = [exec EXCEPT ![e].pc = AfterFailedFinish(e)]

-----------------------------------------------------------------------------
(***************************************************************************)
(* now() passes lease_expires_at.  While the owner still renews the lease  *)
(* every third of it, or is between two awaits of _execute, that takes a   *)
(* stall of the process or of the database longer than the lease.          *)
(***************************************************************************)
Guarded(t) == \E n \in Attempts :
                 /\ Live(<<t, n>>)
                 /\ Owns(<<t, n>>)
                 /\ exec[<<t, n>>].pc = "poll" => exec[<<t, n>>].heartbeat

Expire(t) ==
    /\ status[t] = "running"
    /\ lease[t] = "live"
    /\ lease' = [lease EXCEPT ![t] = "expired"]
    /\ UNCHANGED <<call, req, status, owner, cancelRequested, attempt, locks, proc, exec>>

LeaseExpire(t) == ~Guarded(t) /\ Expire(t) /\ UNCHANGED faults
Stall(t)       == Guarded(t) /\ Expire(t) /\ Fault("stall")

(***************************************************************************)
(* The process: killed, asked to stop (TaskWorker.stop, after which run()  *)
(* claims nothing more and gathers its executions), ended, started again.  *)
(***************************************************************************)
Kill(p) ==
    exec' = [e \in Executions |->
                IF exec[e].proc # p THEN exec[e]
                ELSE [proc |-> p, pc |-> "done",
                      handler |-> Cancelled(exec[e].handler), heartbeat |-> FALSE]]

Crash(p) ==
    /\ proc[p] # "down"
    /\ Fault("crash")
    /\ proc' = [proc EXCEPT ![p] = "down"]
    /\ Kill(p)
    /\ UNCHANGED <<call, req, rows, locks>>

Stop(p) ==
    /\ proc[p] = "up"
    /\ Fault("stop")
    /\ proc' = [proc EXCEPT ![p] = "stopping"]
    /\ UNCHANGED <<call, req, rows, locks, exec>>

Stopped(p) ==
    /\ proc[p] = "stopping"
    /\ Running(p) = {}
    /\ proc' = [proc EXCEPT ![p] = "down"]
    /\ Kill(p)
    /\ UNCHANGED <<call, req, rows, locks, faults>>

Restart(p) ==
    /\ proc[p] = "down"
    /\ proc' = [proc EXCEPT ![p] = "up"]
    /\ UNCHANGED <<call, req, rows, locks, exec, faults>>

-----------------------------------------------------------------------------
Api(t) == CreateSelect(t) \/ CreateInsert(t) \/ CreateConflict(t) \/ RequestCancel(t)

(***************************************************************************)
(* What the worker does of itself, and what its environment does to it.    *)
(***************************************************************************)
Execute(e)   == Begin(e) \/ LoopExit(e) \/ PollCancel(e) \/ Finish(e) \/ FinishRejected(e)
Disturb(e)   == PollError(e) \/ HeartbeatError(e) \/ FinishError(e)
Renew(e)     == Heartbeat(e) \/ HeartbeatRejected(e)

Next ==
    \/ \E t \in Tasks : Api(t) \/ LeaseExpire(t) \/ Stall(t)
    \/ \E p \in Procs, t \in Tasks : Claim(p, t) \/ ClaimLost(p, t)
    \/ \E e \in Executions : Execute(e) \/ HandlerReturn(e) \/ Renew(e) \/ Disturb(e)
    \/ \E p \in Procs : Crash(p) \/ Stop(p) \/ Stopped(p) \/ Restart(p)

Spec == Init /\ [][Next]_vars

(***************************************************************************)
(* The event loop runs every ready asyncio task, run() polls for ever, a   *)
(* handler ends (it only sleeps for a bounded simulated time), time        *)
(* passes, and the supervisor starts a dead process again.  Clients and    *)
(* faults owe nothing.                                                     *)
(***************************************************************************)
Fairness ==
    /\ \A t \in Tasks : WF_vars(LeaseExpire(t))
    /\ \A t \in Tasks : WF_vars(\E p \in Procs : Claim(p, t))
    /\ \A e \in Executions : WF_vars(Execute(e)) /\ WF_vars(HandlerReturn(e))
    /\ \A p \in Procs : WF_vars(Stopped(p)) /\ WF_vars(Restart(p))

FairSpec == Spec /\ Fairness
=============================================================================
