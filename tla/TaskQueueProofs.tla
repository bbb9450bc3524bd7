--------------------------- MODULE TaskQueueProofs ---------------------------
(***************************************************************************)
(* Proofs about the task engine, for any number of tasks, resources,       *)
(* processes, worker ids and faults.                                       *)
(***************************************************************************)
EXTENDS TaskQueueProperties, FiniteSetTheorems, TLAPS

LEMMA InitType == Init => TypeOK
  BY RequestsAssumption, BoundsAssumption
     DEF Init, TypeOK, Status, Request, NoRequest, Execution, HandlerState, Unstarted, Pc, Attempts,
         Executions

(***************************************************************************)
(* Every step of an execution leaves a well-formed execution behind.       *)
(***************************************************************************)
LEMMA ExecType ==
  ASSUME exec \in [Executions -> Execution], NEW e \in Executions,
         NEW pc \in Pc, NEW h \in HandlerState, NEW b \in BOOLEAN, Step(e, pc, h, b)
  PROVE  exec' \in [Executions -> Execution]
  BY DEF Step, Execution

LEMMA StepType == TypeOK /\ [Next]_vars => TypeOK'
<1> SUFFICES ASSUME TypeOK, [Next]_vars PROVE TypeOK'
  OBVIOUS
<1> USE RequestsAssumption, WorkerIdAssumption, BoundsAssumption
<1>1. ASSUME NEW t \in Tasks, Api(t) PROVE TypeOK'
  BY <1>1 DEF TypeOK, Api, CreateSelect, CreateInsert, CreateConflict, RequestCancel,
              rows, Status, Active, Terminal
<1>2. ASSUME NEW t \in Tasks, LeaseExpire(t) \/ Stall(t) PROVE TypeOK'
  BY <1>2 DEF TypeOK, LeaseExpire, Stall, Expire, Fault
<1>3. ASSUME NEW p \in Procs, NEW t \in Tasks, Claim(p, t) \/ ClaimLost(p, t) PROVE TypeOK'
  <2>1. <<t, attempt[t] + 1>> \in Executions
    BY <1>3 DEF TypeOK, Claim, ClaimLost, CanClaim, Executions, Attempts
  <2>2. exec' \in [Executions -> Execution]
    <3>1. Attempt(p, "claimed") \in Execution /\ Attempt(p, "done") \in Execution
      BY DEF Attempt, Execution, HandlerState, Pc
    <3> QED
      BY <1>3, <2>1, <3>1 DEF TypeOK, Claim, ClaimLost
  <2>3. attempt' \in [Tasks -> 0 .. MaxFaults + 1] /\ faults' \in 0 .. MaxFaults
    BY <1>3 DEF TypeOK, Claim, ClaimLost, ClaimRow, CanClaim, Fault
  <2> QED
    BY <1>3, <2>2, <2>3 DEF TypeOK, Claim, ClaimLost, ClaimRow, Status, Active
<1>4. ASSUME NEW e \in Executions, Execute(e) \/ HandlerReturn(e) \/ Renew(e) \/ Disturb(e)
      PROVE TypeOK'
  <2> e[1] \in Tasks
    BY DEF Executions
  <2>1. CASE Begin(e)
    BY <2>1, ExecType DEF TypeOK, Begin, rows, Pc, HandlerState, Finishing
  <2> exec[e].handler \in HandlerState /\ Cancelled(exec[e].handler) \in HandlerState
    BY DEF TypeOK, Execution, HandlerState, Cancelled
  <2>2. CASE LoopExit(e)
    BY <2>2, ExecType DEF TypeOK, LoopExit, rows, Pc, Finishing
  <2>3. CASE PollCancel(e)
    BY <2>3, ExecType DEF TypeOK, PollCancel, rows, Pc, Finishing
  <2>4. CASE PollError(e)
    <3>1. exec' \in [Executions -> Execution]
      BY <2>4, ExecType DEF TypeOK, PollError, Pc, Finishing
    <3> QED
      BY <2>4, <3>1 DEF TypeOK, PollError, rows, Fault
  <2>5. CASE HandlerReturn(e)
    BY <2>5 DEF TypeOK, HandlerReturn, rows, Execution, HandlerState
  <2>6. CASE Renew(e) \/ HeartbeatError(e)
    <3>1. CASE Heartbeat(e)
      BY <3>1 DEF TypeOK, Heartbeat
    <3>2. CASE HeartbeatRejected(e) \/ HeartbeatError(e)
      <4>1. exec' \in [Executions -> Execution]
        <5>1. [exec[e] EXCEPT !.heartbeat = FALSE] \in Execution
          BY DEF TypeOK, Execution
        <5> QED
          BY <3>2, <5>1 DEF TypeOK, HeartbeatRejected, HeartbeatError
      <4> QED
        BY <3>2, <4>1 DEF TypeOK, HeartbeatRejected, HeartbeatError, rows, Fault
    <3> QED
      BY <2>6, <3>1, <3>2 DEF Renew
  <2>7. ASSUME exec[e].pc \in Finishing, FinishRow(e)
        PROVE  /\ status' \in [Tasks -> Status]
               /\ lease' \in [Tasks -> {"null", "live", "expired"}]
               /\ locks' \in [ResourceKeys -> Tasks \cup {None}]
    BY <2>7 DEF TypeOK, FinishRow, Outcome, Finishing, Status, Terminal
  <2>8. CASE Finish(e) \/ FinishRejected(e) \/ FinishError(e)
    <3>1. exec' \in [Executions -> Execution]
      <4>1. /\ [exec[e] EXCEPT !.pc = "done"] \in Execution
            /\ [exec[e] EXCEPT !.pc = AfterFailedFinish(e)] \in Execution
        BY DEF TypeOK, AfterFailedFinish, Execution, Pc, Finishing
      <4> QED
        BY <2>8, <4>1 DEF TypeOK, Finish, FinishRejected, FinishError
    <3> QED
      BY <2>7, <2>8, <3>1 DEF TypeOK, Finish, FinishRejected, FinishError, FinishRow, rows,
                              Fault
  <2> QED
    BY <1>4, <2>1, <2>2, <2>3, <2>4, <2>5, <2>6, <2>8 DEF Execute, Disturb
<1>5. ASSUME NEW p \in Procs, Crash(p) \/ Stop(p) \/ Stopped(p) \/ Restart(p) PROVE TypeOK'
  <2>1. Kill(p) => exec' \in [Executions -> Execution]
    BY DEF TypeOK, Kill, Cancelled, Execution, HandlerState, Pc
  <2> QED
    BY <1>5, <2>1 DEF TypeOK, Crash, Stop, Stopped, Restart, rows, Fault
<1>6. CASE UNCHANGED vars
  BY <1>6 DEF TypeOK, vars, rows
<1> QED
  BY <1>1, <1>2, <1>3, <1>4, <1>5, <1>6 DEF Next

(***************************************************************************)
(* The tables and the executions always hold values of their types.        *)
(***************************************************************************)
THEOREM TypeCorrect == Spec => []TypeOK
  BY InitType, StepType, PTL DEF Spec

-----------------------------------------------------------------------------
(***************************************************************************)
(* The steps that write the tables.  Executions that only move inside a    *)
(* process, renewals, expiries and process events leave them alone.        *)
(***************************************************************************)
LEMMA TableStep ==
  ASSUME [Next]_vars
  PROVE  \/ \E t \in Tasks : Api(t)
         \/ \E p \in Procs, t \in Tasks : CanClaim(p, t) /\ ClaimRow(p, t)
         \/ \E e \in Executions : exec[e].pc \in Finishing /\ FinishRow(e)
         \/ UNCHANGED <<call, req, status, owner, cancelRequested, attempt, locks>>
<1>1. ASSUME NEW t \in Tasks, LeaseExpire(t) \/ Stall(t)
      PROVE  UNCHANGED <<call, req, status, owner, cancelRequested, attempt, locks>>
  BY <1>1 DEF LeaseExpire, Stall, Expire
<1>2. ASSUME NEW e \in Executions,
             Execute(e) \/ HandlerReturn(e) \/ Renew(e) \/ Disturb(e)
      PROVE  \/ exec[e].pc \in Finishing /\ FinishRow(e)
             \/ UNCHANGED <<call, req, status, owner, cancelRequested, attempt, locks>>
  BY <1>2 DEF Execute, HandlerReturn, Renew, Disturb, Begin, LoopExit, PollCancel, Finish,
              FinishRejected, Heartbeat, HeartbeatRejected, PollError, HeartbeatError,
              FinishError, rows
<1>3. ASSUME NEW p \in Procs, Crash(p) \/ Stop(p) \/ Stopped(p) \/ Restart(p)
      PROVE  UNCHANGED <<call, req, status, owner, cancelRequested, attempt, locks>>
  BY <1>3 DEF Crash, Stop, Stopped, Restart, rows
<1>4. UNCHANGED vars => UNCHANGED <<call, req, status, owner, cancelRequested, attempt, locks>>
  BY DEF vars, rows
<1> QED
  BY <1>1, <1>2, <1>3, <1>4 DEF Next, Claim, ClaimLost

(***************************************************************************)
(* The invariant of the tables alone.                                      *)
(***************************************************************************)
Tables == TypeOK /\ RowsMatchCalls /\ LocksMatchTasks /\ OneTaskPerIdempotencyKey

LEMMA TablesInit == Init => Tables
  BY InitType, NoneAssumption
     DEF Init, Tables, RowsMatchCalls, LocksMatchTasks, OneTaskPerIdempotencyKey, Active

LEMMA TablesStep == Tables /\ [Next]_vars => Tables'
<1> SUFFICES ASSUME Tables, [Next]_vars PROVE Tables'
  OBVIOUS
<1> USE NoneAssumption
<1>t. TypeOK'
  BY StepType DEF Tables
<1>1. ASSUME NEW t \in Tasks, Api(t) PROVE Tables'
  <2>1. CASE CreateSelect(t)
    <3>1. /\ status[t] = "absent" /\ UNCHANGED <<status, locks>>
          /\ \A u \in Tasks \ {t} : req'[u] = req[u] /\ call'[u] = call[u]
          /\ call'[t] = "existing" => KeyTaken(req'[t])
          /\ call'[t] # "created"
      BY <2>1 DEF Tables, TypeOK, RowsMatchCalls, CreateSelect, rows
    <3>2. LocksMatchTasks' /\ RowsMatchCalls'
      BY <3>1 DEF Tables, TypeOK, RowsMatchCalls, LocksMatchTasks, Active
    <3>3. \A r : KeyTaken(r) => KeyTaken(r)'
      BY <3>1 DEF KeyTaken
    <3>4. OneTaskPerIdempotencyKey'
      BY <3>1, <3>3 DEF Tables, TypeOK, OneTaskPerIdempotencyKey, KeyTaken
    <3> QED
      BY <1>t, <3>2, <3>4 DEF Tables
  <2>2. CASE CreateInsert(t)
    <3>1. /\ status[t] = "absent" /\ UNCHANGED req /\ call'[t] = "created"
          /\ status'[t] = "queued"
          /\ \A u \in Tasks \ {t} : status'[u] = status[u] /\ call'[u] = call[u]
          /\ ~KeyTaken(req[t]) /\ ~Locked(req[t])
      BY <2>2 DEF Tables, TypeOK, RowsMatchCalls, CreateInsert
    <3>2. RowsMatchCalls' /\ LocksMatchTasks'
      BY <2>2, <3>1 DEF Tables, TypeOK, RowsMatchCalls, LocksMatchTasks, Active, Locked,
                        CreateInsert, Request
    <3>3. OneTaskPerIdempotencyKey'
      BY <3>1 DEF Tables, TypeOK, OneTaskPerIdempotencyKey, KeyTaken
    <3> QED
      BY <1>t, <3>2, <3>3 DEF Tables
  <2>3. CASE CreateConflict(t)
    BY <1>t, <2>3 DEF Tables, TypeOK, CreateConflict, rows, RowsMatchCalls, LocksMatchTasks,
                      OneTaskPerIdempotencyKey, KeyTaken
  <2>4. CASE RequestCancel(t)
    BY <1>t, <2>4 DEF Tables, RequestCancel, RowsMatchCalls, LocksMatchTasks,
                      OneTaskPerIdempotencyKey, KeyTaken
  <2> QED
    BY <1>1, <2>1, <2>2, <2>3, <2>4 DEF Api
<1>2. ASSUME NEW p \in Procs, NEW t \in Tasks, CanClaim(p, t), ClaimRow(p, t) PROVE Tables'
  <2>1. /\ UNCHANGED <<call, req, locks>>
        /\ status[t] \in Active /\ status'[t] \in Active
        /\ \A u \in Tasks \ {t} : status'[u] = status[u]
    BY <1>2 DEF Tables, TypeOK, CanClaim, ClaimRow, Claimable, Active
  <2> QED
    BY <1>t, <2>1 DEF Tables, TypeOK, RowsMatchCalls, LocksMatchTasks, Active,
                      OneTaskPerIdempotencyKey, KeyTaken
<1>3. ASSUME NEW e \in Executions, exec[e].pc \in Finishing, FinishRow(e) PROVE Tables'
  <2>1. /\ UNCHANGED <<call, req>> /\ e[1] \in Tasks
        /\ status[e[1]] = "running" /\ status'[e[1]] \in Terminal
        /\ \A u \in Tasks \ {e[1]} : status'[u] = status[u]
        /\ locks' = [k \in ResourceKeys |-> IF locks[k] = e[1] THEN None ELSE locks[k]]
    BY <1>3 DEF Tables, TypeOK, FinishRow, Owns, Outcome, Finishing, Terminal, Executions
  <2>2. LocksMatchTasks' /\ RowsMatchCalls'
    BY <2>1 DEF Tables, TypeOK, RowsMatchCalls, LocksMatchTasks, Active, Terminal, Request
  <2>3. OneTaskPerIdempotencyKey'
    BY <2>1 DEF Tables, TypeOK, OneTaskPerIdempotencyKey, KeyTaken, Terminal
  <2> QED
    BY <1>t, <2>2, <2>3 DEF Tables
<1>4. CASE UNCHANGED <<call, req, status, owner, cancelRequested, attempt, locks>>
  BY <1>t, <1>4 DEF Tables, RowsMatchCalls, LocksMatchTasks, OneTaskPerIdempotencyKey, KeyTaken
<1> QED
  BY <1>1, <1>2, <1>3, <1>4, TableStep

(***************************************************************************)
(* A lock belongs to one queued or running task, and such a task holds the *)
(* lock it asked for.                                                      *)
(***************************************************************************)
THEOREM LocksCorrect == Spec => []LocksMatchTasks
<1>1. Tables => LocksMatchTasks
  BY DEF Tables
<1> QED
  BY <1>1, TablesInit, TablesStep, PTL DEF Spec

(***************************************************************************)
(* An idempotency key never names two tasks.                               *)
(***************************************************************************)
THEOREM IdempotencyCorrect == Spec => []OneTaskPerIdempotencyKey
<1>1. Tables => OneTaskPerIdempotencyKey
  BY DEF Tables
<1> QED
  BY <1>1, TablesInit, TablesStep, PTL DEF Spec

(***************************************************************************)
(* A terminal status is final and its lock is never taken again.           *)
(***************************************************************************)
THEOREM TerminalFinal == Spec => TerminalIsFinal
<1> DEFINE Final(t) == status[t] \in Terminal => /\ status'[t] = status[t]
                                                 /\ \A k \in ResourceKeys : locks'[k] # t
<1>1. Tables /\ [Next]_vars => [\A t \in Tasks : Final(t)]_vars
  <2> SUFFICES ASSUME Tables, [Next]_vars, NEW t \in Tasks, status[t] \in Terminal
               PROVE  status'[t] = status[t] /\ \A k \in ResourceKeys : locks'[k] # t
    OBVIOUS
  <2>1. LocksMatchTasks' /\ TypeOK'
    BY TablesStep DEF Tables
  <2>2. status'[t] = status[t]
    <3>1. ASSUME NEW u \in Tasks, Api(u) PROVE status'[t] = status[t]
      BY <3>1 DEF Tables, TypeOK, RowsMatchCalls, Api, CreateSelect, CreateInsert,
                  CreateConflict, RequestCancel, rows, Terminal
    <3>2. ASSUME NEW p \in Procs, NEW u \in Tasks, CanClaim(p, u), ClaimRow(p, u)
          PROVE  status'[t] = status[t]
      BY <3>2 DEF Tables, TypeOK, CanClaim, ClaimRow, Claimable, Terminal
    <3>3. ASSUME NEW e \in Executions, FinishRow(e) PROVE status'[t] = status[t]
      BY <3>3 DEF Tables, TypeOK, FinishRow, Owns, Terminal, Executions
    <3> QED
      BY <3>1, <3>2, <3>3, TableStep
  <2> QED
    BY <2>1, <2>2, NoneAssumption DEF LocksMatchTasks, Active, Terminal
<1> QED
  BY <1>1, TablesInit, TablesStep, PTL DEF Spec, TerminalIsFinal

-----------------------------------------------------------------------------
(***************************************************************************)
(* The engine implements the promise: an insert accepts a task, a finish   *)
(* that finds its row ends one, and every other step stutters.             *)
(***************************************************************************)
LEMMA PromiseInit == Init => P!PInit
<1> SUFFICES ASSUME Init PROVE P!PInit
  OBVIOUS
<1>1. \A t \in Tasks : status[t] = "absent"
  BY DEF Init
<1>2. PromiseState = [t \in Tasks |-> "none"]
  BY <1>1 DEF PromiseState, Active
<1>3. UsedKeys = {}
  <2>1. \A i : i \notin UsedKeys
    BY <1>1 DEF UsedKeys
  <2> QED
    BY <2>1
<1>4. locks = [k \in ResourceKeys |-> None]
  BY DEF Init
<1> QED
  BY <1>2, <1>3, <1>4 DEF P!PInit

LEMMA AcceptStep ==
  ASSUME Tables, NEW t \in Tasks, CreateInsert(t)
  PROVE  P!Accept(t)
<1> USE NoneAssumption
<1>1. /\ status[t] = "absent" /\ req[t] \in Request /\ UNCHANGED req
      /\ status' = [status EXCEPT ![t] = "queued"]
      /\ ~KeyTaken(req[t]) /\ ~Locked(req[t])
  BY DEF Tables, TypeOK, RowsMatchCalls, CreateInsert
<1>2. PromiseState[t] = "none" /\ PromiseState' = [PromiseState EXCEPT ![t] = "active"]
  BY <1>1 DEF PromiseState, Active, Tables, TypeOK
<1>3. UsedKeys' = UsedKeys \cup ({req[t].idem} \ {None})
  BY <1>1 DEF UsedKeys, Tables, TypeOK
<1>4. req[t].idem \in (IdempotencyKeys \cup {None}) \ UsedKeys
  BY <1>1 DEF UsedKeys, KeyTaken, Request
<1>5. \/ req[t].key = None /\ UNCHANGED locks
      \/ req[t].key # None /\ locks[req[t].key] = None /\ locks' = [locks EXCEPT ![req[t].key] = t]
  BY <1>1 DEF CreateInsert, Locked
<1>6. req[t].key \in ResourceKeys \cup {None}
  BY <1>1 DEF Request
<1> QED
  BY <1>2, <1>3, <1>4, <1>5, <1>6 DEF P!Accept

LEMMA EndStep ==
  ASSUME Tables, NEW e \in Executions, exec[e].pc \in Finishing, FinishRow(e)
  PROVE  P!End(e[1])
<1>1. /\ e[1] \in Tasks /\ status[e[1]] = "running" /\ UNCHANGED req
      /\ Outcome[exec[e].pc] \in Terminal
      /\ status' = [status EXCEPT ![e[1]] = Outcome[exec[e].pc]]
  BY DEF FinishRow, Owns, Outcome, Finishing, Terminal, Executions
<1>2. /\ PromiseState[e[1]] = "active"
      /\ PromiseState' = [PromiseState EXCEPT ![e[1]] = Outcome[exec[e].pc]]
  BY <1>1 DEF PromiseState, Active, Terminal, Tables, TypeOK
<1>3. UsedKeys' = UsedKeys
  BY <1>1 DEF UsedKeys, Tables, TypeOK, Terminal
<1> QED
  BY <1>1, <1>2, <1>3 DEF P!End, P!Outcomes, Terminal, FinishRow

LEMMA PromiseStep == Tables /\ [Next]_vars => [P!PNext]_(P!pvars)
<1> SUFFICES ASSUME Tables, [Next]_vars PROVE P!PNext \/ UNCHANGED P!pvars
  OBVIOUS
<1>1. ASSUME NEW t \in Tasks, Api(t) PROVE P!PNext \/ UNCHANGED P!pvars
  <2>1. CASE CreateInsert(t)
    BY <2>1, AcceptStep DEF P!PNext
  <2>2. CASE CreateSelect(t)
    <3>1. status[t] = "absent" /\ UNCHANGED <<status, locks>>
          /\ \A u \in Tasks \ {t} : req'[u] = req[u]
      BY <2>2 DEF Tables, TypeOK, RowsMatchCalls, CreateSelect, rows
    <3> QED
      BY <3>1 DEF P!pvars, PromiseState, UsedKeys
  <2>3. CASE CreateConflict(t) \/ RequestCancel(t)
    BY <2>3 DEF CreateConflict, RequestCancel, rows, P!pvars, PromiseState, UsedKeys
  <2> QED
    BY <1>1, <2>1, <2>2, <2>3 DEF Api
<1>2. ASSUME NEW p \in Procs, NEW t \in Tasks, CanClaim(p, t), ClaimRow(p, t)
      PROVE  UNCHANGED P!pvars
  <2>1. /\ UNCHANGED <<req, locks>> /\ status[t] \in Active
        /\ status' = [status EXCEPT ![t] = "running"]
    BY <1>2 DEF CanClaim, ClaimRow, Claimable, Active
  <2>2. PromiseState' = PromiseState /\ UsedKeys' = UsedKeys
    BY <2>1 DEF PromiseState, UsedKeys, Active, Tables, TypeOK
  <2> QED
    BY <2>1, <2>2 DEF P!pvars
<1>3. ASSUME NEW e \in Executions, exec[e].pc \in Finishing, FinishRow(e) PROVE P!PNext
  BY <1>3, EndStep DEF P!PNext, Executions
<1>4. CASE UNCHANGED <<call, req, status, owner, cancelRequested, attempt, locks>>
  BY <1>4 DEF P!pvars, PromiseState, UsedKeys
<1> QED
  BY <1>1, <1>2, <1>3, <1>4, TableStep

(***************************************************************************)
(* Refinement, its safety part.                                            *)
(***************************************************************************)
THEOREM KeepsPromise == Spec => PromiseSafety
  BY PromiseInit, PromiseStep, TablesInit, TablesStep, PTL
     DEF Spec, PromiseSafety, P!PSafety

-----------------------------------------------------------------------------
(***************************************************************************)
(* The executions.  A step of one moves only that one, which was claimed.  *)
(***************************************************************************)
Moves(e) == Execute(e) \/ HandlerReturn(e) \/ Renew(e) \/ Disturb(e)

LEMMA MoveStep ==
  ASSUME TypeOK, ReportsAreTrue, NEW e \in Executions, Moves(e), AttemptsInOrder
  PROVE  /\ \A d \in Executions \ {e} : exec'[d] = exec[d]
         /\ exec[e] # Unstarted
         /\ attempt' = attempt
<1>1. \A d \in Executions \ {e} : exec'[d] = exec[d]
  BY DEF Moves, Execute, HandlerReturn, Renew, Disturb, Begin, LoopExit, PollCancel, Finish,
         FinishRejected, Heartbeat, HeartbeatRejected, PollError, HeartbeatError,
         FinishError, Step, TypeOK
<1>2. exec[e] # Unstarted
  <2>1. exec[e].pc # "none" \/ exec[e].handler = "running" \/ exec[e].heartbeat
    BY DEF Moves, Execute, HandlerReturn, Renew, Disturb, Begin, LoopExit, PollCancel, Finish,
           FinishRejected, Heartbeat, HeartbeatRejected, PollError, HeartbeatError,
           FinishError, Finishing
  <2> QED
    BY <2>1 DEF Unstarted
<1>3. attempt' = attempt
  BY DEF Moves, Execute, HandlerReturn, Renew, Disturb, Begin, LoopExit, PollCancel, Finish,
         FinishRejected, Heartbeat, HeartbeatRejected, PollError, HeartbeatError,
         FinishError, FinishRow, rows
<1> QED
  BY <1>1, <1>2, <1>3

LEMMA ClaimStep ==
  ASSUME TypeOK, AttemptsInOrder, NEW p \in Procs, NEW t \in Tasks,
         Claim(p, t) \/ ClaimLost(p, t)
  PROVE  LET e == <<t, attempt[t] + 1>> IN
         /\ e \in Executions /\ exec[e] = Unstarted
         /\ \A d \in Executions \ {e} : exec'[d] = exec[d]
         /\ \/ exec'[e] = Attempt(p, "claimed") /\ faults' = faults
            \/ exec'[e] = Attempt(p, "done") /\ faults' = faults + 1
         /\ attempt' = [attempt EXCEPT ![t] = attempt[t] + 1]
         /\ cancelRequested' = cancelRequested
<1>1. <<t, attempt[t] + 1>> \in Executions /\ attempt[t] \in Nat
  BY BoundsAssumption DEF TypeOK, Claim, ClaimLost, CanClaim, Executions, Attempts
<1>2. exec[<<t, attempt[t] + 1>>] = Unstarted
  BY <1>1 DEF AttemptsInOrder, Executions
<1> QED
  BY <1>1, <1>2 DEF TypeOK, Claim, ClaimLost, ClaimRow, Fault

LEMMA ProcessStep ==
  ASSUME TypeOK, NEW p \in Procs, Crash(p) \/ Stop(p) \/ Stopped(p) \/ Restart(p)
  PROVE  /\ UNCHANGED <<call, req, rows, locks>>
         /\ \A e \in Executions :
               \/ exec'[e] = exec[e]
               \/ /\ exec[e].proc = p
                  /\ exec'[e] = [proc |-> p, pc |-> "done",
                                 handler |-> Cancelled(exec[e].handler), heartbeat |-> FALSE]
  BY DEF Crash, Stop, Stopped, Restart, Kill

LEMMA OrderStep == TypeOK /\ ReportsAreTrue /\ AttemptsInOrder /\ [Next]_vars => AttemptsInOrder'
<1> SUFFICES ASSUME TypeOK, ReportsAreTrue, AttemptsInOrder, [Next]_vars,
                    NEW t \in Tasks, NEW n \in Attempts, n > attempt'[t]
             PROVE  exec'[<<t, n>>] = Unstarted
  BY DEF AttemptsInOrder
<1> <<t, n>> \in Executions /\ attempt[t] \in Nat /\ n \in Nat
  BY BoundsAssumption DEF Executions, Attempts, TypeOK
<1>1. ASSUME NEW u \in Tasks, Api(u) \/ LeaseExpire(u) \/ Stall(u)
      PROVE  exec'[<<t, n>>] = Unstarted
  BY <1>1 DEF Api, CreateSelect, CreateInsert, CreateConflict, RequestCancel, LeaseExpire,
              Stall, Expire, rows, AttemptsInOrder
<1>2. ASSUME NEW p \in Procs, NEW u \in Tasks, Claim(p, u) \/ ClaimLost(p, u)
      PROVE  exec'[<<t, n>>] = Unstarted
  <2> DEFINE c == <<u, attempt[u] + 1>>
  <2>1. /\ c \in Executions /\ attempt' = [attempt EXCEPT ![u] = attempt[u] + 1]
        /\ \A d \in Executions \ {c} : exec'[d] = exec[d]
    BY <1>2, ClaimStep
  <2>2. n > attempt[t] /\ <<t, n>> # c
    BY <2>1 DEF TypeOK
  <2>3. exec'[<<t, n>>] = exec[<<t, n>>]
    BY <2>1, <2>2
  <2> QED
    BY <2>2, <2>3 DEF AttemptsInOrder
<1>3. ASSUME NEW e \in Executions, Moves(e) PROVE exec'[<<t, n>>] = Unstarted
  BY <1>3, MoveStep DEF AttemptsInOrder
<1>4. ASSUME NEW p \in Procs, Crash(p) \/ Stop(p) \/ Stopped(p) \/ Restart(p)
      PROVE  exec'[<<t, n>>] = Unstarted
  <2>1. attempt' = attempt /\ exec[<<t, n>>] = Unstarted
    BY <1>4, ProcessStep DEF AttemptsInOrder, rows
  <2>2. exec[<<t, n>>].proc # p
    BY <2>1, NoneAssumption DEF Unstarted
  <2> QED
    BY <1>4, <2>1, <2>2, ProcessStep
<1>5. CASE UNCHANGED vars
  BY <1>5 DEF vars, rows, AttemptsInOrder
<1> QED
  BY <1>1, <1>2, <1>3, <1>4, <1>5 DEF Next, Moves

(***************************************************************************)
(* What an execution and a client have established is not taken back.      *)
(***************************************************************************)
LEMMA CancelStays ==
  ASSUME TypeOK, [Next]_vars, NEW t \in Tasks, cancelRequested[t]
  PROVE  cancelRequested'[t]
<1>1. ASSUME NEW u \in Tasks, Api(u) PROVE cancelRequested'[t]
  BY <1>1 DEF TypeOK, Api, CreateSelect, CreateInsert, CreateConflict, RequestCancel, rows
<1> QED
  BY <1>1, TableStep DEF ClaimRow, FinishRow

LEMMA SuccessStays ==
  ASSUME TypeOK, ReportsAreTrue, AttemptsInOrder, [Next]_vars,
         NEW e \in Executions, exec[e].handler = "ok"
  PROVE  exec'[e].handler = "ok"
<1>1. ASSUME NEW u \in Tasks, Api(u) \/ LeaseExpire(u) \/ Stall(u) PROVE exec' = exec
  BY <1>1 DEF Api, CreateSelect, CreateInsert, CreateConflict, RequestCancel, LeaseExpire,
              Stall, Expire, rows
<1>2. ASSUME NEW p \in Procs, NEW u \in Tasks, Claim(p, u) \/ ClaimLost(p, u)
      PROVE  exec'[e].handler = "ok"
  <2>1. exec[<<u, attempt[u] + 1>>] = Unstarted
    BY <1>2, ClaimStep
  <2>2. e # <<u, attempt[u] + 1>>
    BY <2>1 DEF Unstarted
  <2> QED
    BY <1>2, <2>2, ClaimStep
<1>3. ASSUME Moves(e) PROVE exec'[e].handler = "ok"
  <2> exec[e] \in Execution /\ exec[e].pc # "claimed"
    BY DEF TypeOK, ReportsAreTrue
  <2>1. CASE LoopExit(e) \/ PollCancel(e) \/ PollError(e)
    BY <2>1 DEF LoopExit, PollCancel, PollError, Step, Cancelled, TypeOK
  <2>2. CASE Heartbeat(e)
    BY <2>2 DEF Heartbeat
  <2>3. CASE HeartbeatRejected(e) \/ HeartbeatError(e)
    BY <2>3 DEF HeartbeatRejected, HeartbeatError, TypeOK, Execution
  <2>4. CASE Finish(e) \/ FinishRejected(e) \/ FinishError(e)
    BY <2>4 DEF Finish, FinishRejected, FinishError, TypeOK, Execution
  <2> QED
    BY <1>3, <2>1, <2>2, <2>3, <2>4
       DEF Moves, Execute, Renew, Disturb, Begin, HandlerReturn
<1>4. ASSUME NEW p \in Procs, Crash(p) \/ Stop(p) \/ Stopped(p) \/ Restart(p)
      PROVE  exec'[e].handler = "ok"
  <2>1. \/ exec'[e] = exec[e]
        \/ exec'[e] = [proc |-> p, pc |-> "done",
                       handler |-> Cancelled(exec[e].handler), heartbeat |-> FALSE]
    BY <1>4, ProcessStep
  <2> QED
    BY <2>1 DEF Cancelled
<1>5. ASSUME NEW d \in Executions, Moves(d), d # e PROVE exec'[e].handler = "ok"
  BY <1>5, MoveStep
<1> QED
  BY <1>1, <1>2, <1>3, <1>4, <1>5 DEF Next, Moves, vars

LEMMA ReportStep ==
  TypeOK /\ AttemptsInOrder /\ ReportsAreTrue /\ [Next]_vars => ReportsAreTrue'
<1> DEFINE True(x, c) == /\ x.pc = "succeed" => x.handler = "ok"
                         /\ x.pc = "cancel" => c
                         /\ x.pc = "claimed" => x.handler = "none"
                         /\ x.heartbeat => x.pc = "poll"
<1> SUFFICES ASSUME TypeOK, AttemptsInOrder, ReportsAreTrue, [Next]_vars,
                    NEW e \in Executions
             PROVE  True(exec'[e], cancelRequested'[e[1]])
  BY DEF ReportsAreTrue
<1> e[1] \in Tasks
  BY DEF Executions
<1>0. exec'[e] = exec[e] => True(exec'[e], cancelRequested'[e[1]])
  BY CancelStays DEF ReportsAreTrue
<1>1. ASSUME NEW u \in Tasks, Api(u) \/ LeaseExpire(u) \/ Stall(u) PROVE exec'[e] = exec[e]
  BY <1>1 DEF Api, CreateSelect, CreateInsert, CreateConflict, RequestCancel, LeaseExpire,
              Stall, Expire, rows
<1>2. ASSUME NEW p \in Procs, NEW u \in Tasks, Claim(p, u) \/ ClaimLost(p, u)
      PROVE  True(exec'[e], cancelRequested'[e[1]])
  <2>1. \/ exec'[e] = exec[e] \/ exec'[e] = Attempt(p, "claimed") \/ exec'[e] = Attempt(p, "done")
    BY <1>2, ClaimStep
  <2> QED
    BY <2>1, <1>0 DEF Attempt
<1>3. ASSUME Moves(e) PROVE True(exec'[e], cancelRequested'[e[1]])
  <2> exec[e] \in Execution /\ True(exec[e], cancelRequested[e[1]])
    BY DEF TypeOK, ReportsAreTrue
  <2>1. CASE Begin(e)
    BY <2>1 DEF Begin, Step, TypeOK, rows
  <2>2. CASE LoopExit(e)
    BY <2>2 DEF LoopExit, Step, TypeOK, rows
  <2>3. CASE PollCancel(e)
    BY <2>3 DEF PollCancel, Step, TypeOK, rows
  <2>4. CASE PollError(e)
    BY <2>4 DEF PollError, Step, TypeOK, rows
  <2>5. CASE HandlerReturn(e)
    BY <2>5 DEF HandlerReturn, TypeOK, rows, Execution
  <2>6. CASE Heartbeat(e)
    BY <2>6, <1>0 DEF Heartbeat
  <2>7. CASE HeartbeatRejected(e) \/ HeartbeatError(e)
    BY <2>7 DEF HeartbeatRejected, HeartbeatError, TypeOK, rows, Execution
  <2>8. CASE Finish(e) \/ FinishRejected(e) \/ FinishError(e)
    <3>1. /\ exec[e].pc \in Finishing
          /\ exec'[e] = [exec[e] EXCEPT !.pc = "done"] \/ exec'[e] = [exec[e] EXCEPT !.pc = "fail"]
      BY <2>8 DEF Finish, FinishRejected, FinishError, AfterFailedFinish, TypeOK
    <3> QED
      BY <3>1 DEF Finishing, Execution
  <2> QED
    BY <1>3, <2>1, <2>2, <2>3, <2>4, <2>5, <2>6, <2>7, <2>8
       DEF Moves, Execute, Renew, Disturb
<1>4. ASSUME NEW p \in Procs, Crash(p) \/ Stop(p) \/ Stopped(p) \/ Restart(p)
      PROVE  True(exec'[e], cancelRequested'[e[1]])
  <2>1. \/ exec'[e] = exec[e]
        \/ exec'[e] = [proc |-> p, pc |-> "done",
                       handler |-> Cancelled(exec[e].handler), heartbeat |-> FALSE]
    BY <1>4, ProcessStep
  <2> QED
    BY <2>1, <1>0
<1>5. ASSUME NEW d \in Executions, Moves(d), d # e PROVE exec'[e] = exec[e]
  BY <1>5, MoveStep
<1>6. UNCHANGED vars => exec'[e] = exec[e]
  BY DEF vars
<1> HIDE DEF True
<1> QED
  BY <1>0, <1>1, <1>2, <1>3, <1>4, <1>5, <1>6 DEF Next, Moves

LEMMA OutcomeStep ==
  TypeOK /\ AttemptsInOrder /\ ReportsAreTrue /\ RowsMatchCalls /\ OutcomeIsDeserved
     /\ [Next]_vars => OutcomeIsDeserved'
<1> SUFFICES ASSUME TypeOK, AttemptsInOrder, ReportsAreTrue, RowsMatchCalls,
                    OutcomeIsDeserved, [Next]_vars, NEW t \in Tasks
             PROVE  /\ status'[t] = "success" =>
                          \E n \in Attempts : exec'[<<t, n>>].handler = "ok"
                    /\ status'[t] = "cancelled" => cancelRequested'[t]
  BY DEF OutcomeIsDeserved
<1>1. ASSUME status'[t] = status[t] \/ status'[t] \in Active
      PROVE  /\ status'[t] = "success" =>
                   \E n \in Attempts : exec'[<<t, n>>].handler = "ok"
             /\ status'[t] = "cancelled" => cancelRequested'[t]
  BY <1>1, CancelStays, SuccessStays DEF OutcomeIsDeserved, Executions, Active
<1>2. ASSUME NEW u \in Tasks, Api(u) PROVE status'[t] = status[t] \/ status'[t] \in Active
  BY <1>2 DEF TypeOK, Api, CreateSelect, CreateInsert, CreateConflict, RequestCancel, rows,
              Active
<1>3. ASSUME NEW p \in Procs, NEW u \in Tasks, CanClaim(p, u), ClaimRow(p, u)
      PROVE  status'[t] = status[t] \/ status'[t] \in Active
  BY <1>3 DEF TypeOK, ClaimRow, Active
<1>4. ASSUME NEW e \in Executions, exec[e].pc \in Finishing, FinishRow(e)
      PROVE  /\ status'[t] = "success" =>
                   \E n \in Attempts : exec'[<<t, n>>].handler = "ok"
             /\ status'[t] = "cancelled" => cancelRequested'[t]
  <2>1. CASE e[1] # t
    BY <2>1, <1>4, <1>1 DEF FinishRow, TypeOK
  <2>2. CASE e[1] = t
    <3>1. status'[t] = Outcome[exec[e].pc] /\ UNCHANGED cancelRequested
      BY <1>4, <2>2 DEF FinishRow, TypeOK
    <3>2. /\ status'[t] = "success" => exec[e].handler = "ok"
          /\ status'[t] = "cancelled" => cancelRequested[t]
      BY <1>4, <2>2, <3>1 DEF Outcome, Finishing, ReportsAreTrue
    <3>3. e = <<t, e[2]>> /\ e[2] \in Attempts
      BY <2>2 DEF Executions
    <3> QED
      BY <3>1, <3>2, <3>3, SuccessStays
  <2> QED
    BY <2>1, <2>2
<1> QED
  BY <1>1, <1>2, <1>3, <1>4, TableStep

-----------------------------------------------------------------------------
(***************************************************************************)
(* Retries.  Guards(t, n): attempt n keeps the lease of t alive.  A guard  *)
(* is lost to a fault or when the task ends, never for nothing.            *)
(***************************************************************************)
Guards(t, n) == /\ Live(<<t, n>>)
                /\ Owns(<<t, n>>)
                /\ exec[<<t, n>>].pc = "poll" => exec[<<t, n>>].heartbeat

LEMMA GuardMove ==
  ASSUME TypeOK, ReportsAreTrue, AttemptsInOrder, NEW e \in Executions, Moves(e),
         faults' = faults, NEW t \in Tasks, NEW n \in Attempts, Guards(t, n),
         status'[t] = "running"
  PROVE  Guards(t, n)'
<1> DEFINE d == <<t, n>>
<1> d \in Executions /\ d[1] = t
  BY DEF Executions
<1> USE DEF Guards, Live, Owns
<1>1. UNCHANGED owner /\ status[t] = "running"
  BY DEF Moves, Execute, HandlerReturn, Renew, Disturb, Begin, LoopExit, PollCancel, Finish,
         FinishRejected, Heartbeat, HeartbeatRejected, PollError, HeartbeatError,
         FinishError, FinishRow, rows
<1>2. CASE d # e
  BY <1>1, <1>2, MoveStep
<1>3. CASE d = e
  <2> exec[e] \in Execution
    BY DEF TypeOK
  <2>1. CASE Begin(e) \/ LoopExit(e) \/ PollCancel(e)
    <3>1. /\ exec'[e].proc = exec[e].proc
          /\ exec'[e].pc \in Finishing \/ (exec'[e].pc = "poll" /\ exec'[e].heartbeat)
      BY <2>1 DEF Begin, LoopExit, PollCancel, Step, TypeOK, Finishing
    <3> QED
      BY <3>1, <1>1, <1>3 DEF Finishing
  <2>2. CASE HandlerReturn(e)
    <3>1. /\ exec'[e].proc = exec[e].proc /\ exec'[e].pc = exec[e].pc
          /\ exec'[e].heartbeat = exec[e].heartbeat
      BY <2>2 DEF HandlerReturn, TypeOK, Execution
    <3> QED
      BY <3>1, <1>1, <1>3
  <2>3. CASE Heartbeat(e)
    BY <2>3, <1>1, <1>3 DEF Heartbeat
  <2>4. ~HeartbeatRejected(e) /\ ~FinishRejected(e)
    BY <1>3 DEF HeartbeatRejected, FinishRejected
  <2>5. ~Finish(e)
    BY <1>3 DEF Finish, FinishRow, Outcome, Finishing, TypeOK
  <2>6. ~Disturb(e)
    <3>1. ~Fault("db")
      BY BoundsAssumption DEF Fault, TypeOK
    <3> QED
      BY <3>1 DEF Disturb, PollError, HeartbeatError, FinishError
  <2> QED
    BY <2>1, <2>2, <2>3, <2>4, <2>5, <2>6 DEF Moves, Execute, Renew
<1> QED
  BY <1>2, <1>3

LEMMA MoveRows ==
  ASSUME TypeOK, NEW e \in Executions, Moves(e), NEW t \in Tasks
  PROVE  /\ attempt' = attempt
         /\ faults' \in {faults, faults + 1}
         /\ status'[t] = status[t] \/ (status[t] = "running" /\ status'[t] \in Terminal)
         /\ lease'[t] # "expired" \/ lease'[t] = lease[t]
<1>1. ASSUME exec[e].pc \in Finishing, FinishRow(e)
      PROVE  /\ attempt' = attempt
             /\ status'[t] = status[t] \/ (status[t] = "running" /\ status'[t] \in Terminal)
             /\ lease'[t] # "expired" \/ lease'[t] = lease[t]
  BY <1>1 DEF FinishRow, Owns, Outcome, Finishing, Terminal, TypeOK
<1>2. CASE Finish(e) \/ FinishRejected(e) \/ FinishError(e)
  BY <1>1, <1>2 DEF Finish, FinishRejected, FinishError, Fault, rows
<1>3. CASE Heartbeat(e)
  BY <1>3 DEF Heartbeat, TypeOK
<1> QED
  BY <1>2, <1>3 DEF Moves, Execute, HandlerReturn, Renew, Disturb, Begin, LoopExit, PollCancel,
         HeartbeatRejected, PollError, HeartbeatError, Fault, rows

LEMMA LeaseStep ==
  TypeOK /\ AttemptsInOrder /\ ReportsAreTrue /\ RowsMatchCalls /\ LeasesArePaid
     /\ [Next]_vars => LeasesArePaid'
<1> SUFFICES ASSUME TypeOK, AttemptsInOrder, ReportsAreTrue, RowsMatchCalls, LeasesArePaid,
                    [Next]_vars, NEW t \in Tasks
             PROVE  /\ status'[t] \in {"absent", "queued"} => attempt'[t] = 0
                    /\ attempt'[t] <= 1 + faults'
                    /\ status'[t] = "running" /\ (lease'[t] = "expired" \/ ~Guarded(t)')
                          => attempt'[t] <= faults'
  BY DEF LeasesArePaid
<1> DEFINE Goal == /\ status'[t] \in {"absent", "queued"} => attempt'[t] = 0
                   /\ attempt'[t] <= 1 + faults'
                   /\ status'[t] = "running" /\ (lease'[t] = "expired" \/ ~Guarded(t)')
                         => attempt'[t] <= faults'
<1> attempt[t] \in Nat /\ faults \in Nat
  BY BoundsAssumption DEF TypeOK
<1>g. Guarded(t) <=> \E n \in Attempts : Guards(t, n)
  BY DEF Guarded, Guards
<1>h. Guarded(t)' <=> \E n \in Attempts : Guards(t, n)'
  BY DEF Guarded, Guards
<1>a. /\ status[t] \in {"absent", "queued"} => attempt[t] = 0
      /\ attempt[t] <= 1 + faults
      /\ status[t] = "running" /\ (lease[t] = "expired" \/ ~Guarded(t)) => attempt[t] <= faults
  BY DEF LeasesArePaid
<1>q. ASSUME attempt'[t] = attempt[t], faults' = faults,
             status'[t] \in {"absent", "queued"} => status[t] \in {"absent", "queued"},
             status'[t] = "running" => status[t] = "running",
             lease'[t] = "expired" /\ status'[t] = "running" => lease[t] = "expired" \/ ~Guarded(t),
             status'[t] = "running" /\ Guarded(t) => Guarded(t)'
      PROVE  Goal
  BY <1>q, <1>a
<1>f. ASSUME attempt'[t] = attempt[t], faults' = faults + 1,
             status'[t] \in {"absent", "queued"} => status[t] \in {"absent", "queued"}
      PROVE  Goal
  BY <1>f, <1>a
<1>1. ASSUME NEW u \in Tasks, Api(u) PROVE Goal
  <2>1. /\ UNCHANGED <<owner, lease, attempt, exec, faults>>
        /\ status'[t] = status[t] \/ (status[t] = "absent" /\ status'[t] = "queued")
    BY <1>1 DEF Api, CreateSelect, CreateInsert, CreateConflict, RequestCancel, rows, TypeOK,
                RowsMatchCalls
  <2>2. status'[t] = "running" /\ Guarded(t) => Guarded(t)'
    BY <2>1, <1>g, <1>h DEF Guards, Live, Owns
  <2> QED
    BY <2>1, <2>2, <1>q
<1>2. ASSUME NEW u \in Tasks, LeaseExpire(u) \/ Stall(u) PROVE Goal
  <2>1. UNCHANGED <<status, owner, attempt, exec>>
    BY <1>2 DEF LeaseExpire, Stall, Expire
  <2>2. Guarded(t)' = Guarded(t)
    BY <2>1 DEF Guarded, Live, Owns
  <2>3. CASE Stall(u)
    BY <2>1, <2>3, <1>f DEF Stall, Fault
  <2>4. CASE LeaseExpire(u)
    <3>1. lease'[t] = lease[t] \/ (u = t /\ ~Guarded(t))
      BY <2>4 DEF LeaseExpire, Expire, TypeOK
    <3> QED
      BY <2>1, <2>2, <2>4, <3>1, <1>q DEF LeaseExpire
  <2> QED
    BY <1>2, <2>3, <2>4
<1>3. ASSUME NEW p \in Procs, NEW u \in Tasks, Claim(p, u) \/ ClaimLost(p, u) PROVE Goal
  <2> DEFINE c == <<u, attempt[u] + 1>>
  <2>1. /\ c \in Executions /\ attempt' = [attempt EXCEPT ![u] = attempt[u] + 1]
        /\ \A d \in Executions \ {c} : exec'[d] = exec[d]
        /\ \/ exec'[c] = Attempt(p, "claimed") /\ faults' = faults
           \/ exec'[c] = Attempt(p, "done") /\ faults' = faults + 1
        /\ exec[c] = Unstarted
    BY <1>3, ClaimStep
  <2>2. CASE u = t
    <3>1. /\ status'[t] = "running" /\ lease'[t] = "live" /\ owner'[t] = workerId[p]
          /\ attempt[t] <= faults /\ attempt'[t] = attempt[t] + 1
      BY <1>3, <2>1, <2>2, <1>a DEF Claim, ClaimLost, ClaimRow, CanClaim, Claimable, TypeOK
    <3>2. CASE exec'[c] = Attempt(p, "claimed")
      <4>1. attempt[t] + 1 \in Attempts /\ faults' = faults
        BY <2>1, <2>2, <3>2 DEF Executions, Attempt
      <4> PICK n \in Attempts : n = attempt[t] + 1
        BY <4>1
      <4>2. Guards(t, n)'
        BY <2>2, <3>1, <3>2 DEF Guards, Live, Owns, Attempt
      <4> QED
        BY <3>1, <4>1, <4>2, <1>h
    <3>3. CASE faults' = faults + 1
      BY <3>1, <3>3
    <3> QED
      BY <2>1, <3>2, <3>3
  <2>3. CASE u # t
    <3>1. /\ attempt'[t] = attempt[t] /\ status'[t] = status[t] /\ lease'[t] = lease[t]
          /\ owner'[t] = owner[t]
      BY <1>3, <2>1, <2>3 DEF Claim, ClaimLost, ClaimRow, TypeOK
    <3>2. \A n \in Attempts : Guards(t, n) => Guards(t, n)'
      BY <2>1, <2>3, <3>1 DEF Guards, Live, Owns, Executions
    <3> QED
      BY <2>1, <3>1, <3>2, <1>g, <1>h, <1>q, <1>f
  <2> QED
    BY <2>2, <2>3
<1>4. ASSUME NEW e \in Executions, Moves(e) PROVE Goal
  <2>1. /\ attempt' = attempt /\ faults' \in {faults, faults + 1}
        /\ status'[t] = status[t] \/ (status[t] = "running" /\ status'[t] \in Terminal)
        /\ lease'[t] # "expired" \/ lease'[t] = lease[t]
    BY <1>4, MoveRows
  <2>2. CASE faults' = faults + 1
    BY <2>1, <2>2, <1>f DEF Terminal
  <2>3. CASE faults' = faults
    <3>1. status'[t] = "running" /\ Guarded(t) => Guarded(t)'
      BY <1>4, <2>3, <1>g, <1>h, GuardMove
    <3> QED
      BY <2>1, <2>3, <3>1, <1>q DEF Terminal
  <2> QED
    BY <2>1, <2>2, <2>3
<1>5. ASSUME NEW p \in Procs, Crash(p) \/ Stop(p) \/ Stopped(p) \/ Restart(p) PROVE Goal
  <2>1. UNCHANGED rows
    BY <1>5, ProcessStep
  <2>2. CASE Crash(p) \/ Stop(p)
    BY <2>1, <2>2, <1>f DEF Crash, Stop, Fault, rows
  <2>3. CASE Stopped(p) \/ Restart(p)
    <3>1. faults' = faults
      BY <2>3 DEF Stopped, Restart
    <3>2. \A d \in Executions : Live(d) => exec'[d] = exec[d]
      BY <2>3 DEF Stopped, Restart, Kill, Running
    <3>3. \A n \in Attempts : Guards(t, n) => Guards(t, n)'
      BY <2>1, <3>2 DEF Guards, Live, Owns, Executions, rows
    <3> QED
      BY <2>1, <3>1, <3>3, <1>g, <1>h, <1>q DEF rows
  <2> QED
    BY <1>5, <2>2, <2>3
<1>6. ASSUME UNCHANGED vars PROVE Goal
  <2>1. Guarded(t)' = Guarded(t)
    BY <1>6 DEF vars, rows, Guarded, Live, Owns
  <2> QED
    BY <1>6, <2>1, <1>q DEF vars, rows
<1> HIDE DEF Goal
<1>7. Goal
  <2>1. CASE Next
    BY <2>1, <1>1, <1>2, <1>3, <1>4, <1>5 DEF Next, Moves
  <2> QED
    BY <2>1, <1>6
<1> QED
  BY <1>7 DEF Goal

-----------------------------------------------------------------------------
LEMMA InductiveInit == Init => Inductive
<1> SUFFICES ASSUME Init PROVE Inductive
  OBVIOUS
<1>1. Tables
  BY TablesInit
<1>2. AttemptsInOrder /\ ReportsAreTrue
  BY DEF Init, AttemptsInOrder, ReportsAreTrue, Executions, Unstarted
<1>3. OutcomeIsDeserved /\ LeasesArePaid
  BY DEF Init, OutcomeIsDeserved, LeasesArePaid
<1> QED
  BY <1>1, <1>2, <1>3 DEF Inductive, Tables

LEMMA InductiveStep == Inductive /\ [Next]_vars => Inductive'
  BY StepType, TablesStep, OrderStep, ReportStep, OutcomeStep, LeaseStep
     DEF Inductive, Tables

(***************************************************************************)
(* The inductive invariant holds in every reachable state.                 *)
(***************************************************************************)
THEOREM InductiveCorrect == Spec => []Inductive
  BY InductiveInit, InductiveStep, PTL DEF Spec

(***************************************************************************)
(* A success had a handler that returned, a cancellation had a request.    *)
(***************************************************************************)
THEOREM OutcomeCorrect == Spec => []OutcomeIsDeserved
<1>1. Inductive => OutcomeIsDeserved
  BY DEF Inductive
<1> QED
  BY <1>1, InductiveCorrect, PTL

(***************************************************************************)
(* Every attempt after the first was paid for by a fault, so that the      *)
(* bound on attempts in Claim never blocks it.                             *)
(***************************************************************************)
THEOREM RetriesCorrect == Spec => []RetriesAreFaults
<1>1. Inductive => RetriesAreFaults
  BY DEF Inductive, LeasesArePaid, RetriesAreFaults
<1> QED
  BY <1>1, InductiveCorrect, PTL

-----------------------------------------------------------------------------
(***************************************************************************)
(* Concurrency.  Of the executions that a process has begun and not ended  *)
(* there are finitely many, and never more than Concurrency: only a claim  *)
(* adds one, and it counts them first.                                     *)
(***************************************************************************)
Admitted == \A p \in Procs : IsFiniteSet(Running(p)) /\ Cardinality(Running(p)) <= Concurrency

LEMMA MoveLive ==
  ASSUME TypeOK, ReportsAreTrue, NEW e \in Executions, Moves(e)
  PROVE  /\ exec'[e].proc = exec[e].proc
         /\ Live(e)' => Live(e)
<1> exec[e] \in Execution
  BY DEF TypeOK
<1>1. CASE Begin(e) \/ LoopExit(e) \/ PollCancel(e) \/ PollError(e)
  BY <1>1 DEF Begin, LoopExit, PollCancel, PollError, Step, TypeOK, Live
<1>2. CASE HandlerReturn(e)
  BY <1>2 DEF HandlerReturn, TypeOK, Execution, Live
<1>3. CASE Heartbeat(e)
  BY <1>3 DEF Heartbeat, Live
<1>4. CASE HeartbeatRejected(e) \/ HeartbeatError(e)
  BY <1>4 DEF HeartbeatRejected, HeartbeatError, TypeOK, Execution, Live
<1>5. CASE Finish(e) \/ FinishRejected(e) \/ FinishError(e)
  BY <1>5 DEF Finish, FinishRejected, FinishError, Finishing, TypeOK, Execution, Live
<1> QED
  BY <1>1, <1>2, <1>3, <1>4, <1>5 DEF Moves, Execute, Renew, Disturb

(* A process event leaves the rows alone, and ends executions or nothing.  *)
LEMMA ProcessLive ==
  ASSUME TypeOK, NEW p \in Procs, Crash(p) \/ Stop(p) \/ Stopped(p) \/ Restart(p)
  PROVE  /\ UNCHANGED <<status, owner, lease, attempt>>
         /\ \A e \in Executions : exec'[e] = exec[e] \/ ~Live(e)'
<1>1. UNCHANGED <<status, owner, lease, attempt>>
  BY DEF Crash, Stop, Stopped, Restart, rows
<1>2. ASSUME NEW e \in Executions, exec'[e] # exec[e] PROVE ~Live(e)'
  <2>1. exec'[e] = [proc |-> p, pc |-> "done",
                    handler |-> Cancelled(exec[e].handler), heartbeat |-> FALSE]
    BY <1>2, ProcessStep
  <2> QED
    BY <2>1 DEF Live
<1> QED
  BY <1>1, <1>2

(* What a step does to the set of live executions of a process.            *)
LEMMA RunningStep ==
  ASSUME TypeOK, ReportsAreTrue, AttemptsInOrder, [Next]_vars, NEW p \in Procs
  PROVE  \/ Running(p)' \subseteq Running(p)
         \/ \E c \in Executions : /\ Running(p)' \subseteq Running(p) \cup {c}
                                  /\ Cardinality(Running(p)) < Concurrency
<1> USE DEF Running
<1>0. ASSUME \A e \in Executions : /\ exec'[e].proc = exec[e].proc \/ ~Live(e)'
                                   /\ Live(e)' => Live(e)
      PROVE  Running(p)' \subseteq Running(p)
  BY <1>0
<1>1. ASSUME NEW u \in Tasks, Api(u) \/ LeaseExpire(u) \/ Stall(u)
      PROVE  Running(p)' \subseteq Running(p)
  BY <1>1 DEF Api, CreateSelect, CreateInsert, CreateConflict, RequestCancel, LeaseExpire,
              Stall, Expire, rows, Live
<1>2. ASSUME NEW q \in Procs, NEW t \in Tasks, Claim(q, t) \/ ClaimLost(q, t)
      PROVE  \/ Running(p)' \subseteq Running(p)
             \/ \E c \in Executions : /\ Running(p)' \subseteq Running(p) \cup {c}
                                      /\ Cardinality(Running(p)) < Concurrency
  <2> DEFINE c == <<t, attempt[t] + 1>>
  <2>1. /\ c \in Executions /\ exec[c] = Unstarted
        /\ \A d \in Executions \ {c} : exec'[d] = exec[d]
        /\ exec'[c] = Attempt(q, "claimed") \/ exec'[c] = Attempt(q, "done")
    BY <1>2, ClaimStep
  <2>2. exec'[c].proc = q
    BY <2>1 DEF Attempt
  <2>3. Running(p)' \subseteq Running(p) \cup {c}
    BY <2>1 DEF Live
  <2>4. q = p => Cardinality(Running(p)) < Concurrency
    BY <1>2 DEF Claim, ClaimLost, CanClaim
  <2>5. q # p => Running(p)' \subseteq Running(p)
    BY <2>2, <2>3
  <2> QED
    BY <2>1, <2>3, <2>4, <2>5
<1>3. ASSUME NEW e \in Executions, Moves(e) PROVE Running(p)' \subseteq Running(p)
  <2>1. \A d \in Executions \ {e} : exec'[d] = exec[d]
    BY <1>3, MoveStep
  <2>2. \A d \in Executions \ {e} : Live(d)' => Live(d)
    BY <2>1 DEF Live
  <2> QED
    BY <1>0, <1>3, <2>1, <2>2, MoveLive
<1>4. ASSUME NEW q \in Procs, Crash(q) \/ Stop(q) \/ Stopped(q) \/ Restart(q)
      PROVE  Running(p)' \subseteq Running(p)
  <2>1. \A e \in Executions : exec'[e] = exec[e] \/ ~Live(e)'
    BY <1>4, ProcessLive
  <2>2. \A e \in Executions : exec'[e] = exec[e] => (Live(e)' <=> Live(e))
    BY DEF Live
  <2> QED
    BY <1>0, <2>1, <2>2
<1>5. UNCHANGED vars => Running(p)' \subseteq Running(p)
  BY DEF vars, Live
<1> QED
  BY <1>1, <1>2, <1>3, <1>4, <1>5 DEF Next, Moves

LEMMA AdmittedStep ==
  TypeOK /\ ReportsAreTrue /\ AttemptsInOrder /\ Admitted /\ [Next]_vars => Admitted'
<1> SUFFICES ASSUME TypeOK, ReportsAreTrue, AttemptsInOrder, Admitted, [Next]_vars,
                    NEW p \in Procs
             PROVE  IsFiniteSet(Running(p)') /\ Cardinality(Running(p)') <= Concurrency
  BY DEF Admitted
<1> DEFINE R == Running(p)
<1>1. /\ IsFiniteSet(R) /\ Cardinality(R) \in Nat /\ Cardinality(R) <= Concurrency
      /\ Concurrency \in Nat
  BY FS_CardinalityType, BoundsAssumption DEF Admitted
<1>2. R' \subseteq R \/ \E c \in Executions : R' \subseteq R \cup {c} /\ Cardinality(R) < Concurrency
  BY RunningStep
<1> HIDE DEF R
<1>3. CASE R' \subseteq R
  <2>1. IsFiniteSet(R') /\ Cardinality(R') <= Cardinality(R)
    BY <1>1, <1>3, FS_Subset
  <2>2. Cardinality(R') \in Nat
    BY <2>1, FS_CardinalityType
  <2> QED
    BY <1>1, <2>1, <2>2 DEF R
<1>4. ASSUME NEW c \in Executions, R' \subseteq R \cup {c}, Cardinality(R) < Concurrency
      PROVE  IsFiniteSet(Running(p)') /\ Cardinality(Running(p)') <= Concurrency
  <2> DEFINE S == R \cup {c}
  <2>1. IsFiniteSet(S) /\ Cardinality(S) \in Nat /\ Cardinality(S) <= Cardinality(R) + 1
    <3>1. IsFiniteSet(S) /\ Cardinality(S) = IF c \in R THEN Cardinality(R) ELSE Cardinality(R) + 1
      BY <1>1, FS_AddElement
    <3> QED
      BY <1>1, <3>1
  <2>2. R' \in SUBSET S
    BY <1>4
  <2> HIDE DEF S
  <2>3. IsFiniteSet(R') /\ Cardinality(R') <= Cardinality(S)
    BY <2>1, <2>2, FS_Subset
  <2>4. Cardinality(R') \in Nat
    BY <2>3, FS_CardinalityType
  <2> QED
    BY <1>1, <1>4, <2>1, <2>3, <2>4 DEF R
<1> QED
  BY <1>2, <1>3, <1>4 DEF R

LEMMA AdmittedInit == Init => Admitted
<1> SUFFICES ASSUME Init, NEW p \in Procs
             PROVE  IsFiniteSet(Running(p)) /\ Cardinality(Running(p)) <= Concurrency
  BY DEF Admitted
<1>1. Running(p) = {}
  BY DEF Init, Running, Live, Unstarted
<1> QED
  BY <1>1, FS_EmptySet, BoundsAssumption

(***************************************************************************)
(* Without database errors no handler outlives its execution, so the       *)
(* handlers of a process are as bounded as its executions.                 *)
(***************************************************************************)
NoErrors == "db" \notin FaultKinds

Attended == \A e \in Executions : exec[e].handler = "running" => exec[e].pc = "poll"

LEMMA AttendedStep ==
  ASSUME NoErrors, TypeOK, ReportsAreTrue, AttemptsInOrder, Attended, [Next]_vars
  PROVE  Attended'
<1> SUFFICES ASSUME NEW e \in Executions
             PROVE  exec'[e].handler = "running" => exec'[e].pc = "poll"
  BY DEF Attended
<1> DEFINE Goal == exec'[e].handler = "running" => exec'[e].pc = "poll"
<1> exec[e] \in Execution
  BY DEF TypeOK
<1>0. exec'[e] = exec[e] => Goal
  BY DEF Attended
<1>1. ASSUME NEW u \in Tasks, Api(u) \/ LeaseExpire(u) \/ Stall(u) PROVE exec'[e] = exec[e]
  BY <1>1 DEF Api, CreateSelect, CreateInsert, CreateConflict, RequestCancel, LeaseExpire,
              Stall, Expire, rows
<1>2. ASSUME NEW p \in Procs, NEW u \in Tasks, Claim(p, u) \/ ClaimLost(p, u) PROVE Goal
  <2>1. exec'[e] = exec[e] \/ exec'[e] = Attempt(p, "claimed") \/ exec'[e] = Attempt(p, "done")
    BY <1>2, ClaimStep
  <2> QED
    BY <2>1, <1>0 DEF Attempt
<1>3. ASSUME Moves(e) PROVE Goal
  <2>1. CASE Begin(e) \/ LoopExit(e) \/ PollCancel(e)
    BY <2>1 DEF Begin, LoopExit, PollCancel, Step, TypeOK, Cancelled
  <2>2. CASE HandlerReturn(e)
    BY <2>2 DEF HandlerReturn, TypeOK, Execution
  <2>3. CASE Heartbeat(e)
    BY <2>3, <1>0 DEF Heartbeat
  <2>4. CASE HeartbeatRejected(e)
    BY <2>4 DEF HeartbeatRejected, TypeOK, Execution, Attended
  <2>5. CASE Finish(e) \/ FinishRejected(e)
    <3>1. exec[e].handler # "running"
      BY <2>5 DEF Finish, FinishRejected, Finishing, Attended
    <3> QED
      BY <2>5, <3>1 DEF Finish, FinishRejected, TypeOK, Execution
  <2>6. ~Disturb(e)
    BY DEF NoErrors, Disturb, PollError, HeartbeatError, FinishError, Fault
  <2> QED
    BY <1>3, <2>1, <2>2, <2>3, <2>4, <2>5, <2>6 DEF Moves, Execute, Renew
<1>4. ASSUME NEW p \in Procs, Crash(p) \/ Stop(p) \/ Stopped(p) \/ Restart(p) PROVE Goal
  <2>1. \/ exec'[e] = exec[e]
        \/ exec'[e] = [proc |-> p, pc |-> "done",
                       handler |-> Cancelled(exec[e].handler), heartbeat |-> FALSE]
    BY <1>4, ProcessStep
  <2> QED
    BY <2>1, <1>0 DEF Cancelled
<1>5. ASSUME NEW d \in Executions, Moves(d), d # e PROVE exec'[e] = exec[e]
  BY <1>5, MoveStep
<1>6. UNCHANGED vars => exec'[e] = exec[e]
  BY DEF vars
<1> HIDE DEF Goal
<1>7. Goal
  BY <1>0, <1>1, <1>2, <1>3, <1>4, <1>5, <1>6 DEF Next, Moves
<1> QED
  BY <1>7 DEF Goal

LEMMA AttendedInit == Init => Attended
  BY DEF Init, Attended, Unstarted

(***************************************************************************)
(* A process never runs more handlers than its concurrency, if the         *)
(* database never fails; with errors it does (run task_leak).              *)
(***************************************************************************)
THEOREM BoundedCorrect == ASSUME NoErrors PROVE Spec => []HandlersBounded
<1>1. Inductive /\ Admitted /\ [Next]_vars => Admitted'
  BY AdmittedStep DEF Inductive
<1>2. Inductive /\ Attended /\ [Next]_vars => Attended'
  BY AttendedStep DEF Inductive
<1>3. Admitted /\ Attended => HandlersBounded
  <2> SUFFICES ASSUME Admitted, Attended, NEW p \in Procs
               PROVE  Cardinality({e \in Handling : exec[e].proc = p}) <= Concurrency
    BY DEF HandlersBounded
  <2> DEFINE H == {e \in Handling : exec[e].proc = p}
  <2>1. H \in SUBSET Running(p)
    BY DEF Handling, Running, Live, Attended
  <2>2. IsFiniteSet(Running(p)) /\ Cardinality(Running(p)) <= Concurrency
    BY DEF Admitted
  <2> HIDE DEF H
  <2>3. IsFiniteSet(H) /\ Cardinality(H) <= Cardinality(Running(p))
    BY <2>1, <2>2, FS_Subset
  <2>4. Cardinality(H) \in Nat /\ Cardinality(Running(p)) \in Nat
    BY <2>2, <2>3, FS_CardinalityType
  <2> QED
    BY <2>2, <2>3, <2>4, BoundsAssumption DEF H
<1> QED
  BY <1>1, <1>2, <1>3, AdmittedInit, AttendedInit, InductiveCorrect, PTL DEF Spec

-----------------------------------------------------------------------------
(***************************************************************************)
(* Exclusion.  Without stalls and database errors every live execution is  *)
(* that of its task's latest attempt and keeps its lease alive, so no task *)
(* is claimed while one is about.                                          *)
(***************************************************************************)
NoStalls == "stall" \notin FaultKinds

Current(e) == e[2] = attempt[e[1]] /\ lease[e[1]] = "live" /\ Guards(e[1], e[2])

AllCurrent == \A e \in Executions : Live(e) => Current(e)

LEMMA CurrentStep ==
  ASSUME NoErrors, NoStalls, TypeOK, ReportsAreTrue, AttemptsInOrder, RowsMatchCalls,
         AllCurrent, [Next]_vars
  PROVE  AllCurrent'
<1> SUFFICES ASSUME NEW e \in Executions, Live(e)'
             PROVE  Current(e)'
  BY DEF AllCurrent
<1> PICK t \in Tasks, n \in Attempts : e = <<t, n>>
  BY DEF Executions
<1> attempt[t] \in Nat /\ n \in Nat
  BY BoundsAssumption DEF TypeOK, Attempts
<1> USE DEF Current, Guards, Live, Owns
<1>0. ASSUME Live(e), exec'[e] = exec[e],
             UNCHANGED <<status[t], owner[t], lease[t], attempt[t]>>
      PROVE  Current(e)'
  BY <1>0 DEF AllCurrent
<1>1. ASSUME NEW u \in Tasks, Api(u) PROVE Current(e)'
  <2>1. /\ UNCHANGED <<owner, lease, attempt, exec>>
        /\ status'[t] = status[t] \/ status[t] = "absent"
    BY <1>1 DEF Api, CreateSelect, CreateInsert, CreateConflict, RequestCancel, rows, TypeOK,
                RowsMatchCalls
  <2>2. Live(e)
    BY <2>1
  <2>3. status[t] = "running"
    BY <2>2 DEF AllCurrent
  <2> QED
    BY <1>0, <2>1, <2>2, <2>3
<1>2. ASSUME NEW u \in Tasks, LeaseExpire(u) \/ Stall(u) PROVE Current(e)'
  <2>1. LeaseExpire(u)
    BY <1>2 DEF NoStalls, Stall, Fault
  <2>2. UNCHANGED <<status, owner, attempt, exec>> /\ (u # t => lease'[t] = lease[t])
    BY <2>1 DEF LeaseExpire, Expire, TypeOK
  <2>3. Live(e)
    BY <2>2
  <2>4. Guarded(t)
    BY <2>3 DEF AllCurrent, Guarded
  <2> QED
    BY <1>0, <2>1, <2>2, <2>3, <2>4 DEF LeaseExpire
<1>3. ASSUME NEW p \in Procs, NEW u \in Tasks, Claim(p, u) \/ ClaimLost(p, u) PROVE Current(e)'
  <2>1. Claim(p, u)
    BY <1>3 DEF NoErrors, ClaimLost, Fault
  <2> DEFINE c == <<u, attempt[u] + 1>>
  <2>2. /\ c \in Executions /\ attempt' = [attempt EXCEPT ![u] = attempt[u] + 1]
        /\ exec'[c] = Attempt(p, "claimed")
        /\ \A d \in Executions \ {c} : exec'[d] = exec[d]
    BY <2>1, ClaimStep DEF Claim, TypeOK
  <2>3. /\ status' = [status EXCEPT ![u] = "running"]
        /\ owner' = [owner EXCEPT ![u] = workerId[p]]
        /\ lease' = [lease EXCEPT ![u] = "live"]
    BY <2>1 DEF Claim, ClaimRow
  <2>4. CASE e = c
    <3>1. t = u /\ n = attempt[u] + 1
      BY <2>4
    <3>2. exec'[e].pc = "claimed" /\ exec'[e].proc = p
      BY <2>2, <2>4 DEF Attempt
    <3> QED
      BY <2>2, <2>3, <3>1, <3>2 DEF TypeOK
  <2>5. CASE e # c
    <3>1. exec'[e] = exec[e] /\ Live(e)
      BY <2>2, <2>5
    <3>2. status[t] = "running" /\ lease[t] = "live"
      BY <3>1 DEF AllCurrent
    <3>3. u # t
      BY <2>1, <3>2 DEF Claim, CanClaim, Claimable
    <3> QED
      BY <1>0, <2>2, <2>3, <3>1, <3>3 DEF TypeOK
  <2> QED
    BY <2>4, <2>5
<1>4. ASSUME NEW d \in Executions, Moves(d) PROVE Current(e)'
  <2>1. Live(e)
    BY <1>4, MoveStep, MoveLive
  <2>2. Current(e)
    BY <2>1 DEF AllCurrent
  <2>3. ~Disturb(d)
    BY DEF NoErrors, Disturb, PollError, HeartbeatError, FinishError, Fault
  <2>4. faults' = faults
    BY <1>4, <2>3 DEF Moves, Execute, HandlerReturn, Renew, Begin, LoopExit, PollCancel, Finish,
                      FinishRejected, Heartbeat, HeartbeatRejected
  <2>5. ASSUME Finish(d), d[1] = t PROVE FALSE
    <3>1. Live(d)
      BY <2>5 DEF Finish, Finishing
    <3>2. d[2] = attempt[t]
      BY <2>5, <3>1 DEF AllCurrent
    <3>3. d = e
      BY <2>2, <2>5, <3>2 DEF Executions
    <3> QED
      BY <2>5, <3>3 DEF Finish, TypeOK, Execution
  <2>6. /\ status'[t] = "running"
        /\ lease'[t] = "live"
    <3>1. CASE Finish(d)
      BY <2>2, <2>5, <3>1 DEF Finish, FinishRow, TypeOK
    <3>2. CASE Heartbeat(d)
      BY <2>2, <3>2 DEF Heartbeat, TypeOK
    <3>3. CASE ~Finish(d) /\ ~Heartbeat(d)
      BY <1>4, <2>2, <2>3, <3>3 DEF Moves, Execute, HandlerReturn, Renew, Begin, LoopExit,
         PollCancel, FinishRejected, HeartbeatRejected, rows
    <3> QED
      BY <3>1, <3>2, <3>3
  <2>7. Guards(t, n)'
    BY <1>4, <2>2, <2>4, <2>6, GuardMove
  <2>8. attempt' = attempt
    BY <1>4, MoveStep
  <2> QED
    BY <2>2, <2>6, <2>7, <2>8
<1>5. ASSUME NEW p \in Procs, Crash(p) \/ Stop(p) \/ Stopped(p) \/ Restart(p) PROVE Current(e)'
  <2>1. UNCHANGED <<status, owner, lease, attempt>> /\ exec'[e] = exec[e]
    BY <1>5, ProcessLive
  <2> QED
    BY <1>0, <2>1
<1>6. UNCHANGED vars => Current(e)'
  BY <1>0 DEF vars, rows
<1> QED
  BY <1>1, <1>2, <1>3, <1>4, <1>5, <1>6 DEF Next, Moves

LEMMA CurrentInit == Init => AllCurrent
  BY DEF Init, AllCurrent, Live, Unstarted

(***************************************************************************)
(* Handlers of tasks on one resource never run at once, nor do two         *)
(* attempts of a task, whatever crashes and stops, unless a process or the *)
(* database stalls longer than the lease.                                  *)
(***************************************************************************)
THEOREM ExclusionCorrect == ASSUME NoErrors, NoStalls PROVE Spec => []HandlersExclude
<1>1. Inductive /\ Attended /\ [Next]_vars => Attended'
  BY AttendedStep DEF Inductive
<1>2. Inductive /\ AllCurrent /\ [Next]_vars => AllCurrent'
  BY CurrentStep DEF Inductive
<1>3. Inductive /\ Attended /\ AllCurrent => HandlersExclude
  <2> SUFFICES ASSUME Inductive, Attended, AllCurrent, NEW d \in Handling, NEW e \in Handling,
                      Contend(d[1], e[1])
               PROVE  d = e
    BY DEF HandlersExclude
  <2>1. d \in Executions /\ e \in Executions /\ Live(d) /\ Live(e)
    BY DEF Handling, Attended, Live
  <2>2. Current(d) /\ Current(e)
    BY <2>1 DEF AllCurrent
  <2>3. /\ d = <<d[1], d[2]>> /\ e = <<e[1], e[2]>> /\ d[1] \in Tasks /\ e[1] \in Tasks
        /\ d[2] = attempt[d[1]] /\ e[2] = attempt[e[1]]
    BY <2>1, <2>2 DEF Current, Executions
  <2>4. status[d[1]] = "running" /\ status[e[1]] = "running"
    BY <2>2, <2>3 DEF Current, Guards, Owns
  <2>5. d[1] = e[1]
    BY <2>3, <2>4 DEF Contend, Inductive, LocksMatchTasks, Active
  <2> QED
    BY <2>3, <2>5
<1> QED
  BY <1>1, <1>2, <1>3, AttendedInit, CurrentInit, InductiveCorrect, PTL DEF Spec

-----------------------------------------------------------------------------
(***************************************************************************)
(* Fencing.  Where every process has an id of its own and executes one     *)
(* task at a time, a row that still names an execution's process was not   *)
(* claimed again: the process has had nothing else to claim it with.       *)
(***************************************************************************)
Distinct == Concurrency = 1 /\ \A p, q \in Procs : workerId[p] = workerId[q] => p = q

Placed == \A e \in Executions : Live(e) => exec[e].proc \in Procs

Fenced == \A e \in Executions : Live(e) /\ Owns(e) => e[2] = attempt[e[1]]

LEMMA PlacedStep ==
  TypeOK /\ ReportsAreTrue /\ AttemptsInOrder /\ Placed /\ [Next]_vars => Placed'
<1> SUFFICES ASSUME TypeOK, ReportsAreTrue, AttemptsInOrder, Placed, [Next]_vars,
                    NEW e \in Executions, Live(e)'
             PROVE  exec'[e].proc \in Procs
  BY DEF Placed
<1>0. ASSUME Live(e), exec'[e].proc = exec[e].proc PROVE exec'[e].proc \in Procs
  BY <1>0 DEF Placed
<1>1. ASSUME NEW u \in Tasks, Api(u) \/ LeaseExpire(u) \/ Stall(u)
      PROVE  Live(e) /\ exec'[e].proc = exec[e].proc
  BY <1>1 DEF Api, CreateSelect, CreateInsert, CreateConflict, RequestCancel, LeaseExpire,
              Stall, Expire, rows, Live
<1>2. ASSUME NEW p \in Procs, NEW u \in Tasks, Claim(p, u) \/ ClaimLost(p, u)
      PROVE  exec'[e].proc \in Procs
  <2>1. exec'[e] = exec[e] \/ exec'[e] = Attempt(p, "claimed") \/ exec'[e] = Attempt(p, "done")
    BY <1>2, ClaimStep
  <2> QED
    BY <2>1, <1>0 DEF Attempt, Live
<1>3. ASSUME NEW d \in Executions, Moves(d) PROVE Live(e) /\ exec'[e].proc = exec[e].proc
  <2>1. CASE d = e
    BY <1>3, <2>1, MoveLive
  <2>2. CASE d # e
    BY <1>3, <2>2, MoveStep DEF Live
  <2> QED
    BY <2>1, <2>2
<1>4. ASSUME NEW p \in Procs, Crash(p) \/ Stop(p) \/ Stopped(p) \/ Restart(p)
      PROVE  Live(e) /\ exec'[e].proc = exec[e].proc
  <2>1. exec'[e] = exec[e]
    BY <1>4, ProcessLive
  <2> QED
    BY <2>1 DEF Live
<1>5. UNCHANGED vars => Live(e) /\ exec'[e].proc = exec[e].proc
  BY DEF vars, Live
<1> QED
  BY <1>0, <1>1, <1>2, <1>3, <1>4, <1>5 DEF Next, Moves

LEMMA FencedStep ==
  ASSUME Distinct, TypeOK, ReportsAreTrue, AttemptsInOrder, RowsMatchCalls, Admitted,
         Placed, Fenced,
         [Next]_vars
  PROVE  Fenced'
<1> SUFFICES ASSUME NEW e \in Executions, Live(e)', Owns(e)'
             PROVE  e[2] = attempt'[e[1]]
  BY DEF Fenced
<1> PICK t \in Tasks, n \in Attempts : e = <<t, n>>
  BY DEF Executions
<1>0. ASSUME Live(e), Owns(e), attempt'[t] = attempt[t] PROVE e[2] = attempt'[e[1]]
  BY <1>0 DEF Fenced
<1>1. ASSUME NEW u \in Tasks, Api(u) PROVE Live(e) /\ Owns(e) /\ attempt'[t] = attempt[t]
  BY <1>1 DEF Api, CreateSelect, CreateInsert, CreateConflict, RequestCancel, rows, TypeOK,
              Live, Owns
<1>2. ASSUME NEW u \in Tasks, LeaseExpire(u) \/ Stall(u)
      PROVE  Live(e) /\ Owns(e) /\ attempt'[t] = attempt[t]
  BY <1>2 DEF LeaseExpire, Stall, Expire, Live, Owns
<1>3. ASSUME NEW p \in Procs, NEW u \in Tasks, Claim(p, u) \/ ClaimLost(p, u)
      PROVE  e[2] = attempt'[e[1]]
  <2> DEFINE c == <<u, attempt[u] + 1>>
  <2>1. /\ c \in Executions /\ attempt' = [attempt EXCEPT ![u] = attempt[u] + 1]
        /\ \A d \in Executions \ {c} : exec'[d] = exec[d]
    BY <1>3, ClaimStep
  <2>2. /\ Running(p) = {}
        /\ status' = [status EXCEPT ![u] = "running"]
        /\ owner' = [owner EXCEPT ![u] = workerId[p]]
    <3>1. Cardinality(Running(p)) < 1
      BY <1>3 DEF Claim, ClaimLost, CanClaim, Distinct
    <3>2. IsFiniteSet(Running(p))
      BY DEF Admitted
    <3>3. Running(p) = {}
      BY <3>1, <3>2, FS_CardinalityType, FS_EmptySet
    <3> QED
      BY <1>3, <3>3 DEF Claim, ClaimLost, ClaimRow
  <2>3. CASE e = c
    BY <2>1, <2>3 DEF TypeOK
  <2>4. CASE e # c
    <3>1. exec'[e] = exec[e] /\ Live(e)
      BY <2>1, <2>4 DEF Live
    <3>2. t # u
      <4> SUFFICES ASSUME t = u PROVE FALSE
        OBVIOUS
      <4>1. workerId[exec[e].proc] = workerId[p]
        BY <2>2, <3>1 DEF Owns, TypeOK
      <4>2. exec[e].proc \in Procs
        BY <3>1 DEF Placed
      <4>3. exec[e].proc = p
        BY <4>1, <4>2 DEF Distinct
      <4> QED
        BY <2>2, <3>1, <4>3 DEF Running
    <3> QED
      BY <1>0, <2>1, <2>2, <3>1, <3>2 DEF Owns, TypeOK
  <2> QED
    BY <2>3, <2>4
<1>4. ASSUME NEW d \in Executions, Moves(d) PROVE e[2] = attempt'[e[1]]
  <2>1. Live(e) /\ exec'[e].proc = exec[e].proc
    <3>1. CASE d = e
      BY <1>4, <3>1, MoveLive
    <3>2. CASE d # e
      BY <1>4, <3>2, MoveStep DEF Live
    <3> QED
      BY <3>1, <3>2
  <2>2. owner' = owner /\ (status'[t] = "running" => status[t] = "running")
    <3>1. ASSUME FinishRow(d), exec[d].pc \in Finishing
          PROVE  owner' = owner /\ (status'[t] = "running" => status[t] = "running")
      BY <3>1 DEF FinishRow, Outcome, Finishing, TypeOK
    <3> QED
      BY <1>4, <3>1 DEF Moves, Execute, HandlerReturn, Renew, Disturb, Begin, LoopExit,
         PollCancel, Finish, FinishRejected, Heartbeat, HeartbeatRejected, PollError,
         HeartbeatError, FinishError, rows
  <2>3. Owns(e)
    BY <2>1, <2>2 DEF Owns
  <2>4. attempt' = attempt
    BY <1>4, MoveStep
  <2> QED
    BY <1>0, <2>1, <2>3, <2>4
<1>5. ASSUME NEW p \in Procs, Crash(p) \/ Stop(p) \/ Stopped(p) \/ Restart(p)
      PROVE  Live(e) /\ Owns(e) /\ attempt'[t] = attempt[t]
  <2>1. UNCHANGED <<status, owner, lease, attempt>> /\ exec'[e] = exec[e]
    BY <1>5, ProcessLive
  <2> QED
    BY <2>1 DEF Live, Owns
<1>6. UNCHANGED vars => Live(e) /\ Owns(e) /\ attempt'[t] = attempt[t]
  BY DEF vars, rows, Live, Owns
<1> QED
  BY <1>0, <1>1, <1>2, <1>3, <1>4, <1>5, <1>6 DEF Next, Moves

(***************************************************************************)
(* Who takes a row out of running is a live execution that owns it, and    *)
(* moves on itself.                                                        *)
(***************************************************************************)
LEMMA EndedBy ==
  ASSUME TypeOK, RowsMatchCalls, NEW t \in Tasks, status[t] = "running", status'[t] # "running", [Next]_vars
  PROVE  \E e \in Executions : e[1] = t /\ Live(e) /\ Owns(e) /\ exec'[e] # exec[e]
<1>1. ASSUME NEW u \in Tasks, Api(u) \/ LeaseExpire(u) \/ Stall(u) PROVE FALSE
  <2>1. CASE CreateInsert(u)
    BY <1>1, <2>1 DEF CreateInsert, TypeOK, RowsMatchCalls
  <2>2. CASE ~CreateInsert(u)
    BY <1>1, <2>2 DEF Api, CreateSelect, CreateConflict, RequestCancel, LeaseExpire,
                      Stall, Expire, rows
  <2> QED
    BY <2>1, <2>2
<1>2. ASSUME NEW p \in Procs, NEW u \in Tasks, Claim(p, u) \/ ClaimLost(p, u) PROVE FALSE
  BY <1>2 DEF Claim, ClaimLost, ClaimRow, TypeOK
<1>3. ASSUME NEW d \in Executions, Moves(d)
      PROVE  d[1] = t /\ Live(d) /\ Owns(d) /\ exec'[d] # exec[d]
  <2>1. FinishRow(d) /\ exec[d].pc \in Finishing
    BY <1>3 DEF Moves, Execute, HandlerReturn, Renew, Disturb, Begin, LoopExit,
       PollCancel, Finish, FinishRejected, Heartbeat, HeartbeatRejected, PollError,
       HeartbeatError, FinishError, rows
  <2>2. d[1] = t /\ Live(d) /\ Owns(d)
    BY <2>1 DEF FinishRow, TypeOK, Live, Finishing
  <2>3. Finish(d) \/ FinishError(d)
    BY <1>3, <2>1 DEF Moves, Execute, HandlerReturn, Renew, Disturb, Begin, LoopExit,
       PollCancel, Finish, FinishRejected, Heartbeat, HeartbeatRejected, PollError,
       HeartbeatError, FinishError, rows
  <2>4. exec'[d].pc = "done" \/ exec'[d].pc = AfterFailedFinish(d)
    BY <2>3 DEF Finish, FinishError, TypeOK, Execution
  <2> QED
    BY <2>1, <2>2, <2>4 DEF AfterFailedFinish, Finishing
<1>4. ASSUME NEW p \in Procs, Crash(p) \/ Stop(p) \/ Stopped(p) \/ Restart(p) PROVE FALSE
  BY <1>4, ProcessStep DEF rows
<1>5. ~UNCHANGED vars
  BY DEF vars, rows
<1> QED
  BY <1>1, <1>2, <1>3, <1>4, <1>5 DEF Next, Moves

Latest(t) == status[t] = "running" /\ status'[t] # "running" =>
                exec'[<<t, attempt[t]>>] # exec[<<t, attempt[t]>>]

LEMMA LatestEnds ==
  ASSUME TypeOK, RowsMatchCalls, [Next]_vars, NEW t \in Tasks,
         \A e \in Executions : Live(e) /\ Owns(e) => e[2] = attempt[e[1]]
  PROVE  Latest(t)
<1> SUFFICES ASSUME status[t] = "running", status'[t] # "running"
             PROVE  exec'[<<t, attempt[t]>>] # exec[<<t, attempt[t]>>]
  BY DEF Latest
<1>1. PICK e \in Executions : e[1] = t /\ Live(e) /\ Owns(e) /\ exec'[e] # exec[e]
  BY EndedBy
<1>2. e = <<t, attempt[t]>>
  BY <1>1 DEF Executions
<1> QED
  BY <1>1, <1>2

(***************************************************************************)
(* Only the latest attempt ends a task, whatever crashes, stalls and fails,*)
(* where every process has a worker_id of its own and one slot.            *)
(***************************************************************************)
THEOREM LatestCorrect == ASSUME Distinct PROVE Spec => LatestAttemptEnds
<1>1. Init => Placed /\ Fenced
  BY DEF Init, Placed, Fenced, Live, Unstarted
<1>2. Inductive /\ Admitted /\ [Next]_vars => Admitted'
  BY AdmittedStep DEF Inductive
<1>3. Inductive /\ Placed /\ [Next]_vars => Placed'
  BY PlacedStep DEF Inductive
<1>4. Inductive /\ Admitted /\ Placed /\ Fenced /\ [Next]_vars => Fenced'
  BY FencedStep DEF Inductive
<1>5. Inductive /\ Fenced /\ [Next]_vars => \A t \in Tasks : Latest(t)
  BY LatestEnds DEF Inductive, Fenced
<1>6. Inductive /\ Fenced /\ [Next]_vars => [\A t \in Tasks : Latest(t)]_vars
  BY <1>5
<1>7. Spec => [][\A t \in Tasks : Latest(t)]_vars
  BY <1>1, <1>2, <1>3, <1>4, <1>6, AdmittedInit, InductiveCorrect, PTL DEF Spec
<1> QED
  BY <1>7 DEF LatestAttemptEnds, Latest

(***************************************************************************)
(* So it does for any worker ids and any concurrency, as long as nothing   *)
(* stalls longer than a lease and the database does not fail.              *)
(***************************************************************************)
THEOREM LatestUnstalled == ASSUME NoErrors, NoStalls PROVE Spec => LatestAttemptEnds
<1>1. Inductive /\ AllCurrent /\ [Next]_vars => AllCurrent'
  BY CurrentStep DEF Inductive
<1>2. Inductive /\ AllCurrent /\ [Next]_vars => [\A t \in Tasks : Latest(t)]_vars
  BY LatestEnds DEF Inductive, AllCurrent, Current
<1>3. Spec => [][\A t \in Tasks : Latest(t)]_vars
  BY <1>1, <1>2, CurrentInit, InductiveCorrect, PTL DEF Spec
<1> QED
  BY <1>3 DEF LatestAttemptEnds, Latest
=============================================================================
