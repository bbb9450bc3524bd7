------------------------- MODULE TaskQueueProperties -------------------------
(***************************************************************************)
(* What the task engine should and should not do, and the promise it       *)
(* implements.                                                             *)
(***************************************************************************)
EXTENDS TaskQueue

(***************************************************************************)
(* The table resource_locks and the column tasks.status, written by        *)
(* different statements of create and finish, always agree: a lock belongs *)
(* to the one queued or running task that asked for it, and no queued or   *)
(* running task is without the lock it asked for.                          *)
(***************************************************************************)
LocksMatchTasks ==
    /\ \A k \in ResourceKeys :
          locks[k] # None => status[locks[k]] \in Active /\ req[locks[k]].key = k
    /\ \A t \in Tasks :
          status[t] \in Active /\ req[t].key # None => locks[req[t].key] = t

(***************************************************************************)
(* However two calls of create with one idempotency key interleave, at     *)
(* most one of them inserts a row; and a call that was answered with an    *)
(* existing task really had one to be answered with.                       *)
(***************************************************************************)
OneTaskPerIdempotencyKey ==
    /\ \A t, u \in Tasks :
          /\ status[t] # "absent" /\ status[u] # "absent"
          /\ req[t].idem # None /\ req[t].idem = req[u].idem
          => t = u
    /\ \A t \in Tasks : call[t] = "existing" => KeyTaken(req[t])

(***************************************************************************)
(* A terminal status tells what happened: success, that the handler of an  *)
(* attempt returned; cancelled, that somebody asked for it.                *)
(***************************************************************************)
OutcomeIsDeserved ==
    \A t \in Tasks :
       /\ status[t] = "success" => \E n \in Attempts : exec[<<t, n>>].handler = "ok"
       /\ status[t] = "cancelled" => cancelRequested[t]

(***************************************************************************)
(* A task is executed again only after something went wrong: crashes,      *)
(* stalls and database errors account for every attempt after the first.   *)
(***************************************************************************)
RetriesAreFaults == \A t \in Tasks : attempt[t] <= 1 + faults

(***************************************************************************)
(* Handlers of tasks on one resource never run at the same time, nor do    *)
(* two attempts of one task.                                               *)
(***************************************************************************)
Handling == {e \in Executions : exec[e].handler = "running"}

Contend(t, u) == t = u \/ (req[t].key # None /\ req[t].key = req[u].key)

HandlersExclude == \A d, e \in Handling : Contend(d[1], e[1]) => d = e

(***************************************************************************)
(* "Bounded durable task worker": a process never runs more handlers than  *)
(* its concurrency.                                                        *)
(***************************************************************************)
HandlersBounded ==
    \A p \in Procs : Cardinality({e \in Handling : exec[e].proc = p}) <= Concurrency

(***************************************************************************)
(* A terminal status is final, whichever stale executions are still        *)
(* about, and the row's lock is never taken again.                         *)
(***************************************************************************)
TerminalIsFinal ==
    [][\A t \in Tasks : status[t] \in Terminal =>
          /\ status'[t] = status[t]
          /\ \A k \in ResourceKeys : locks'[k] # t]_vars

(***************************************************************************)
(* Only the latest attempt of a task ends it: a worker whose lease was     *)
(* lost to another is fenced off by the worker_id in the WHERE clause.     *)
(***************************************************************************)
LatestAttemptEnds ==
    [][\A t \in Tasks : status[t] = "running" /\ status'[t] # "running" =>
          exec'[<<t, attempt[t]>>] # exec[<<t, attempt[t]>>]]_vars

(***************************************************************************)
(* A cancellation recorded while the task was queued is persistent: if a   *)
(* worker knows the type, the task ends as cancelled even when the process *)
(* that claims it crashes.                                                 *)
(***************************************************************************)
QueuedCancelHonoured ==
    \A t \in Tasks :
       status[t] = "queued" /\ cancelRequested[t] /\ req[t].handled
          ~> status[t] = "cancelled"

-----------------------------------------------------------------------------
(***************************************************************************)
(* The strengthening that makes the invariants above inductive: a row      *)
(* exists exactly when its create call committed, an attempt that was      *)
(* never claimed has left no trace, an execution is about to report only   *)
(* what its handler or a client did, and a task whose lease has run out,   *)
(* or will because nobody renews it, has already been paid for.            *)
(***************************************************************************)
RowsMatchCalls == \A t \in Tasks : status[t] = "absent" <=> call[t] # "created"

AttemptsInOrder ==
    \A t \in Tasks : \A n \in Attempts : n > attempt[t] => exec[<<t, n>>] = Unstarted

ReportsAreTrue ==
    \A e \in Executions :
       /\ exec[e].pc = "succeed" => exec[e].handler = "ok"
       /\ exec[e].pc = "cancel" => cancelRequested[e[1]]
       /\ exec[e].pc = "claimed" => exec[e].handler = "none"
       /\ exec[e].heartbeat => exec[e].pc = "poll"

LeasesArePaid ==
    \A t \in Tasks :
       /\ status[t] \in {"absent", "queued"} => attempt[t] = 0
       /\ attempt[t] <= 1 + faults
       /\ status[t] = "running" /\ (lease[t] = "expired" \/ ~Guarded(t))
             => attempt[t] <= faults

Inductive ==
    /\ TypeOK
    /\ RowsMatchCalls /\ LocksMatchTasks /\ OneTaskPerIdempotencyKey
    /\ AttemptsInOrder /\ ReportsAreTrue /\ OutcomeIsDeserved
    /\ LeasesArePaid

-----------------------------------------------------------------------------
(***************************************************************************)
(* The engine implements the promise.  An idempotency key is used once a   *)
(* row carries it.                                                         *)
(***************************************************************************)
PromiseState == [t \in Tasks |->
    CASE status[t] = "absent" -> "none" [] status[t] \in Active -> "active"
      [] OTHER -> status[t]]

UsedKeys == {req[t].idem : t \in {u \in Tasks : status[u] # "absent"}} \ {None}

P == INSTANCE TaskPromise WITH state <- PromiseState, holder <- locks, used <- UsedKeys

PromiseKept == P!Promise

PromiseSafety == P!PSafety
=============================================================================
