----------------------------- MODULE MCTaskQueue -----------------------------
(***************************************************************************)
(* Small instances of TaskQueue for TLC.                                   *)
(***************************************************************************)
EXTENDS TaskQueueProperties, TLC

CONSTANTS t1, t2, t3, p1, p2, w1, w2, k1, i1

(***************************************************************************)
(* main.py gives every process the worker_id "simulator-worker"; the tests *)
(* of the repository give each worker its own.                             *)
(***************************************************************************)
SharedIds   == [p \in {p1, p2} |-> w1]
DistinctIds == (p1 :> w1 @@ p2 :> w2)
OneProcess  == (p1 :> w1)

Ask(k, i, h) == [key |-> k, idem |-> i, handled |-> h]

(***************************************************************************)
(* One resource contended with and without an idempotency key, a task      *)
(* without a resource, and a type no worker knows.                         *)
(***************************************************************************)
AllRequests  == {Ask(k1, None, TRUE), Ask(k1, i1, TRUE), Ask(None, i1, TRUE),
                 Ask(k1, None, FALSE)}
KeyedAndFree == {Ask(k1, None, TRUE), Ask(None, None, TRUE)}
OneRequest   == {Ask(k1, None, TRUE)}

Symmetric == Permutations({t1, t2, t3})
Symmetric2 == Permutations({t1, t2})
=============================================================================
