----------------------------- MODULE TaskPromise -----------------------------
(***************************************************************************)
(* What the task engine promises its clients, without workers, leases or   *)
(* attempts: an accepted task holds its resource until it ends, a resource *)
(* has one holder at a time, an idempotency key names one task, and every  *)
(* accepted task ends exactly once.                                        *)
(***************************************************************************)
CONSTANTS Tasks, ResourceKeys, IdempotencyKeys, None

VARIABLES
    state,    \* "none", "active", or the outcome of the task
    holder,   \* the task that holds each resource
    used      \* the idempotency keys that name a task

pvars == <<state, holder, used>>

Outcomes == {"success", "error", "cancelled"}

PInit ==
    /\ state = [t \in Tasks |-> "none"]
    /\ holder = [k \in ResourceKeys |-> None]
    /\ used = {}

Accept(t) ==
    /\ state[t] = "none"
    /\ state' = [state EXCEPT ![t] = "active"]
    /\ \E k \in ResourceKeys \cup {None} :
          \/ k = None /\ UNCHANGED holder
          \/ k # None /\ holder[k] = None /\ holder' = [holder EXCEPT ![k] = t]
    /\ \E i \in (IdempotencyKeys \cup {None}) \ used : used' = used \cup ({i} \ {None})

End(t) ==
    /\ state[t] = "active"
    /\ \E o \in Outcomes : state' = [state EXCEPT ![t] = o]
    /\ holder' = [k \in ResourceKeys |-> IF holder[k] = t THEN None ELSE holder[k]]
    /\ UNCHANGED used

PNext == \E t \in Tasks : Accept(t) \/ End(t)

PSafety == PInit /\ [][PNext]_pvars

(***************************************************************************)
(* Nothing stays locked for ever.                                          *)
(***************************************************************************)
Promise == PSafety /\ \A t \in Tasks : WF_pvars(End(t))
=============================================================================
