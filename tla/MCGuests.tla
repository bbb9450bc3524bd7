------------------------------- MODULE MCGuests -------------------------------
(***************************************************************************)
(* Instances of Guests for TLC.                                            *)
(***************************************************************************)
EXTENDS GuestsProperties, TLC, FiniteSets

CONSTANTS g1, j1, j2, j3, n1, n2, k1, k2, a, b, q1, q2

SymmetricJobs     == Permutations(Jobs)
SymmetricRequests == Permutations(Requests)
SymmetricCalls    == SymmetricJobs \cup SymmetricRequests

Plain == [k \in Keys |-> IF k = k1 THEN a ELSE None]

OneGuest(kind, status) ==
    [r \in {g1} |-> [kind |-> kind, vmid |-> 100, node |-> n1, version |-> 1,
                     status |-> status, cfg |-> Plain, config |-> Plain]]

StoppedVm == OneGuest("qemu", "stopped")
RunningVm == OneGuest("qemu", "running")

(* Bound: one of the tasks changes options. *)
FewChanges == Cardinality({j \in Jobs : job[j].op \in {"update", "move-disk"}}) <= 1

TwoVmids == {100, 101}
OneVmid  == {100}
=============================================================================
