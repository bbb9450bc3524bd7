------------------------ MODULE AggregatesProperties ------------------------
(* What the aggregates promise to those who create and update them.        *)
EXTENDS Aggregates

(* What names an aggregate, or addresses it. *)
Wordings == Titles \cup Nat \cup {SeedTitles[i] : i \in DOMAIN SeedTitles}

(* Type invariant of the rows and the requests (nova.py). *)
AggregatesTypeOK ==
  /\ DOMAIN aggregate \subseteq Nat \ {0} /\ IsFiniteSet(DOMAIN aggregate)
  /\ aggregate \in [DOMAIN aggregate -> [name : Wordings, by : Orders \cup {0}]]
  /\ written \in Nat
  /\ order \in [Orders ->
       [at : {"idle", "write", "done", "failed"}, op : {"none", "create", "update", "delete"},
        address : Wordings, row : Nat, title : Wordings, readAt : Nat, storedAt : Nat]]

Confirmed(r) == order[r].at = "done" /\ order[r].op \in {"create", "update"}

(* What r was told is still so. *)
Stands(r) ==
  /\ order[r].row \in DOMAIN aggregate
  /\ aggregate[order[r].row] = [name |-> order[r].title, by |-> r]

(* q has written after r and named r's aggregate, by key or by name, or    *)
(* had found the row of that key before r wrote it.                        *)
Reaches(q, r) ==
  /\ order[r].storedAt < order[q].storedAt
  /\ \/ order[q].address \in {order[r].row, order[r].title}
     \/ /\ order[q].op # "create"
        /\ order[q].row = order[r].row
        /\ order[q].readAt < order[r].storedAt

(* A confirmed aggregate keeps its name and its data until another request *)
(* addresses it, or writes the row it had found before: two requests that  *)
(* count up to the same key do not share it, a name that looks like a key  *)
(* does not lead a request astray that did not use it, and a key that is   *)
(* given again (MAX(id) + 1 after a deletion) is not taken for the old one *)
(* by a request that looked for it later.                                  *)
AggregateKept ==
  \A r \in Orders : Confirmed(r) => Stands(r) \/ \E q \in Orders : Reaches(q, r)
=============================================================================
