----------------------------- MODULE Aggregates -----------------------------
(***************************************************************************)
(* Host aggregates (app/openstack/routes/nova.py): rows of os_aggregates   *)
(* with an integer key that the service counts up itself, and a unique     *)
(* name.  A client addresses an aggregate by either, in one text: the text *)
(* of a number is the number here, and a name may be one.  Creating,       *)
(* updating and deleting are two statements each that commit one by one,   *)
(* a SELECT and a write that trusts what it read.                          *)
(*                                                                         *)
(* Requests are numbered in the order they begin.  Of a row its name is    *)
(* kept, and whose data (zone, hosts and metadata) it has: every write     *)
(* writes them all, those not sent as they were read.                      *)
(***************************************************************************)
EXTENDS Integers, FiniteSetsExt

CONSTANTS Orders,         \* the requests, 1..n
          Titles,         \* bound: the names requests use; some may be numbers
          SeedTitles      \* SeedTitles[i]: the name of the seeded aggregate i

ASSUME AggregatesAssumption ==
  /\ Orders \subseteq Nat \ {0}
  /\ DOMAIN SeedTitles \subseteq Nat \ {0} /\ IsFiniteSet(DOMAIN SeedTitles)
  /\ \A i, j \in DOMAIN SeedTitles : SeedTitles[i] = SeedTitles[j] => i = j

VARIABLES aggregate,  \* aggregate[i]: name, and the request whose data the row has
          order,      \* order[r]: what request r has read and decided so far
          written     \* statements that have written an aggregate

aggregateVars == <<aggregate, order, written>>

Unsent == [at |-> "idle", op |-> "none", address |-> 0, row |-> 0, title |-> 0,
           readAt |-> 0, storedAt |-> 0]

(* The seed's data is nobody's. *)
AggregatesInit ==
  /\ aggregate = [i \in DOMAIN SeedTitles |-> [name |-> SeedTitles[i], by |-> 0]]
  /\ order = [r \in Orders |-> Unsent]
  /\ written = 0

-----------------------------------------------------------------------------
First(r) ==
  /\ order[r].at = "idle"
  /\ \A q \in Orders : q < r => order[q].at # "idle"

(* The SELECT of request r: the row it settles on, and the name to write. *)
Reads(r, op, address, i, title) ==
  /\ order' = [order EXCEPT ![r] =
       [at |-> "write", op |-> op, address |-> address, row |-> i, title |-> title,
        readAt |-> written, storedAt |-> 0]]
  /\ UNCHANGED <<aggregate, written>>

Fails(r) == order' = [order EXCEPT ![r].at = "failed"] /\ UNCHANGED <<aggregate, written>>

(* The statement that writes row i, and the answer. *)
Writes(r, i) ==
  /\ order' = [order EXCEPT ![r].at = "done", ![r].row = i, ![r].storedAt = written + 1]
  /\ written' = written + 1

Titled(title) == {i \in DOMAIN aggregate : aggregate[i].name = title}

Replaced(r, i) ==
  aggregate' = [j \in DOMAIN aggregate \cup {i} |->
                  IF j = i THEN [name |-> order[r].title, by |-> r] ELSE aggregate[j]]

(* SELECT COALESCE(MAX(id), 0) + 1. *)
NextNumber == Max(DOMAIN aggregate \cup {0}) + 1

AskToCreate(r) ==
  /\ First(r)
  /\ \E title \in Titles : Reads(r, "create", title, NextNumber, title)

(* Mutant: the conflict is resolved on the key. *)
InsertOnNumber(r) ==
  /\ order[r].at = "write" /\ order[r].op = "create"
  /\ Titled(order[r].title) \ {order[r].row} = {}
  /\ Replaced(r, order[r].row) /\ Writes(r, order[r].row)

(* INSERT ... ON CONFLICT (name) DO UPDATE: an aggregate that has the name *)
(* keeps its key and gets the data; another that has the key by now makes  *)
(* the statement fail.                                                     *)
Insert(r) ==
  LET i == order[r].row IN
  /\ order[r].at = "write" /\ order[r].op = "create"
  /\ \/ \E j \in Titled(order[r].title) : Replaced(r, j) /\ Writes(r, j)
     \/ /\ Titled(order[r].title) = {} /\ i \notin DOMAIN aggregate
        /\ Replaced(r, i) /\ Writes(r, i)
     \/ Titled(order[r].title) = {} /\ i \in DOMAIN aggregate /\ Fails(r)

(* _fetch_aggregate: id::text = address OR name = address, LIMIT 1. *)
Found(address) == {i \in DOMAIN aggregate : i = address \/ aggregate[i].name = address}

Addressable == Titles \cup DOMAIN SeedTitles \cup {order[r].row : r \in Orders}

AskToUpdate(r) ==
  /\ First(r)
  /\ \E address \in Addressable : \E i \in Found(address) :
       \E title \in Titles \cup {aggregate[i].name} : Reads(r, "update", address, i, title)

(* UPDATE ... WHERE id, all columns.  The name of another row, or a row    *)
(* that has gone, makes the request fail.                                  *)
UpdateRow(r) ==
  LET i == order[r].row IN
  /\ order[r].at = "write" /\ order[r].op = "update"
  /\ IF i \in DOMAIN aggregate /\ Titled(order[r].title) \subseteq {i}
       THEN Replaced(r, i) /\ Writes(r, i)
       ELSE Fails(r)

AskToDelete(r) ==
  /\ First(r)
  /\ \E address \in Addressable : \E i \in Found(address) : Reads(r, "delete", address, i, 0)

(* DELETE ... WHERE id: the answer is 204 whether or not the row was there. *)
DeleteRow(r) ==
  /\ order[r].at = "write" /\ order[r].op = "delete"
  /\ aggregate' = [i \in DOMAIN aggregate \ {order[r].row} |-> aggregate[i]]
  /\ Writes(r, order[r].row)

(* A request is lost between its statements. *)
OrderLost(r) == order[r].at = "write" /\ Fails(r)

-----------------------------------------------------------------------------
AggregatesNext ==
  \E r \in Orders :
    \/ AskToCreate(r) \/ Insert(r) \/ AskToUpdate(r) \/ UpdateRow(r)
    \/ AskToDelete(r) \/ DeleteRow(r) \/ OrderLost(r)

AggregatesSpec == AggregatesInit /\ [][AggregatesNext]_aggregateVars
=============================================================================
