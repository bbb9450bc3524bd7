---------------------------- MODULE Collections ----------------------------
(***************************************************************************)
(* The collections of the OpenStack services and the clients that page     *)
(* through them.  Two kinds of collection differ in ways that matter:      *)
(*   - an engine type lives in os_api_objects as a document beside its     *)
(*     columns (app/openstack/schema_engine.py): it is addressed by uuid   *)
(*     or by name, listed ORDER BY created_at, and a PUT to an address     *)
(*     nobody has creates an object;                                       *)
(*   - a route type has a table of its own (app/openstack/routes), is      *)
(*     addressed by uuid, and is listed ORDER BY created_at, id; the few   *)
(*     that are listed by name (users, projects, nodes) are not covered.   *)
(* Statements commit one by one: a request that runs two of them can be    *)
(* interrupted by any other request between the two.                       *)
(*                                                                         *)
(* A call that needs a fresh uuid uses its own name for it.  One project   *)
(* calls; the rows with no project are the ones seeded for everybody.  Of  *)
(* a document its id and its name are kept; a name may be any text, one    *)
(* that is a row's uuid included.  Rows written by one seeding transaction *)
(* have the same created_at, and only those (`created` is 0).              *)
(***************************************************************************)
EXTENDS Integers, Sequences, FiniteSets, SequencesExt

CONSTANTS Seeds,         \* the seeded rows' uuids, a sequence in the order of the uuids
          SeedType,      \* SeedType[s]: the type of a seeded row
          SeedName,      \* SeedName[s]: its name
          SeedDoc,       \* SeedDoc[s]: its document, which may show another name or id
          Shared,        \* the seeded rows that belong to no project
          EngineTypes, RouteTypes,
          ById,          \* the engine types whose paths call their parameter "id"
          ActionType,    \* the engine type that records the actions called
          Calls,         \* requests that write
          Unknown,       \* uuids no row has at the beginning
          Names,         \* texts given as names, uuids possibly among them
          Default,       \* the name an object gets when its body has none
          Blank,         \* an empty name
          None,          \* nothing, as an absent name
          Addresses,     \* bound: the addresses requests are made to
          Bodies,        \* bound: the [name, id] of request bodies; either may be None
          Walkers,       \* clients that read a collection page by page
          Limits         \* bound: page sizes; 0 is no limit

Types == EngineTypes \cup RouteTypes
Ids == ToSet(Seeds) \cup Calls \cup Unknown
Texts == Ids \cup Names \cup {Default}

ASSUME CollectionsAssumption ==
  /\ IsFiniteSet(Ids) /\ Seeds \in Seq(ToSet(Seeds)) /\ IsInjective(Seeds)
  /\ ActionType \in EngineTypes /\ ById \subseteq EngineTypes
  /\ EngineTypes \cap RouteTypes = {}
  /\ SeedType \in [ToSet(Seeds) -> Types]
  /\ Shared \subseteq {s \in ToSet(Seeds) : SeedType[s] \in EngineTypes}
  /\ SeedName \in [ToSet(Seeds) -> Names \cup {Default}]
  /\ SeedDoc \in [ToSet(Seeds) -> [id : Texts, name : Names \cup {Default}]]
  /\ Calls \cap (ToSet(Seeds) \cup Unknown) = {}
  /\ Texts \cap {Blank, None} = {}
  /\ Addresses \subseteq (ToSet(Seeds) \cup Unknown \cup Names) \ Calls
  /\ Bodies \subseteq [name : Names \cup {Default, Blank, None}, id : Texts \cup {None}]
  /\ Limits \subseteq Nat

VARIABLES rows,   \* rows[i]: the row whose key is i
          heap,   \* the order in which the database finds the seeded rows
          clock,  \* created_at of the next row
          call,   \* call[c]: what request c has read and decided so far
          walk    \* walk[w]: how far client w has come

vars == <<rows, heap, clock, call, walk>>

(* Every order the database may return rows of equal created_at in.        *)
Unordered == {s \in ToSet(Seeds) : SeedType[s] \in EngineTypes}
Heaps == {h \in [1..Cardinality(Unordered) -> Unordered] : ToSet(h) = Unordered}

Idle == [at |-> "idle", type |-> None, addr |-> None, body |-> None, id |-> None, read |-> None]
NotBegun == [at |-> "idle", type |-> None, limit |-> 0, marker |-> None, last |-> None,
             kept |-> {}, seen |-> {}, twice |-> {}, trace |-> "exact", moved |-> FALSE]

(* `from` remembers, for the properties, which statement the document came *)
(* from.                                                                   *)
Init ==
  /\ rows = [s \in ToSet(Seeds) |->
       [type |-> SeedType[s], shared |-> s \in Shared, created |-> 0,
        name |-> SeedName[s], doc |-> SeedDoc[s], from |-> "seed"]]
  /\ heap \in Heaps
  /\ clock = 1
  /\ call = [c \in Calls |-> Idle]
  /\ walk = [w \in Walkers |-> NotBegun]

-----------------------------------------------------------------------------
(* Writing.                                                                 *)

Given(name) == name \notin {Blank, None}
Or(name, otherwise) == IF Given(name) THEN name ELSE otherwise
Over(field, body) == IF body = None THEN field ELSE body

(* The rows become `new`.  Rows of equal created_at may come in another    *)
(* order then: an UPDATE moves its row in the heap, and the sort is not    *)
(* stable.  The clients lose what is gone, from what they have seen and    *)
(* have yet to see, and as the row their marker was taken from: a row made *)
(* later under the same uuid is another row.                               *)
Store(new) ==
  LET left(i) == IF i \in DOMAIN new THEN i ELSE None
  IN  /\ rows' = new
      /\ heap' \in Heaps
      /\ walk' = [w \in Walkers |->
           [walk[w] EXCEPT !.kept = @ \cap DOMAIN new, !.seen = @ \cap DOMAIN new,
                           !.last = left(@), !.moved = IF heap' = heap THEN @ ELSE TRUE]]

Put(i, row) == Store([j \in DOMAIN rows \cup {i} |-> IF j = i THEN row ELSE rows[j]])
Drop(gone) == Store([j \in DOMAIN rows \ gone |-> rows[j]])

Tick == clock' = clock + 1
Goto(c, record) == call' = [call EXCEPT ![c] = record]
Answer(c) == Goto(c, [Idle EXCEPT !.at = "done"])

NewRow(type, name, doc, from) ==
  [type |-> type, shared |-> FALSE, created |-> clock, name |-> name, doc |-> doc,
   from |-> from]

(* The row i with another name and document: type, project and created_at  *)
(* are never written again.                                                *)
Rewritten(i, name, doc, from) ==
  [type |-> rows[i].type, shared |-> rows[i].shared, created |-> rows[i].created,
   name |-> name, doc |-> doc, from |-> from]

(* {**body, "id": item_id, "name": name}: what the service sets wins. *)
CreatedDocument(i, body) == [id |-> i, name |-> Or(body.name, Default)]

(* POST: one INSERT with a fresh uuid. *)
Create(c) ==
  /\ call[c].at = "idle"
  /\ \E type \in Types, body \in Bodies :
       LET doc == CreatedDocument(c, body)
       IN  Put(c, NewRow(type, doc.name, doc, "create")) /\ (type \in RouteTypes => UNCHANGED heap)
  /\ Tick
  /\ Answer(c)

(* An action on an object is recorded as an object of its own. *)
RecordAction(c) ==
  /\ call[c].at = "idle"
  /\ \E action \in Names :
       Put(c, NewRow(ActionType, action, [id |-> c, name |-> action], "create"))
  /\ Tick
  /\ Answer(c)

(* What clients can address: texts they know and the uuids they were       *)
(* given.                                                                  *)
Known == Addresses \cup (Calls \cap DOMAIN rows)
InRoutes == {i \in DOMAIN rows : rows[i].type \in RouteTypes}

(* The rows of an engine type that an address stands for, in the project.  *)
Addressed(type, addr) ==
  {i \in DOMAIN rows : /\ rows[i].type = type
                       /\ i = addr \/ rows[i].name = addr
                       /\ ~rows[i].shared}

(* PUT or PATCH, the SELECT: one of the rows at the address, if any.       *)
(* Bound: the engine's table takes no row under the uuid of a route's row. *)
FindForUpdate(c) ==
  /\ call[c].at = "idle"
  /\ \E type \in EngineTypes, addr \in Known, body \in Bodies :
       LET found(at, i, row) == Goto(c, [at |-> at, type |-> type, addr |-> addr,
                                         body |-> body, id |-> i, read |-> row])
       IN  \/ \E i \in Addressed(type, addr) : found("found", i, rows[i])
           \/ Addressed(type, addr) = {} /\ addr \notin InRoutes /\ found("unknown", None, None)
  /\ UNCHANGED <<rows, heap, clock, walk>>

(* Mutant: the column keeps the name that was read. *)
UpdateReadName(c) ==
  LET i == call[c].id
      doc == [id |-> i, name |-> Over(call[c].read.doc.name, call[c].body.name)]
  IN  /\ call[c].at = "found"
      /\ IF i \in DOMAIN rows
           THEN Put(i, Rewritten(i, call[c].read.name, doc, "update"))
           ELSE UNCHANGED <<rows, heap, walk>>
      /\ Answer(c)
      /\ UNCHANGED clock

(* Mutant: the row's uuid is not merged last, {**data, **body}. *)
UpdateIdMerged(c) ==
  LET i == call[c].id
      doc == [id |-> Over(call[c].read.doc.id, call[c].body.id),
              name |-> Over(call[c].read.doc.name, call[c].body.name)]
  IN  /\ call[c].at = "found"
      /\ IF i \in DOMAIN rows
           THEN Put(i, Rewritten(i, Or(doc.name, call[c].read.name), doc, "update"))
           ELSE UNCHANGED <<rows, heap, walk>>
      /\ Answer(c)
      /\ UNCHANGED clock

(* The UPDATE by uuid of the document merged from what the SELECT read,    *)
(* {**data, **body, "id": row id}.  A row that has gone in between is not  *)
(* written; the request then fails on the missing row.                     *)
Update(c) ==
  LET i == call[c].id
      doc == [id |-> i, name |-> Over(call[c].read.doc.name, call[c].body.name)]
  IN  /\ call[c].at = "found"
      /\ IF i \in DOMAIN rows
           THEN Put(i, Rewritten(i, Or(doc.name, call[c].read.name), doc, "update"))
           ELSE UNCHANGED <<rows, heap, walk>>
      /\ Answer(c)
      /\ UNCHANGED clock

(* UUID(address), or a fresh uuid for an address that is not one.          *)
NewId(c) == IF call[c].addr \in Ids THEN call[c].addr ELSE c

(* {"id": new id, "name": ..., **body, **path_params}: the document shows  *)
(* the address as its id where the path's parameter has that name; where   *)
(* it has another (allocations/{consumer_uuid}) the id of the body, if it  *)
(* has one, and in either case the body's name even when it is empty.      *)
UpsertedDocument(c) ==
  [id   |-> IF call[c].type \in ById THEN call[c].addr ELSE Over(NewId(c), call[c].body.id),
   name |-> Over(Default, call[c].body.name)]

(* The INSERT for an address that had no row, ON CONFLICT (id) DO UPDATE:  *)
(* a row that has the uuid by now, or had it all along as another type's   *)
(* or everybody's, keeps its type, owner and created_at and loses its      *)
(* document.                                                               *)
Upsert(c) ==
  LET i == NewId(c)
      doc == UpsertedDocument(c)
      name == Or(doc.name, Default)
  IN  /\ call[c].at = "unknown"
      /\ IF i \in DOMAIN rows
           THEN Put(i, Rewritten(i, name, doc, "upsert")) /\ UNCHANGED clock
           ELSE Put(i, NewRow(call[c].type, name, doc, "upsert")) /\ Tick
      /\ Answer(c)

(* DELETE of an engine type: every row at the address. *)
Delete(c) ==
  /\ call[c].at = "idle"
  /\ \E type \in EngineTypes, addr \in Known :
       /\ Addressed(type, addr) # {}
       /\ Drop(Addressed(type, addr))
  /\ Answer(c)
  /\ UNCHANGED clock

(* PUT and DELETE of a route type are one statement; COALESCE keeps the    *)
(* name when the body has none.                                            *)
RouteUpdate(c) ==
  /\ call[c].at = "idle"
  /\ \E i \in Known \cap InRoutes, body \in Bodies :
       LET name == Over(rows[i].name, body.name)
       IN  Put(i, Rewritten(i, name, [id |-> i, name |-> name], "update"))
  /\ Answer(c)
  /\ UNCHANGED <<heap, clock>>

RouteDelete(c) ==
  /\ call[c].at = "idle"
  /\ \E i \in Known \cap InRoutes : Drop({i})
  /\ Answer(c)
  /\ UNCHANGED <<heap, clock>>

-----------------------------------------------------------------------------
(* Reading, page by page.                                                   *)

Precedes(s, i, j) == \E a, b \in DOMAIN s : a < b /\ s[a] = i /\ s[b] = j

(* ORDER BY created_at leaves seeded rows in the order of the heap; a      *)
(* route breaks the tie by uuid.                                           *)
Before(type, i, j) ==
  \/ rows[i].created < rows[j].created
  \/ /\ rows[i].created = rows[j].created
     /\ Precedes(IF type \in EngineTypes THEN heap ELSE Seeds, i, j)

(* The collection as one SELECT returns it: the only sequence in order.    *)
Listings(type) ==
  LET S == {i \in DOMAIN rows : rows[i].type = type}
  IN  {l \in [1..Cardinality(S) -> S] :
         \A a, b \in DOMAIN l : a < b => Before(type, l[a], l[b])}

(* The engine compares a marker with what the document shows, id or name;  *)
(* paginate_rows with the uuid.                                            *)
Marks(type, i, marker) ==
  IF type \in EngineTypes THEN marker \in {rows[i].doc.id, rows[i].doc.name} ELSE i = marker

Shown(type, i) == IF type \in EngineTypes THEN rows[i].doc.id ELSE i

(* Mutant: the marker is ignored. *)
PlaceIgnored(type, list, marker) == {0}

(* The place of the first row the marker stands for, 0 if it has none.     *)
PlaceOf(type, list, marker) ==
  LET marked == {n \in DOMAIN list : marker # None /\ Marks(type, list[n], marker)}
  IN  IF marked = {} THEN {0} ELSE {n \in marked : \A k \in marked : n <= k}

(* Mutant: a page begins with the marker. *)
PageAtMarker(list, at, limit) ==
  SubSeq(list, IF at = 0 THEN 1 ELSE at, IF limit = 0 \/ at + limit > Len(list) THEN Len(list) ELSE at + limit)

(* What follows the marker, no more than the limit. *)
Page(list, at, limit) ==
  SubSeq(list, at + 1, IF limit = 0 \/ at + limit > Len(list) THEN Len(list) ELSE at + limit)

(* Mutant: a single row left over is not announced. *)
HasNextEarly(list, at, limit) == limit > 0 /\ at + limit < Len(list) - 1

HasNext(list, at, limit) == limit > 0 /\ at + limit < Len(list)

(* A client that gets the page after place `at`, with the marker of the    *)
(* next one if there is more.  Its trace tells whether a marker has ever   *)
(* been unknown, or stood for a row other than the one it was taken from:  *)
(* one made since that has its uuid counts as another.                     *)
Turned(client, list, at) ==
  LET page == Page(list, at, client.limit)
      more == HasNext(list, at, client.limit)
      last == IF more THEN Last(page) ELSE None
  IN  [at     |-> IF more THEN "more" ELSE "done",
       type   |-> client.type,
       limit  |-> client.limit,
       marker |-> IF more THEN Shown(client.type, last) ELSE None,
       last   |-> last,
       kept   |-> client.kept,
       seen   |-> client.seen \cup ToSet(page),
       twice  |-> client.twice \cup (client.seen \cap ToSet(page)),
       trace  |-> IF at # 0 /\ list[at] # client.last THEN "astray"
                  ELSE IF client.marker # None /\ at = 0 /\ client.trace = "exact"
                         THEN "restarted"
                  ELSE client.trace,
       moved  |-> client.moved]

(* A GET of the collection, by client w. *)
TakePage(w, client) ==
  \E list \in Listings(client.type) : \E at \in PlaceOf(client.type, list, client.marker) :
    walk' = [walk EXCEPT ![w] = Turned(client, list, at)]

BeginWalk(w) ==
  /\ walk[w].at = "idle"
  /\ \E type \in Types, limit \in Limits :
       TakePage(w, [NotBegun EXCEPT !.type = type, !.limit = limit,
                                    !.kept = {i \in DOMAIN rows : rows[i].type = type}])
  /\ UNCHANGED <<rows, heap, clock, call>>

NextPage(w) ==
  /\ walk[w].at = "more"
  /\ UNCHANGED <<rows, heap, clock, call>>
  /\ TakePage(w, walk[w])

-----------------------------------------------------------------------------
Write(c) ==
  \/ Create(c) \/ RecordAction(c) \/ FindForUpdate(c) \/ Update(c) \/ Upsert(c)
  \/ Delete(c) \/ RouteUpdate(c) \/ RouteDelete(c)

Next ==
  \/ \E c \in Calls : Write(c)
  \/ \E w \in Walkers : BeginWalk(w) \/ NextPage(w)

Spec == Init /\ [][Next]_vars

(* A client that has been given a marker asks for the next page. *)
FairSpec == Spec /\ \A w \in Walkers : WF_vars(NextPage(w))
=============================================================================
