------------------------- MODULE CollectionsProofs -------------------------
(***************************************************************************)
(* Proofs about the collections, for any tables, requests and clients.     *)
(***************************************************************************)
EXTENDS CollectionsProperties, FiniteSetTheorems, TLAPS

(* A document that was created or updated shows the uuid of its row.       *)
OwnIds == \A i \in DOMAIN rows : rows[i].from \in {"create", "update"} => rows[i].doc.id = i

(* What a request remembers between its statements.  Its own fresh uuid is *)
(* nobody's until it answers, and no other request is addressed to it.     *)
Pending ==
  \A c \in Calls :
    /\ call[c].at # "done" => c \notin DOMAIN rows
    /\ call[c].at \in {"found", "unknown"} => call[c].body \in Bodies
    /\ call[c].at = "found" => call[c].id \in Ids /\ call[c].read \in Rows
    /\ call[c].at = "unknown" =>
         /\ call[c].type \in EngineTypes
         /\ call[c].addr \in Ids \cup Names
         /\ call[c].addr \in Calls => call[call[c].addr].at = "done"

(* In the tables of the routes a marker is the uuid of the row it was      *)
(* taken from, and a uuid that they have lost never comes again.           *)
Markers ==
  \A w \in Walkers : walk[w].at = "more" =>
    /\ walk[w].type \in Types
    /\ walk[w].marker \in Texts
    /\ walk[w].type \in RouteTypes =>
         /\ walk[w].marker \in Ids
         /\ walk[w].marker \in Calls => call[walk[w].marker].at = "done"
         /\ walk[w].last # None => walk[w].marker = walk[w].last
         /\ walk[w].last = None => walk[w].marker \notin InRoutes

Inductive == TypeOK /\ ShownNameFinds /\ OwnIds /\ Pending /\ Markers

(* Texts and their absence are told apart. *)
LEMMA Disjoint ==
  /\ Calls \subseteq Ids /\ ToSet(Seeds) \subseteq Ids
  /\ None \notin Ids /\ Blank \notin Ids
  /\ None \notin Names /\ Blank \notin Names
  /\ None # Default /\ Blank # Default
  /\ Calls \cap Addresses = {}
  /\ EngineTypes \cap RouteTypes = {}
  BY CollectionsAssumption DEF Ids, Texts

LEMMA InitInductive == Init => Inductive
<1> SUFFICES ASSUME Init PROVE Inductive
  OBVIOUS
<1>1. rows = [s \in ToSet(Seeds) |->
        [type |-> SeedType[s], shared |-> s \in Shared, created |-> 0,
         name |-> SeedName[s], doc |-> SeedDoc[s], from |-> "seed"]]
  BY DEF Init
<1>2. ASSUME NEW i \in DOMAIN rows PROVE rows[i] \in Rows /\ i \in Ids /\ rows[i].from = "seed"
  <2>1. /\ i \in ToSet(Seeds) /\ i \in Ids
        /\ SeedName[i] \in Names \cup {Default} /\ SeedType[i] \in Types
        /\ SeedDoc[i] \in [id : Texts, name : Names \cup {Default}]
    BY <1>1, Disjoint, CollectionsAssumption
  <2>2. SeedDoc[i] \in Documents
    BY <2>1 DEF Documents
  <2> QED
    BY <1>1, <2>1, <2>2 DEF Rows
<1>3. call \in [Calls -> Requests] /\ walk \in [Walkers -> Clients]
  BY DEF Init, Idle, NotBegun, Requests, Clients
<1>4. TypeOK
  BY <1>2, <1>3 DEF Init, TypeOK
<1>5. Pending
  BY <1>1, CollectionsAssumption DEF Init, Idle, Pending
<1>6. Markers
  BY DEF Init, NotBegun, Markers
<1> QED
  BY <1>2, <1>4, <1>5, <1>6 DEF Inductive, OwnIds, ShownNameFinds

(* A row that an engine or a route may write under key i. *)
Sound(i, row) ==
  /\ row \in Rows
  /\ row.from \in {"create", "update"} => row.doc.id = i
  /\ Given(row.doc.name) /\ ~row.shared => row.name = row.doc.name \/ row.from = "seed"

LEMMA RowsSound == ASSUME Inductive, NEW i \in DOMAIN rows PROVE i \in Ids /\ Sound(i, rows[i])
  BY DEF Inductive, TypeOK, ShownNameFinds, OwnIds, Sound

(* Answering leaves the other requests as they are. *)
LEMMA Answered ==
  ASSUME Inductive, NEW c \in Calls, Answer(c)
  PROVE  /\ call' \in [Calls -> Requests]
         /\ call'[c].at = "done"
         /\ \A d \in Calls : d # c => call'[d] = call[d]
<1> DEFINE answer == [Idle EXCEPT !.at = "done"]
<1>1. answer \in Requests /\ answer.at = "done"
  BY DEF Idle, Requests
<1>2. call' = [call EXCEPT ![c] = answer]
  BY DEF Answer, Goto
<1>3. call \in [Calls -> Requests]
  BY DEF Inductive, TypeOK
<1> HIDE DEF answer
<1> QED
  BY <1>1, <1>2, <1>3

(* What writing does to the clients. *)
LEMMA StoredWalks ==
  ASSUME Inductive, Store(rows'), DOMAIN rows' \subseteq Ids
  PROVE  /\ walk' \in [Walkers -> Clients]
         /\ \A w \in Walkers :
              /\ walk'[w].at = walk[w].at /\ walk'[w].type = walk[w].type
              /\ walk'[w].marker = walk[w].marker
              /\ walk'[w].last = IF walk[w].last \in DOMAIN rows' THEN walk[w].last ELSE None
              /\ walk'[w].kept = walk[w].kept \cap DOMAIN rows'
              /\ walk'[w].seen = walk[w].seen \cap DOMAIN rows'
              /\ walk'[w].twice = walk[w].twice /\ walk'[w].trace = walk[w].trace
              /\ walk'[w].moved = IF heap' = heap THEN walk[w].moved ELSE TRUE
<1> SUFFICES ASSUME NEW w \in Walkers
             PROVE  /\ walk'[w] \in Clients
                    /\ walk'[w].at = walk[w].at /\ walk'[w].type = walk[w].type
                    /\ walk'[w].marker = walk[w].marker
                    /\ walk'[w].last = IF walk[w].last \in DOMAIN rows' THEN walk[w].last ELSE None
                    /\ walk'[w].kept = walk[w].kept \cap DOMAIN rows'
                    /\ walk'[w].seen = walk[w].seen \cap DOMAIN rows'
                    /\ walk'[w].twice = walk[w].twice /\ walk'[w].trace = walk[w].trace
                    /\ walk'[w].moved = IF heap' = heap THEN walk[w].moved ELSE TRUE
  BY DEF Store
<1>1. walk[w] \in Clients
  BY DEF Inductive, TypeOK
<1>2. PICK r \in Clients : r = walk[w]
  BY <1>1
<1>3. PICK left : left = IF r.last \in DOMAIN rows' THEN r.last ELSE None
  OBVIOUS
<1>4. PICK moved : moved = IF heap' = heap THEN r.moved ELSE TRUE
  OBVIOUS
<1>5. left \in Ids \cup {None} /\ moved \in BOOLEAN
      /\ r.kept \cap DOMAIN rows' \in SUBSET Ids /\ r.seen \cap DOMAIN rows' \in SUBSET Ids
  BY <1>2, <1>3, <1>4 DEF Clients
<1>6. walk'[w] = [r EXCEPT !.kept = r.kept \cap DOMAIN rows', !.seen = r.seen \cap DOMAIN rows',
                           !.last = left, !.moved = moved]
  BY <1>2, <1>3, <1>4 DEF Store
<1>7. walk'[w] = [at |-> r.at, type |-> r.type, limit |-> r.limit, marker |-> r.marker,
                  last |-> left, kept |-> r.kept \cap DOMAIN rows',
                  seen |-> r.seen \cap DOMAIN rows',
                  twice |-> r.twice, trace |-> r.trace, moved |-> moved]
  BY <1>6 DEF Clients
<1>8. walk'[w] \in Clients
  BY <1>5, <1>7 DEF Clients
<1>9. /\ walk'[w].at = r.at /\ walk'[w].type = r.type /\ walk'[w].marker = r.marker
      /\ walk'[w].last = left /\ walk'[w].kept = r.kept \cap DOMAIN rows'
      /\ walk'[w].seen = r.seen \cap DOMAIN rows' /\ walk'[w].twice = r.twice
      /\ walk'[w].trace = r.trace /\ walk'[w].moved = moved
  BY <1>7
<1> QED
  BY <1>2, <1>3, <1>4, <1>8, <1>9

(* Writing sound rows and answering keeps the invariant, if no key is the  *)
(* fresh uuid of another request and no key comes into a route's table but *)
(* the request's own.                                                      *)
LEMMA StoredInductive ==
  ASSUME Inductive, NEW c \in Calls, Store(rows'), Answer(c),
         call[c].at # "done", clock' \in Nat,
         \A i \in DOMAIN rows' :
           /\ i \in Ids /\ Sound(i, rows'[i])
           /\ i \in Calls => i = c \/ call[i].at = "done"
           /\ rows'[i].type \in RouteTypes => i \in InRoutes \/ i = c
  PROVE  Inductive'
<1>1. heap' \in Heaps
  BY DEF Store
<1>2. /\ call' \in [Calls -> Requests]
      /\ call'[c].at = "done"
      /\ \A d \in Calls : d # c => call'[d] = call[d]
  BY Answered
<1>3. /\ walk' \in [Walkers -> Clients]
      /\ \A w \in Walkers :
           /\ walk'[w].at = walk[w].at /\ walk'[w].type = walk[w].type
           /\ walk'[w].marker = walk[w].marker
           /\ walk'[w].last = IF walk[w].last \in DOMAIN rows' THEN walk[w].last ELSE None
  BY StoredWalks
<1>4. TypeOK'
  <2>1. Heaps' = Heaps
    BY DEF Heaps, Unordered
  <2> QED
    BY <1>1, <1>2, <1>3, <2>1 DEF TypeOK, Sound
<1>5. ShownNameFinds' /\ OwnIds'
  BY <1>1 DEF ShownNameFinds, OwnIds, Sound
<1>6. Pending'
  <2> SUFFICES ASSUME NEW d \in Calls
               PROVE  /\ call'[d].at # "done" => d \notin DOMAIN rows'
                      /\ call'[d].at \in {"found", "unknown"} => call'[d].body \in Bodies
                      /\ call'[d].at = "found" => call'[d].id \in Ids /\ call'[d].read \in Rows
                      /\ call'[d].at = "unknown" =>
                           /\ call'[d].type \in EngineTypes
                           /\ call'[d].addr \in Ids \cup Names
                           /\ call'[d].addr \in Calls => call'[call'[d].addr].at = "done"
    BY DEF Pending
  <2>1. CASE d = c
    BY <1>2, <2>1
  <2>2. CASE d # c
    BY <1>1, <1>2, <2>2 DEF Inductive, Pending
  <2> QED
    BY <2>1, <2>2
<1>7. Markers'
  <2> SUFFICES ASSUME NEW w \in Walkers, walk'[w].at = "more"
               PROVE  /\ walk'[w].type \in Types
                      /\ walk'[w].marker \in Texts
                      /\ walk'[w].type \in RouteTypes =>
                           /\ walk'[w].marker \in Ids
                           /\ walk'[w].marker \in Calls => call'[walk'[w].marker].at = "done"
                           /\ walk'[w].last # None => walk'[w].marker = walk'[w].last
                           /\ walk'[w].last = None => walk'[w].marker \notin InRoutes'
    BY DEF Markers
  <2>1. /\ walk[w].type \in Types
        /\ walk[w].marker \in Texts
        /\ walk[w].type \in RouteTypes =>
             /\ walk[w].marker \in Ids
             /\ walk[w].marker \in Calls => call[walk[w].marker].at = "done"
             /\ walk[w].last # None => walk[w].marker = walk[w].last
             /\ walk[w].last = None => walk[w].marker \notin InRoutes
    BY <1>3 DEF Inductive, Markers
  <2>2. walk'[w].type \in RouteTypes /\ walk'[w].marker \in Calls =>
          call'[walk'[w].marker].at = "done"
    BY <1>2, <1>3, <2>1
  <2>3. ASSUME walk'[w].type \in RouteTypes, walk'[w].last = None
        PROVE  walk'[w].marker \notin InRoutes'
    <3>1. CASE walk[w].last = None
      <4>1. walk[w].marker \notin InRoutes /\ walk[w].marker # c
        BY <1>3, <2>1, <2>3, <3>1
      <4> QED
        BY <1>1, <1>3, <4>1 DEF InRoutes
    <3>2. CASE walk[w].last # None
      <4>1. walk[w].marker = walk[w].last /\ walk[w].last \notin DOMAIN rows'
        BY <1>3, <2>1, <2>3, <3>2
      <4> QED
        BY <1>1, <1>3, <4>1 DEF InRoutes
    <3> QED
      BY <3>1, <3>2
  <2> QED
    BY <1>3, <2>1, <2>2, <2>3
<1> QED
  BY <1>4, <1>5, <1>6, <1>7 DEF Inductive

(* The case of a single row. *)
LEMMA PutInductive ==
  ASSUME Inductive, NEW c \in Calls, NEW i \in Ids, NEW STATE row, Put(i, row), Answer(c),
         call[c].at # "done", clock' \in Nat, Sound(i, row),
         i \in Calls => i = c \/ call[i].at = "done",
         row.type \in RouteTypes => i \in InRoutes \/ i = c
  PROVE  Inductive'
<1>1. Store(rows') /\ rows' = [j \in DOMAIN rows \cup {i} |-> IF j = i THEN row ELSE rows[j]]
  BY DEF Put, Store
<1>2. ASSUME NEW j \in DOMAIN rows'
      PROVE  /\ j \in Ids /\ Sound(j, rows'[j])
             /\ j \in Calls => j = c \/ call[j].at = "done"
             /\ rows'[j].type \in RouteTypes => j \in InRoutes \/ j = c
  <2>1. CASE j = i
    BY <1>1, <2>1
  <2>2. CASE j # i
    <3>1. j \in DOMAIN rows /\ rows'[j] = rows[j]
      BY <1>1, <2>2
    <3>2. j \in Calls => call[j].at = "done"
      BY <3>1 DEF Inductive, Pending
    <3> QED
      BY <3>1, <3>2, RowsSound DEF InRoutes
  <2> QED
    BY <2>1, <2>2
<1> QED
  BY <1>1, <1>2, StoredInductive

LEMMA DropInductive ==
  ASSUME Inductive, NEW c \in Calls, NEW STATE gone, Drop(gone), Answer(c),
         call[c].at # "done", clock' \in Nat
  PROVE  Inductive'
<1>1. Store(rows') /\ rows' = [j \in DOMAIN rows \ gone |-> rows[j]]
  BY DEF Drop, Store
<1>2. ASSUME NEW j \in DOMAIN rows'
      PROVE  /\ j \in Ids /\ Sound(j, rows'[j])
             /\ j \in Calls => j = c \/ call[j].at = "done"
             /\ rows'[j].type \in RouteTypes => j \in InRoutes \/ j = c
  <2>1. j \in DOMAIN rows /\ rows'[j] = rows[j]
    BY <1>1
  <2>2. j \in Calls => call[j].at = "done"
    BY <2>1 DEF Inductive, Pending
  <2> QED
    BY <2>1, <2>2, RowsSound DEF InRoutes
<1> QED
  BY <1>1, <1>2, StoredInductive

(* Rewriting keeps a row sound when its name is the one its document shows. *)
LEMMA RewrittenSound ==
  ASSUME NEW i, rows[i] \in Rows, NEW name \in Names \cup {Default, Blank},
         NEW doc \in Documents, NEW from \in {"update", "upsert"},
         from = "update" => doc.id = i, Given(doc.name) => name = doc.name
  PROVE  Sound(i, Rewritten(i, name, doc, from))
  BY DEF Rewritten, Sound, Rows

LEMMA CreateInductive ==
  ASSUME Inductive, NEW c \in Calls, Create(c) PROVE Inductive'
<1>1. PICK type \in Types, body \in Bodies :
        Put(c, NewRow(type, CreatedDocument(c, body).name, CreatedDocument(c, body), "create"))
  BY DEF Create
<1>2. clock \in Nat /\ clock' \in Nat /\ Answer(c) /\ call[c].at # "done"
  BY DEF Create, Tick, Inductive, TypeOK
<1>3. body.name \in Names \cup {Default, Blank, None} /\ c \in Ids
  BY CollectionsAssumption, Disjoint
<1>4. Or(body.name, Default) \in Names \cup {Default}
  BY <1>3 DEF Or, Given
<1>5. Sound(c, NewRow(type, CreatedDocument(c, body).name, CreatedDocument(c, body), "create"))
  BY <1>2, <1>3, <1>4 DEF Sound, NewRow, CreatedDocument, Rows, Documents, Texts
<1> QED
  BY <1>1, <1>2, <1>3, <1>5, PutInductive

LEMMA RecordInductive ==
  ASSUME Inductive, NEW c \in Calls, RecordAction(c) PROVE Inductive'
<1>1. PICK action \in Names : Put(c, NewRow(ActionType, action, [id |-> c, name |-> action], "create"))
  BY DEF RecordAction
<1>2. clock \in Nat /\ clock' \in Nat /\ Answer(c) /\ call[c].at # "done"
  BY DEF RecordAction, Tick, Inductive, TypeOK
<1>3. c \in Ids /\ ActionType \in Types
  BY CollectionsAssumption, Disjoint DEF Types
<1>4. Sound(c, NewRow(ActionType, action, [id |-> c, name |-> action], "create"))
  BY <1>2, <1>3 DEF Sound, NewRow, Rows, Documents, Texts
<1> QED
  BY <1>1, <1>2, <1>3, <1>4, PutInductive

LEMMA UpdateInductive ==
  ASSUME Inductive, NEW c \in Calls, Update(c) PROVE Inductive'
<1> DEFINE i == call[c].id
           doc == [id |-> i, name |-> Over(call[c].read.doc.name, call[c].body.name)]
           row == Rewritten(i, Or(doc.name, call[c].read.name), doc, "update")
<1>1. call[c].at = "found" /\ Answer(c) /\ clock' = clock /\ clock \in Nat
  BY DEF Update, Inductive, TypeOK
<1>2. i \in Ids /\ call[c].read \in Rows /\ call[c].body \in Bodies
  BY <1>1 DEF Inductive, Pending
<1>3. /\ call[c].body.name \in Names \cup {Default, Blank, None}
      /\ call[c].read.doc.name \in Names \cup {Default, Blank}
      /\ call[c].read.name \in Names \cup {Default, Blank}
  BY <1>2, CollectionsAssumption DEF Rows, Documents
<1>4. doc.name \in Names \cup {Default, Blank} /\ doc.id = i /\ doc \in Documents
  BY <1>2, <1>3 DEF Over, Documents, Texts
<1>5. /\ Or(doc.name, call[c].read.name) \in Names \cup {Default, Blank}
      /\ Given(doc.name) => Or(doc.name, call[c].read.name) = doc.name
  BY <1>3, <1>4 DEF Or, Given
<1>6. CASE i \in DOMAIN rows
  <2>1. Put(i, row)
    BY <1>6 DEF Update
  <2>2. rows[i] \in Rows
    BY <1>6, RowsSound DEF Sound
  <2>3. row.type = rows[i].type
    BY DEF Rewritten
  <2>4. Sound(i, row)
    BY <1>2, <1>4, <1>5, <2>2, RewrittenSound
  <2>5. i \in Calls => call[i].at = "done"
    BY <1>6 DEF Inductive, Pending
  <2>6. row.type \in RouteTypes => i \in InRoutes
    BY <1>6, <2>3 DEF InRoutes
  <2> HIDE DEF row, i
  <2> QED
    BY <1>1, <1>2, <2>1, <2>4, <2>5, <2>6, PutInductive
<1>7. CASE i \notin DOMAIN rows
  <2>1. UNCHANGED <<rows, heap, walk>>
    BY <1>7 DEF Update
  <2>2. /\ call' \in [Calls -> Requests] /\ call'[c].at = "done"
        /\ \A d \in Calls : d # c => call'[d] = call[d]
    BY <1>1, Answered
  <2>3. TypeOK' /\ ShownNameFinds' /\ OwnIds'
    BY <1>1, <2>1, <2>2 DEF Inductive, TypeOK, ShownNameFinds, OwnIds, Heaps, Unordered
  <2>4. Pending'
    <3>1. ASSUME NEW d \in Calls, call'[d].at # "done"
          PROVE  d # c /\ call'[d] = call[d] /\ d \notin DOMAIN rows'
      BY <2>1, <2>2, <3>1 DEF Inductive, Pending
    <3> QED
      BY <2>2, <3>1 DEF Inductive, Pending
  <2>5. Markers'
    BY <2>1, <2>2 DEF Inductive, Markers, InRoutes
  <2> QED
    BY <2>3, <2>4, <2>5 DEF Inductive
<1> QED
  BY <1>6, <1>7

LEMMA UpsertInductive ==
  ASSUME Inductive, NEW c \in Calls, Upsert(c) PROVE Inductive'
<1> DEFINE i == NewId(c)
           doc == UpsertedDocument(c)
           name == Or(doc.name, Default)
<1>1. /\ call[c].at = "unknown" /\ Answer(c) /\ clock \in Nat
      /\ call[c].type \in EngineTypes /\ call[c].addr \in Ids \cup Names /\ call[c].body \in Bodies
      /\ call[c].addr \in Calls => call[call[c].addr].at = "done"
  BY DEF Upsert, Inductive, TypeOK, Pending
<1>2. i \in Ids /\ (i \in Calls => i = c \/ call[i].at = "done") /\ call[c].addr \in Texts
  BY <1>1, Disjoint DEF NewId, Texts
<1>3. call[c].body.name \in Names \cup {Default, Blank, None}
  BY <1>1, CollectionsAssumption
<1>4. doc \in Documents
  <2>1. call[c].body.id \in Texts \cup {None} /\ i \in Texts
    BY <1>1, <1>2, CollectionsAssumption DEF Texts
  <2> HIDE DEF i
  <2>2. Over(i, call[c].body.id) \in Texts
    BY <2>1 DEF Over
  <2> USE DEF i
  <2> QED
    BY <1>2, <1>3, <2>2 DEF UpsertedDocument, Over, Documents
<1>5. name \in Names \cup {Default, Blank} /\ (Given(doc.name) => name = doc.name)
  BY <1>4 DEF Or, Documents
<1>6. CASE i \in DOMAIN rows
  <2>1. Put(i, Rewritten(i, name, doc, "upsert")) /\ clock' = clock
    BY <1>6 DEF Upsert
  <2>2. Sound(i, Rewritten(i, name, doc, "upsert"))
    BY <1>4, <1>5, <1>6, RowsSound, RewrittenSound DEF Sound
  <2>3. Rewritten(i, name, doc, "upsert").type \in RouteTypes => i \in InRoutes
    BY <1>6 DEF Rewritten, InRoutes
  <2> HIDE DEF i, doc, name
  <2> QED
    BY <1>1, <1>2, <2>1, <2>2, <2>3, PutInductive
<1>7. CASE i \notin DOMAIN rows
  <2>1. Put(i, NewRow(call[c].type, name, doc, "upsert")) /\ clock' \in Nat
    BY <1>1, <1>7 DEF Upsert, Tick
  <2>2. NewRow(call[c].type, name, doc, "upsert").type \notin RouteTypes
    BY <1>1, Disjoint DEF NewRow
  <2>3. Sound(i, NewRow(call[c].type, name, doc, "upsert"))
    <3>1. call[c].type \in Types
      BY <1>1 DEF Types
    <3> HIDE DEF i, doc, name
    <3> QED
      BY <1>1, <1>4, <1>5, <3>1 DEF Sound, NewRow, Rows
  <2> HIDE DEF i, doc, name
  <2> QED
    BY <1>1, <1>2, <2>1, <2>2, <2>3, PutInductive
<1> QED
  BY <1>6, <1>7

(* The SELECT of an update remembers what it found. *)
LEMMA FindInductive ==
  ASSUME Inductive, NEW c \in Calls, FindForUpdate(c) PROVE Inductive'
<1>1. PICK type \in EngineTypes, addr \in Known, body \in Bodies :
        \/ \E i \in Addressed(type, addr) :
             Goto(c, [at |-> "found", type |-> type, addr |-> addr, body |-> body,
                      id |-> i, read |-> rows[i]])
        \/ Goto(c, [at |-> "unknown", type |-> type, addr |-> addr, body |-> body,
                    id |-> None, read |-> None])
  BY DEF FindForUpdate
<1>2. addr \in Ids \cup Names /\ (addr \in Calls => addr \in DOMAIN rows /\ call[addr].at = "done")
  BY CollectionsAssumption, Disjoint DEF Known, Ids, Inductive, Pending
<1>3. PICK r : /\ call' = [call EXCEPT ![c] = r]
               /\ r.at \in {"found", "unknown"} /\ r.type = type /\ r.addr = addr /\ r.body = body
               /\ r.at = "found" => r.id \in Ids /\ r.read \in Rows
               /\ r \in Requests
  <2>1. CASE \E i \in Addressed(type, addr) :
               Goto(c, [at |-> "found", type |-> type, addr |-> addr, body |-> body,
                        id |-> i, read |-> rows[i]])
    <3>1. PICK i \in Addressed(type, addr) :
            Goto(c, [at |-> "found", type |-> type, addr |-> addr, body |-> body,
                     id |-> i, read |-> rows[i]])
      BY <2>1
    <3>2. i \in Ids /\ rows[i] \in Rows
      BY RowsSound DEF Addressed, Sound
    <3> DEFINE r == [at |-> "found", type |-> type, addr |-> addr, body |-> body,
                     id |-> i, read |-> rows[i]]
    <3>3. r \in Requests
      BY <1>2, <3>2 DEF Requests, Types, Texts
    <3>4. call' = [call EXCEPT ![c] = r]
      BY <3>1 DEF Goto
    <3>5. r.at = "found" /\ r.type = type /\ r.addr = addr /\ r.body = body
          /\ r.id \in Ids /\ r.read \in Rows
      BY <3>2
    <3> HIDE DEF r
    <3> QED
      BY <3>3, <3>4, <3>5
  <2>2. CASE Goto(c, [at |-> "unknown", type |-> type, addr |-> addr, body |-> body,
                      id |-> None, read |-> None])
    <3> DEFINE r == [at |-> "unknown", type |-> type, addr |-> addr, body |-> body,
                     id |-> None, read |-> None]
    <3>1. r \in Requests
      BY <1>2 DEF Requests, Types, Texts
    <3>2. call' = [call EXCEPT ![c] = r]
      BY <2>2 DEF Goto
    <3>3. r.at = "unknown" /\ r.type = type /\ r.addr = addr /\ r.body = body
      OBVIOUS
    <3> HIDE DEF r
    <3> QED
      BY <3>1, <3>2, <3>3
  <2> QED
    BY <1>1, <2>1, <2>2
<1>4. /\ call' \in [Calls -> Requests] /\ call'[c] = r
      /\ \A d \in Calls : d # c => call'[d] = call[d]
  BY <1>3 DEF Inductive, TypeOK
<1>5. UNCHANGED <<rows, heap, clock, walk>> /\ call[c].at = "idle"
  BY DEF FindForUpdate
<1>6. TypeOK' /\ ShownNameFinds' /\ OwnIds'
  BY <1>4, <1>5 DEF Inductive, TypeOK, ShownNameFinds, OwnIds, Heaps, Unordered
<1>7. \A d \in Calls : call[d].at = "done" => call'[d].at = "done"
  BY <1>4, <1>5
<1>8. Pending'
  <2>1. ASSUME NEW d \in Calls, d # c
        PROVE  /\ call'[d].at # "done" => d \notin DOMAIN rows'
               /\ call'[d].at \in {"found", "unknown"} => call'[d].body \in Bodies
               /\ call'[d].at = "found" => call'[d].id \in Ids /\ call'[d].read \in Rows
               /\ call'[d].at = "unknown" =>
                    /\ call'[d].type \in EngineTypes
                    /\ call'[d].addr \in Ids \cup Names
                    /\ call'[d].addr \in Calls => call'[call'[d].addr].at = "done"
    BY <1>4, <1>5, <1>7, <2>1 DEF Inductive, Pending
  <2>2. c \notin DOMAIN rows'
    BY <1>5 DEF Inductive, Pending
  <2>3. r.addr \in Calls => call'[r.addr].at = "done"
    BY <1>2, <1>3, <1>7
  <2> QED
    BY <1>2, <1>3, <1>4, <2>1, <2>2, <2>3 DEF Pending
<1>9. Markers'
  BY <1>5, <1>7 DEF Inductive, Markers, InRoutes
<1> QED
  BY <1>6, <1>8, <1>9 DEF Inductive

LEMMA RouteUpdateInductive ==
  ASSUME Inductive, NEW c \in Calls, RouteUpdate(c) PROVE Inductive'
<1>1. PICK i \in Known \cap InRoutes, body \in Bodies :
        Put(i, Rewritten(i, Over(rows[i].name, body.name),
                         [id |-> i, name |-> Over(rows[i].name, body.name)], "update"))
  BY DEF RouteUpdate
<1>2. /\ i \in DOMAIN rows /\ i \in Ids /\ rows[i] \in Rows
      /\ i \in Calls => call[i].at = "done"
  BY RowsSound DEF InRoutes, Sound, Inductive, Pending
<1>3. Over(rows[i].name, body.name) \in Names \cup {Default, Blank}
  <2>1. body.name \in Names \cup {Default, Blank, None} /\ rows[i].name \in Names \cup {Default, Blank}
    BY <1>2, CollectionsAssumption DEF Rows
  <2> QED
    BY <2>1 DEF Over
<1>4. PICK name \in Names \cup {Default, Blank} : name = Over(rows[i].name, body.name)
  BY <1>3
<1>5. [id |-> i, name |-> name] \in Documents
  BY <1>2 DEF Documents, Texts
<1>6. Sound(i, Rewritten(i, name, [id |-> i, name |-> name], "update"))
  BY <1>2, <1>5, RewrittenSound
<1>7. Put(i, Rewritten(i, name, [id |-> i, name |-> name], "update"))
  BY <1>1, <1>4
<1>8. call[c].at # "done" /\ Answer(c) /\ clock' \in Nat
  BY DEF RouteUpdate, Inductive, TypeOK
<1> QED
  BY <1>2, <1>6, <1>7, <1>8, PutInductive

LEMMA WriteInductive ==
  ASSUME Inductive, NEW c \in Calls, Write(c) PROVE Inductive'
<1>1. CASE Delete(c)
  <2>1. PICK type \in EngineTypes, addr \in Known : Drop(Addressed(type, addr))
    BY <1>1 DEF Delete
  <2>2. call[c].at # "done" /\ Answer(c) /\ clock' \in Nat
    BY <1>1 DEF Delete, Inductive, TypeOK
  <2> QED
    BY <2>1, <2>2, DropInductive
<1>2. CASE RouteDelete(c)
  <2>1. PICK i \in Known \cap InRoutes : Drop({i})
    BY <1>2 DEF RouteDelete
  <2>2. call[c].at # "done" /\ Answer(c) /\ clock' \in Nat
    BY <1>2 DEF RouteDelete, Inductive, TypeOK
  <2> QED
    BY <2>1, <2>2, DropInductive
<1> QED
  BY <1>1, <1>2, CreateInductive, RecordInductive, FindInductive, UpdateInductive,
     UpsertInductive, RouteUpdateInductive DEF Write

-----------------------------------------------------------------------------
(* Reading.                                                                 *)

(* A listing is a sequence of rows of its type, a page a part of it.       *)
LEMMA ListingsType ==
  ASSUME Inductive, NEW type, NEW list \in Listings(type)
  PROVE  /\ Len(list) \in Nat /\ DOMAIN list = 1..Len(list)
         /\ \A n \in DOMAIN list : list[n] \in DOMAIN rows /\ rows[list[n]].type = type
<1> DEFINE S == {i \in DOMAIN rows : rows[i].type = type}
<1>1. S \subseteq Ids /\ IsFiniteSet(Ids)
  BY CollectionsAssumption DEF Inductive, TypeOK
<1>2. Cardinality(S) \in Nat
  BY <1>1, FS_Subset, FS_CardinalityType
<1>3. list \in [1..Cardinality(S) -> S]
  BY DEF Listings
<1>4. Len(list) = Cardinality(S)
  <2> HIDE DEF S
  <2> QED
    BY <1>2, <1>3
<1> QED
  BY <1>2, <1>3, <1>4

LEMMA PageType ==
  ASSUME NEW S, NEW list \in Seq(S), NEW at \in 0..Len(list), NEW limit \in Nat
  PROVE  /\ ToSet(Page(list, at, limit)) \subseteq S
         /\ HasNext(list, at, limit) =>
              /\ at + limit \in DOMAIN list
              /\ Last(Page(list, at, limit)) = list[at + limit]
<1> DEFINE end == IF limit = 0 \/ at + limit > Len(list) THEN Len(list) ELSE at + limit
           page == Page(list, at, limit)
<1>1. end \in Nat /\ end <= Len(list)
  OBVIOUS
<1>2. page = SubSeq(list, at + 1, end)
  BY DEF Page
<1>3. /\ DOMAIN page = 1..(end - at)
      /\ \A n \in DOMAIN page : page[n] = list[at + n] /\ at + n \in DOMAIN list
  BY <1>1, <1>2
<1>4. ToSet(page) \subseteq S
  <2> HIDE DEF page, end
  <2> QED
    BY <1>3 DEF ToSet
<1>5. ASSUME HasNext(list, at, limit)
      PROVE  at + limit \in DOMAIN list /\ Last(page) = list[at + limit]
  <2>1. end = at + limit /\ limit > 0 /\ at + limit \in DOMAIN list
    BY <1>5 DEF HasNext
  <2>2. Len(page) = limit
    BY <1>1, <1>2, <2>1
  <2> HIDE DEF page, end
  <2> QED
    BY <1>3, <2>1, <2>2 DEF Last
<1> QED
  BY <1>4, <1>5

(* The place of a marker is a row that it marks, or 0. *)
LEMMA PlaceType ==
  ASSUME NEW type, NEW list, DOMAIN list \subseteq Nat \ {0}, NEW marker,
         NEW at \in PlaceOf(type, list, marker)
  PROVE  at = 0 \/ (at \in DOMAIN list /\ marker # None /\ Marks(type, list[at], marker))
  BY DEF PlaceOf

LEMMA TakeInductive ==
  ASSUME Inductive, NEW w \in Walkers, NEW STATE start, start \in Clients, start.type \in Types,
         TakePage(w, start), UNCHANGED <<rows, heap, clock, call>>
  PROVE  Inductive'
<1>1. PICK list \in Listings(start.type), at \in Nat :
        /\ at \in PlaceOf(start.type, list, start.marker)
        /\ walk' = [walk EXCEPT ![w] = Turned(start, list, at)]
  <2>1. PICK list \in Listings(start.type) : \E at \in PlaceOf(start.type, list, start.marker) :
          walk' = [walk EXCEPT ![w] = Turned(start, list, at)]
    BY DEF TakePage
  <2>2. DOMAIN list \subseteq Nat \ {0}
    BY <2>1, ListingsType
  <2>3. PICK at \in PlaceOf(start.type, list, start.marker) :
          walk' = [walk EXCEPT ![w] = Turned(start, list, at)]
    BY <2>1
  <2>4. at \in Nat
    BY <2>2, <2>3, PlaceType
  <2> QED
    BY <2>1, <2>3, <2>4
<1> DEFINE page == Page(list, at, start.limit)
           more == HasNext(list, at, start.limit)
           last == IF more THEN Last(page) ELSE None
           marker == IF more THEN Shown(start.type, last) ELSE None
           trace == IF at # 0 /\ list[at] # start.last THEN "astray"
                    ELSE IF start.marker # None /\ at = 0 /\ start.trace = "exact" THEN "restarted"
                    ELSE start.trace
           r == [at |-> IF more THEN "more" ELSE "done", type |-> start.type,
                 limit |-> start.limit, marker |-> marker, last |-> last, kept |-> start.kept,
                 seen |-> start.seen \cup ToSet(page),
                 twice |-> start.twice \cup (start.seen \cap ToSet(page)),
                 trace |-> trace, moved |-> start.moved]
<1>2. at \in PlaceOf(start.type, list, start.marker)
  BY <1>1
<1>3. walk' = [walk EXCEPT ![w] = r]
  BY <1>1 DEF Turned
<1>4. /\ Len(list) \in Nat /\ DOMAIN list = 1..Len(list)
      /\ \A n \in DOMAIN list : list[n] \in DOMAIN rows /\ rows[list[n]].type = start.type
  BY ListingsType
<1>5. at \in 0..Len(list)
  BY <1>2, <1>4, PlaceType
<1>6. list \in Seq(DOMAIN rows) /\ start.limit \in Nat
  <2>1. list \in [1..Len(list) -> DOMAIN rows]
    BY <1>4 DEF Listings
  <2> QED
    BY <1>4, <2>1 DEF Clients
<1>7. ToSet(page) \subseteq DOMAIN rows /\ (more => last \in DOMAIN rows /\ rows[last].type = start.type)
  <2>1. ToSet(page) \subseteq DOMAIN rows /\ (more => at + start.limit \in DOMAIN list /\ last = list[at + start.limit])
    BY <1>5, <1>6, PageType
  <2> QED
    BY <1>4, <2>1
<1>8. ASSUME more
      PROVE  /\ last \in Ids /\ last # None
             /\ marker \in Texts
             /\ start.type \in RouteTypes => marker = last /\ last \in InRoutes
             /\ last \in Calls => call[last].at = "done"
  <2>1. last \in Ids /\ last \in Texts /\ rows[last].doc.id \in Texts /\ last \in DOMAIN rows
    BY <1>7, <1>8, RowsSound DEF Sound, Rows, Documents, Texts
  <2>2. marker = IF start.type \in EngineTypes THEN rows[last].doc.id ELSE last
    BY <1>8 DEF Shown
  <2>3. last \in Calls => call[last].at = "done"
    BY <2>1 DEF Inductive, Pending
  <2> HIDE DEF last, marker
  <2> QED
    BY <1>7, <1>8, <2>1, <2>2, <2>3, Disjoint DEF InRoutes
<1>9. r \in Clients
  <2>1. ToSet(page) \subseteq Ids
    BY <1>7 DEF Inductive, TypeOK
  <2>2. last \in Ids \cup {None} /\ marker \in Texts \cup {None}
    BY <1>8 DEF Texts
  <2>3. trace \in {"exact", "restarted", "astray"}
    BY DEF Clients
  <2> HIDE DEF page, more, last, marker, trace
  <2> QED
    BY <2>1, <2>2, <2>3 DEF Clients
<1>10. /\ walk' \in [Walkers -> Clients] /\ walk'[w] = r
       /\ \A v \in Walkers : v # w => walk'[v] = walk[v]
  <2> HIDE DEF r
  <2> QED
    BY <1>3, <1>9 DEF Inductive, TypeOK
<1>11. TypeOK' /\ ShownNameFinds' /\ OwnIds' /\ Pending'
  BY <1>10 DEF Inductive, TypeOK, ShownNameFinds, OwnIds, Pending, Heaps, Unordered
<1>12. r.at = "more" =>
         /\ more /\ r.type = start.type /\ r.marker = marker /\ r.last = last
  OBVIOUS
<1>13. Markers'
  <2> HIDE DEF r, page, more, last, marker, trace
  <2>1. ASSUME NEW v \in Walkers, walk'[v].at = "more"
        PROVE  /\ walk'[v].type \in Types
               /\ walk'[v].marker \in Texts
               /\ walk'[v].type \in RouteTypes =>
                    /\ walk'[v].marker \in Ids
                    /\ walk'[v].marker \in Calls => call[walk'[v].marker].at = "done"
                    /\ walk'[v].last # None => walk'[v].marker = walk'[v].last
                    /\ walk'[v].last = None => walk'[v].marker \notin InRoutes
    <3>1. CASE v = w
      BY <1>8, <1>10, <1>12, <2>1, <3>1, Disjoint
    <3>2. CASE v # w
      BY <1>10, <2>1, <3>2 DEF Inductive, Markers
    <3> QED
      BY <3>1, <3>2
  <2> QED
    BY <2>1 DEF Markers, InRoutes
<1> QED
  BY <1>11, <1>13 DEF Inductive

LEMMA NextInductive == Inductive /\ [Next]_vars => Inductive'
<1> SUFFICES ASSUME Inductive, [Next]_vars PROVE Inductive'
  OBVIOUS
<1>1. ASSUME NEW c \in Calls, Write(c) PROVE Inductive'
  BY <1>1, WriteInductive
<1>2. ASSUME NEW w \in Walkers, BeginWalk(w) PROVE Inductive'
  <2>1. PICK type \in Types, limit \in Limits :
          TakePage(w, [NotBegun EXCEPT !.type = type, !.limit = limit,
                                       !.kept = {i \in DOMAIN rows : rows[i].type = type}])
    BY <1>2 DEF BeginWalk
  <2> DEFINE start == [NotBegun EXCEPT !.type = type, !.limit = limit,
                                       !.kept = {i \in DOMAIN rows : rows[i].type = type}]
  <2>2. start \in Clients /\ start.type = type
    BY CollectionsAssumption DEF NotBegun, Clients, Inductive, TypeOK
  <2>3. TakePage(w, start)
    BY <2>1
  <2> HIDE DEF start
  <2> QED
    BY <1>2, <2>2, <2>3, TakeInductive DEF BeginWalk
<1>3. ASSUME NEW w \in Walkers, NextPage(w) PROVE Inductive'
  <2>1. walk[w] \in Clients /\ walk[w].type \in Types
    BY <1>3 DEF NextPage, Inductive, TypeOK, Markers
  <2> QED
    BY <1>3, <2>1, TakeInductive DEF NextPage
<1>4. CASE UNCHANGED vars
  BY <1>4 DEF vars, Inductive, TypeOK, ShownNameFinds, OwnIds, Pending, Markers, Heaps, Unordered,
             InRoutes
<1> QED
  BY <1>1, <1>2, <1>3, <1>4 DEF Next

THEOREM Invariance == Spec => []Inductive
  BY InitInductive, NextInductive, PTL DEF Spec

(* The collections' state keeps its types, for any tables and requests.    *)
THEOREM TypeCorrect == Spec => []TypeOK
<1>1. Inductive => TypeOK
  BY DEF Inductive
<1> QED
  BY <1>1, Invariance, PTL

(* Whatever updates race, an object is addressed by the name it shows.     *)
THEOREM NamesCorrect == Spec => []ShownNameFinds
<1>1. Inductive => ShownNameFinds
  BY DEF Inductive
<1> QED
  BY <1>1, Invariance, PTL

(* A write that changes rows does so by Store; the others leave the clients *)
(* alone.                                                                  *)
LEMMA WriteStores ==
  ASSUME NEW c \in Calls, Write(c) PROVE Store(rows') \/ walk' = walk
<1>1. ASSUME NEW i, NEW STATE row, Put(i, row) PROVE Store(rows')
  BY <1>1 DEF Put, Store
<1>2. ASSUME NEW STATE gone, Drop(gone) PROVE Store(rows')
  BY <1>2 DEF Drop, Store
<1>3. CASE Create(c)
  BY <1>1, <1>3 DEF Create
<1>4. CASE RecordAction(c)
  BY <1>1, <1>4 DEF RecordAction
<1>5. CASE Update(c)
  BY <1>1, <1>5 DEF Update
<1>6. CASE Upsert(c)
  BY <1>1, <1>6 DEF Upsert
<1>7. CASE Delete(c)
  BY <1>2, <1>7 DEF Delete
<1>8. CASE RouteUpdate(c)
  BY <1>1, <1>8 DEF RouteUpdate
<1>9. CASE RouteDelete(c)
  BY <1>2, <1>9 DEF RouteDelete
<1> QED
  BY <1>3, <1>4, <1>5, <1>6, <1>7, <1>8, <1>9 DEF Write, FindForUpdate

(* The step that takes a page: the row found at the marker is another one  *)
(* only in the engine; and when the marker is the uuid of its row, that    *)
(* other row shows it as a name, or as an id nobody created or updated.    *)
LEMMA AstrayStep ==
  ASSUME Inductive, NEW w \in Walkers, NextPage(w),
         walk[w].trace # "astray", walk'[w].trace = "astray"
  PROVE  /\ walk[w].type \in EngineTypes
         /\ walk[w].marker = walk[w].last => Lookalikes(w) # {}
<1>1. /\ walk[w].type \in Types
      /\ walk[w].type \in RouteTypes =>
           /\ walk[w].last # None => walk[w].marker = walk[w].last
           /\ walk[w].last = None => walk[w].marker \notin InRoutes
  BY DEF NextPage, Inductive, Markers
<1>2. PICK list \in Listings(walk[w].type) :
        \E at \in PlaceOf(walk[w].type, list, walk[w].marker) :
          walk' = [walk EXCEPT ![w] = Turned(walk[w], list, at)]
  BY DEF NextPage, TakePage
<1>3. PICK at \in PlaceOf(walk[w].type, list, walk[w].marker) :
        walk' = [walk EXCEPT ![w] = Turned(walk[w], list, at)]
  BY <1>2
<1>4. /\ DOMAIN list \subseteq Nat \ {0}
      /\ \A n \in DOMAIN list : list[n] \in DOMAIN rows /\ rows[list[n]].type = walk[w].type
  BY <1>2, ListingsType
<1>5. walk'[w] = Turned(walk[w], list, at)
  BY <1>3 DEF Inductive, TypeOK
<1>6. at # 0 /\ list[at] # walk[w].last
  BY <1>5 DEF Turned
<1>7. at \in DOMAIN list /\ Marks(walk[w].type, list[at], walk[w].marker)
  BY <1>3, <1>4, <1>6, PlaceType
<1>8. PICK i \in DOMAIN rows : i = list[at] /\ rows[i].type = walk[w].type
  BY <1>4, <1>7
<1>9. CASE walk[w].type \in EngineTypes
  <2>1. walk[w].marker = rows[i].doc.id \/ walk[w].marker = rows[i].doc.name
    BY <1>7, <1>8, <1>9 DEF Marks
  <2>2. /\ rows[i].from \in {"seed", "create", "update", "upsert"}
        /\ rows[i].from \in {"create", "update"} => rows[i].doc.id = i
    BY RowsSound DEF Sound, Rows
  <2>3. walk[w].marker = walk[w].last => i \in Lookalikes(w)
    BY <1>6, <1>8, <2>1, <2>2 DEF Lookalikes
  <2> QED
    BY <1>9, <2>3
<1>10. CASE walk[w].type \notin EngineTypes
  <2>1. walk[w].marker = i /\ walk[w].type \in RouteTypes
    BY <1>1, <1>7, <1>8, <1>10 DEF Marks, Types
  <2>2. i \in InRoutes
    BY <1>8, <2>1 DEF InRoutes
  <2> QED
    BY <1>1, <1>6, <1>8, <2>1, <2>2
<1> QED
  BY <1>9, <1>10

(* Markers that are their rows' uuids are exact, unless a row of the same  *)
(* collection of the engine shows the text as its name, or as an id that   *)
(* was seeded or came from a PUT to an address that had no row.            *)
THEOREM AstrayCorrect == Spec => AstrayExplained
<1> DEFINE Cause(w) == /\ walk[w].type \in EngineTypes
                       /\ walk[w].marker = walk[w].last => Lookalikes(w) # {}
<1>1. ASSUME Inductive, [Next]_vars, NEW w \in Walkers,
             walk[w].trace # "astray", walk'[w].trace = "astray"
      PROVE  Cause(w)
  <2>1. ASSUME NEW c \in Calls, Write(c) PROVE FALSE
    <3>1. ASSUME Store(rows') PROVE walk'[w].trace = walk[w].trace
      <4>1. walk[w] \in Clients
        BY <1>1 DEF Inductive, TypeOK
      <4>2. walk'[w] = [walk[w] EXCEPT !.kept = @ \cap DOMAIN rows', !.seen = @ \cap DOMAIN rows',
                                       !.last = IF @ \in DOMAIN rows' THEN @ ELSE None,
                                       !.moved = IF heap' = heap THEN @ ELSE TRUE]
        BY <3>1 DEF Store
      <4> QED
        BY <4>1, <4>2 DEF Clients
    <3>2. Store(rows') \/ walk' = walk
      BY <2>1, WriteStores
    <3> QED
      BY <1>1, <3>1, <3>2
  <2>2. ASSUME NEW v \in Walkers, BeginWalk(v) PROVE FALSE
    <3>1. PICK type \in Types, limit \in Limits :
            TakePage(v, [NotBegun EXCEPT !.type = type, !.limit = limit,
                                         !.kept = {i \in DOMAIN rows : rows[i].type = type}])
      BY <2>2 DEF BeginWalk
    <3> DEFINE start == [NotBegun EXCEPT !.type = type, !.limit = limit,
                                         !.kept = {i \in DOMAIN rows : rows[i].type = type}]
    <3>2. start.marker = None /\ start.trace = "exact"
      BY DEF NotBegun
    <3>3. PICK list \in Listings(start.type) : \E at \in PlaceOf(start.type, list, start.marker) :
            walk' = [walk EXCEPT ![v] = Turned(start, list, at)]
      BY <3>1 DEF TakePage
    <3>4. PICK at \in PlaceOf(start.type, list, start.marker) :
            walk' = [walk EXCEPT ![v] = Turned(start, list, at)]
      BY <3>3
    <3>5. DOMAIN list \subseteq Nat \ {0}
      BY <3>3, ListingsType
    <3>6. at = 0
      BY <3>2, <3>4, <3>5, PlaceType
    <3>7. Turned(start, list, at).trace = "exact"
      <4> HIDE DEF start
      <4> QED
        BY <3>2, <3>6 DEF Turned
    <3> HIDE DEF start
    <3> QED
      BY <1>1, <3>4, <3>7 DEF Inductive, TypeOK
  <2>3. ASSUME NEW v \in Walkers, NextPage(v) PROVE Cause(w)
    <3>1. CASE v = w
      BY <1>1, <2>3, <3>1, AstrayStep
    <3>2. CASE v # w
      BY <1>1, <2>3, <3>2 DEF NextPage, TakePage, Inductive, TypeOK
    <3> QED
      BY <3>1, <3>2
  <2>4. CASE UNCHANGED vars
    BY <1>1, <2>4 DEF vars
  <2> QED
    BY <1>1, <2>1, <2>2, <2>3, <2>4 DEF Next
<1>2. Inductive /\ [Next]_vars =>
        [\A w \in Walkers : walk[w].trace # "astray" /\ walk'[w].trace = "astray" =>
           /\ walk[w].type \in EngineTypes
           /\ walk[w].marker = walk[w].last => Lookalikes(w) # {}]_vars
  BY <1>1
<1> QED
  BY <1>2, Invariance, PTL DEF Spec, AstrayExplained

-----------------------------------------------------------------------------
(* What a client that follows the markers is shown.  The invariant says    *)
(* where the row of its marker divides the collection: what the client has *)
(* seen comes up to that row, and what it has yet to see comes after it.   *)
(* It holds of the rows that keep their order, and is claimed only as long *)
(* as the row is there: a client whose row is gone begins again, or goes   *)
(* on from another row and is astray.                                      *)

LooseFor(client) ==
  IF client.moved /\ client.type \in EngineTypes THEN ToSet(Seeds) ELSE {}

Listed(client) ==
  /\ client.kept \cup client.seen \subseteq {i \in DOMAIN rows : rows[i].type = client.type}
  /\ client.last # None => client.last \in DOMAIN rows /\ rows[client.last].type = client.type
  /\ client.at # "done" /\ client.last # None => client.last \in client.seen

(* What the client has yet to see. *)
Ahead(client) ==
  client.trace # "astray" =>
    \A k \in client.kept \ LooseFor(client) :
      \/ k \in client.seen
      \/ client.at # "done" /\ (client.last # None => Before(client.type, client.last, k))

(* What it has seen. *)
Behind(client) ==
  client.trace = "exact" =>
    /\ client.twice \subseteq LooseFor(client)
    /\ client.at # "done" /\ client.last # None =>
         \A i \in client.seen \ LooseFor(client) :
           i = client.last \/ Before(client.type, i, client.last)

(* A client without a marker has seen nothing. *)
Reading(client) ==
  /\ client.at = "idle" => client.last = None /\ client.marker = None
  /\ client.at # "done" /\ client.marker = None => client.seen = {} /\ client.twice = {}

Paged == \A w \in Walkers : /\ Listed(walk[w]) /\ Ahead(walk[w]) /\ Behind(walk[w])
                            /\ Reading(walk[w])

(* The heap has each seeded document once. *)
LEMMA HeapInjective ==
  ASSUME heap \in Heaps PROVE IsInjective(heap) /\ ToSet(heap) \subseteq ToSet(Seeds)
<1> DEFINE n == Cardinality(Unordered)
<1>1. heap \in [1..n -> Unordered] /\ ToSet(heap) = Unordered
  BY DEF Heaps
<1>2. Unordered \subseteq ToSet(Seeds)
  BY DEF Unordered
<1>3. IsFiniteSet(Unordered)
  BY <1>2, Disjoint, CollectionsAssumption, FS_Subset
<1>4. n \in Nat
  BY <1>3, FS_CardinalityType
<1>5. IsFiniteSet(1..n) /\ Cardinality(1..n) = n
  BY <1>4, FS_Interval
<1>6. heap \in Surjection(1..n, Unordered)
  BY <1>1 DEF Surjection, ToSet
<1>7. heap \in Injection(1..n, Unordered)
  BY <1>3, <1>5, <1>6, FS_SurjSameCardinalityImpliesInj
<1> QED
  BY <1>1, <1>2, <1>7 DEF Injection

(* In a sequence without repetitions no element precedes what precedes it. *)
LEMMA PrecedesOnce ==
  ASSUME NEW s, DOMAIN s \subseteq Int, IsInjective(s), NEW i, NEW j
  PROVE  ~(Precedes(s, i, j) /\ Precedes(s, j, i))
BY DEF Precedes, IsInjective

(* The order of a listing is strict. *)
LEMMA BeforeStrict ==
  ASSUME Inductive, NEW type, NEW i \in DOMAIN rows, NEW j \in DOMAIN rows
  PROVE  ~(Before(type, i, j) /\ Before(type, j, i))
<1>1. rows[i].created \in Nat /\ rows[j].created \in Nat
  BY DEF Inductive, TypeOK, Rows
<1>2. IsInjective(heap) /\ heap \in Heaps
  BY HeapInjective DEF Inductive, TypeOK
<1>3. DOMAIN heap \subseteq Int
  <2>1. PICK n : n = Cardinality(Unordered) /\ heap \in [1..n -> Unordered]
    BY <1>2 DEF Heaps
  <2> QED
    BY <2>1
<1>4. DOMAIN Seeds \subseteq Int /\ IsInjective(Seeds)
  BY CollectionsAssumption
<1>5. PICK s : s = IF type \in EngineTypes THEN heap ELSE Seeds
  OBVIOUS
<1>6. ~(Precedes(s, i, j) /\ Precedes(s, j, i))
  BY <1>2, <1>3, <1>4, <1>5, PrecedesOnce
<1> QED
  BY <1>1, <1>5, <1>6 DEF Before

(* A listing has every row of its type, each before those that follow. *)
LEMMA ListingWhole ==
  ASSUME Inductive, NEW type, NEW list \in Listings(type)
  PROVE  /\ \A a, b \in DOMAIN list : a < b => Before(type, list[a], list[b])
         /\ \A i \in DOMAIN rows : rows[i].type = type => \E n \in DOMAIN list : list[n] = i
<1> DEFINE S == {i \in DOMAIN rows : rows[i].type = type}
           n == Cardinality(S)
<1>1. S \subseteq Ids /\ IsFiniteSet(S)
  BY CollectionsAssumption, FS_Subset DEF Inductive, TypeOK
<1>2. n \in Nat
  BY <1>1, FS_CardinalityType
<1>3. list \in [1..n -> S] /\ \A a, b \in DOMAIN list : a < b => Before(type, list[a], list[b])
  BY DEF Listings
<1>4. IsFiniteSet(1..n) /\ Cardinality(1..n) = n
  BY <1>2, FS_Interval
<1>5. \A a, b \in DOMAIN list : list[a] = list[b] => a = b
  <2> SUFFICES ASSUME NEW a \in DOMAIN list, NEW b \in DOMAIN list, list[a] = list[b], a < b
               PROVE  FALSE
    <3> HIDE DEF n
    <3> QED
      BY <1>2, <1>3
  <2>1. Before(type, list[a], list[a]) /\ list[a] \in DOMAIN rows
    BY <1>3
  <2> QED
    BY <2>1, BeforeStrict
<1>6. list \in Injection(1..n, S)
  <2> HIDE DEF n, S
  <2> QED
    BY <1>3, <1>5 DEF Injection, IsInjective
<1>7. list \in Surjection(1..n, S)
  <2> HIDE DEF S, n
  <2>1. n = Cardinality(S)
    BY DEF n
  <2> QED
    BY <1>1, <1>4, <1>6, <2>1, FS_Injection
<1>8. \A i \in S : \E a \in DOMAIN list : list[a] = i
  <2> HIDE DEF S, n
  <2> QED
    BY <1>3, <1>7 DEF Surjection
<1> QED
  BY <1>3, <1>8

(* Where a page ends. *)
LEMMA PageEnd ==
  ASSUME NEW N \in Nat, NEW at \in 0..N, NEW limit \in Nat,
         NEW end, end = IF limit = 0 \/ at + limit > N THEN N ELSE at + limit
  PROVE  /\ end \in at..N
         /\ ~(limit > 0 /\ at + limit < N) => end = N
         /\ limit > 0 /\ at + limit < N => at < end /\ end \in 1..N
OBVIOUS

(* A page is what follows a place, up to the row its next marker is from,  *)
(* or to the end.                                                          *)
LEMMA PagePlaces ==
  ASSUME NEW list, Len(list) \in Nat, DOMAIN list = 1..Len(list), list \in Seq(ToSet(list)),
         NEW at \in 0..Len(list), NEW limit \in Nat
  PROVE  \E end \in at..Len(list) :
           /\ \A n \in DOMAIN list : at < n /\ n <= end => list[n] \in ToSet(Page(list, at, limit))
           /\ \A i \in ToSet(Page(list, at, limit)) :
                \E n \in DOMAIN list : at < n /\ n <= end /\ list[n] = i
           /\ ~HasNext(list, at, limit) => end = Len(list)
           /\ HasNext(list, at, limit) =>
                /\ at < end /\ end \in DOMAIN list
                /\ Last(Page(list, at, limit)) = list[end]
<1> DEFINE end == IF limit = 0 \/ at + limit > Len(list) THEN Len(list) ELSE at + limit
           page == Page(list, at, limit)
<1>1. end \in at..Len(list)
  OBVIOUS
<1>2. page = SubSeq(list, at + 1, end)
  BY DEF Page
<1>3. /\ DOMAIN page = 1..(end - at) /\ Len(page) = end - at
      /\ \A n \in DOMAIN page : page[n] = list[at + n]
  <2> HIDE DEF end, page
  <2> QED
    BY <1>1, <1>2
<1>4. \A n \in DOMAIN list : at < n /\ n <= end => list[n] \in ToSet(page)
  <2> SUFFICES ASSUME NEW n \in DOMAIN list, at < n, n <= end PROVE list[n] \in ToSet(page)
    OBVIOUS
  <2> HIDE DEF page, end
  <2>1. n - at \in DOMAIN page /\ at + (n - at) = n
    BY <1>1, <1>3
  <2>2. page[n - at] = list[n]
    BY <1>3, <2>1
  <2> QED
    BY <2>1, <2>2 DEF ToSet
<1>5. \A i \in ToSet(page) : \E n \in DOMAIN list : at < n /\ n <= end /\ list[n] = i
  <2> SUFFICES ASSUME NEW m \in DOMAIN page
               PROVE  \E n \in DOMAIN list : at < n /\ n <= end /\ list[n] = page[m]
    BY DEF ToSet
  <2> HIDE DEF page, end
  <2>1. at + m \in DOMAIN list /\ at < at + m /\ at + m <= end
    BY <1>1, <1>3
  <2> QED
    BY <1>3, <2>1
<1>6. /\ ~HasNext(list, at, limit) => end = Len(list)
      /\ HasNext(list, at, limit) => at < end /\ end \in 1..Len(list)
  <2> HIDE DEF page
  <2>1. PICK N \in Nat : N = Len(list)
    OBVIOUS
  <2>2. PICK e : e = IF limit = 0 \/ at + limit > N THEN N ELSE at + limit
    OBVIOUS
  <2>3. end = e
    BY <2>1, <2>2
  <2>4. /\ ~(limit > 0 /\ at + limit < N) => e = N
        /\ limit > 0 /\ at + limit < N => at < e /\ e \in 1..N
    BY <2>1, <2>2, PageEnd
  <2> HIDE DEF end
  <2> QED
    BY <2>1, <2>3, <2>4 DEF HasNext
<1>7. ASSUME HasNext(list, at, limit)
      PROVE  at < end /\ end \in DOMAIN list /\ Last(page) = list[end]
  <2> HIDE DEF page, end
  <2>1. at < end /\ end \in DOMAIN list
    BY <1>6, <1>7
  <2>2. Len(page) \in DOMAIN page /\ at + Len(page) = end
    BY <1>1, <1>3, <2>1
  <2> QED
    BY <1>3, <2>1, <2>2 DEF Last
<1> HIDE DEF page, end
<1> QED
  BY <1>1, <1>4, <1>5, <1>6, <1>7 DEF page

(* How a page from place `at` divides the rows of its type. *)
LEMMA PageDivides ==
  ASSUME Inductive, NEW type, NEW list \in Listings(type), NEW at \in 0..Len(list),
         NEW limit \in Nat, NEW P, P = ToSet(Page(list, at, limit)),
         NEW more, more = HasNext(list, at, limit),
         NEW last, last = IF more THEN Last(Page(list, at, limit)) ELSE None
  PROVE  /\ at # 0 => list[at] \in DOMAIN rows
         /\ P \subseteq {i \in DOMAIN rows : rows[i].type = type}
         /\ more => last \in P
         /\ \A i \in DOMAIN rows : rows[i].type = type =>
              \/ i \in P
              \/ more /\ Before(type, last, i)
              \/ at # 0 /\ (i = list[at] \/ Before(type, i, list[at]))
         /\ \A i \in P : /\ more => i = last \/ Before(type, i, last)
                         /\ at # 0 => Before(type, list[at], i)
         /\ more /\ at # 0 =>
              \A i \in DOMAIN rows : rows[i].type = type /\ (i = list[at] \/ Before(type, i, list[at]))
                => Before(type, i, last)
<1>1. PICK N \in Nat : N = Len(list) /\ DOMAIN list = 1..N
  BY ListingsType
<1>2. \A n \in 1..N : list[n] \in DOMAIN rows /\ rows[list[n]].type = type
  BY <1>1, ListingsType
<1>3. /\ \A a, b \in 1..N : a < b => Before(type, list[a], list[b])
      /\ \A i \in DOMAIN rows : rows[i].type = type => \E n \in 1..N : list[n] = i
  BY <1>1, ListingWhole
<1>4. list \in Seq(ToSet(list))
  <2>1. list \in [1..N -> {i \in DOMAIN rows : rows[i].type = type}]
    BY <1>1 DEF Listings
  <2>2. list \in [1..N -> ToSet(list)]
    BY <1>1, <2>1 DEF ToSet
  <2> QED
    BY <2>2
<1>5. PICK end \in at..N :
        /\ \A n \in 1..N : at < n /\ n <= end => list[n] \in P
        /\ \A i \in P : \E n \in 1..N : at < n /\ n <= end /\ list[n] = i
        /\ ~more => end = N
        /\ more => at < end /\ end \in 1..N /\ last = list[end]
  <2>1. Len(list) \in Nat /\ DOMAIN list = 1..Len(list)
    BY <1>1
  <2>2. PICK end \in at..Len(list) :
          /\ \A n \in DOMAIN list : at < n /\ n <= end => list[n] \in P
          /\ \A i \in P : \E n \in DOMAIN list : at < n /\ n <= end /\ list[n] = i
          /\ ~more => end = Len(list)
          /\ more => /\ at < end /\ end \in DOMAIN list
                     /\ Last(Page(list, at, limit)) = list[end]
    BY <1>4, <2>1, PagePlaces
  <2> QED
    BY <1>1, <2>2
<1>6. at # 0 => at \in 1..N /\ list[at] \in DOMAIN rows
  BY <1>1, <1>2
<1>7. P \subseteq {i \in DOMAIN rows : rows[i].type = type} /\ (more => last \in P)
  BY <1>2, <1>5
<1>8. ASSUME NEW i \in DOMAIN rows, rows[i].type = type
      PROVE  \/ i \in P
             \/ more /\ Before(type, last, i)
             \/ at # 0 /\ (i = list[at] \/ Before(type, i, list[at]))
  <2>1. PICK n \in 1..N : list[n] = i
    BY <1>3, <1>8
  <2>2. CASE n <= at
    BY <1>1, <1>3, <2>1, <2>2
  <2>3. CASE at < n /\ n <= end
    BY <1>5, <2>1, <2>3
  <2>4. CASE end < n
    BY <1>3, <1>5, <2>1, <2>4
  <2> QED
    BY <1>1, <1>5, <2>2, <2>3, <2>4
<1>9. ASSUME NEW i \in P
      PROVE  /\ more => i = last \/ Before(type, i, last)
             /\ at # 0 => Before(type, list[at], i)
  <2>1. PICK n \in 1..N : at < n /\ n <= end /\ list[n] = i
    BY <1>5
  <2>2. ASSUME more PROVE i = last \/ Before(type, i, last)
    <3>1. n = end \/ n < end
      BY <1>5, <2>1
    <3> QED
      BY <1>3, <1>5, <2>1, <2>2, <3>1
  <2> QED
    BY <1>3, <1>6, <2>1, <2>2
<1>10. ASSUME more, at # 0, NEW i \in DOMAIN rows, rows[i].type = type,
              i = list[at] \/ Before(type, i, list[at])
       PROVE  Before(type, i, last)
  <2>1. PICK n \in 1..N : list[n] = i
    BY <1>3, <1>10
  <2>2. CASE n <= at
    <3>1. n < end
      BY <1>1, <1>5, <1>10, <2>2
    <3> QED
      BY <1>3, <1>5, <1>10, <2>1, <3>1
  <2>3. CASE at < n
    <3>1. Before(type, list[at], i)
      BY <1>3, <1>6, <1>10, <2>1, <2>3
    <3> QED
      BY <1>6, <1>10, <3>1, BeforeStrict
  <2> QED
    BY <1>1, <2>2, <2>3
<1> QED
  BY <1>6, <1>7, <1>8, <1>9, <1>10

(* A page leaves the client's row where it divides the collection. *)
LEMMA TurnedPaged ==
  ASSUME Inductive, NEW r \in Clients, r.type \in Types, r.at # "done",
         Listed(r), Ahead(r), Behind(r), Reading(r),
         NEW list \in Listings(r.type), NEW at \in PlaceOf(r.type, list, r.marker),
         NEW t, t = Turned(r, list, at)
  PROVE  Listed(t) /\ Ahead(t) /\ Behind(t) /\ Reading(t)
<1>1. /\ at \in 0..Len(list)
      /\ at # 0 => r.marker # None
  BY ListingsType, PlaceType
<1>2. r.limit \in Nat
  BY DEF Clients
<1>3. PICK P, more, last :
        /\ P = ToSet(Page(list, at, r.limit)) /\ more = HasNext(list, at, r.limit)
        /\ last = IF more THEN Last(Page(list, at, r.limit)) ELSE None
  OBVIOUS
<1>4. /\ at # 0 => list[at] \in DOMAIN rows
      /\ P \subseteq {i \in DOMAIN rows : rows[i].type = r.type}
      /\ more => last \in P
      /\ \A i \in DOMAIN rows : rows[i].type = r.type =>
           \/ i \in P
           \/ more /\ Before(r.type, last, i)
           \/ at # 0 /\ (i = list[at] \/ Before(r.type, i, list[at]))
      /\ \A i \in P : /\ more => i = last \/ Before(r.type, i, last)
                      /\ at # 0 => Before(r.type, list[at], i)
      /\ more /\ at # 0 =>
           \A i \in DOMAIN rows :
             rows[i].type = r.type /\ (i = list[at] \/ Before(r.type, i, list[at]))
               => Before(r.type, i, last)
  BY <1>1, <1>2, <1>3, PageDivides
<1>5. /\ t.at = (IF more THEN "more" ELSE "done") /\ t.type = r.type /\ t.last = last
      /\ t.marker = (IF more THEN Shown(r.type, last) ELSE None)
      /\ t.kept = r.kept /\ t.seen = r.seen \cup P /\ t.twice = r.twice \cup (r.seen \cap P)
      /\ t.moved = r.moved
      /\ t.trace = IF at # 0 /\ list[at] # r.last THEN "astray"
                   ELSE IF r.marker # None /\ at = 0 /\ r.trace = "exact" THEN "restarted"
                   ELSE r.trace
  BY <1>3 DEF Turned
<1>6. LooseFor(t) = LooseFor(r)
  BY <1>5 DEF LooseFor
<1>7. t.trace # "astray" => r.trace # "astray" /\ (at # 0 => list[at] = r.last)
  BY <1>5
<1>8. t.trace = "exact" =>
        r.trace = "exact" /\ (at # 0 => list[at] = r.last) /\ (at = 0 => r.marker = None)
  BY <1>5
<1>9. at # 0 /\ list[at] = r.last => r.last # None
  BY <1>4, RowsSound, Disjoint
<1>10. more => last # None /\ last \in DOMAIN rows /\ rows[last].type = r.type
  BY <1>4, RowsSound, Disjoint
<1>11. Listed(t)
  BY <1>3, <1>4, <1>5, <1>10 DEF Listed
<1>12. Ahead(t)
  <2> SUFFICES ASSUME t.trace # "astray", NEW k \in r.kept \ LooseFor(r)
               PROVE  k \in P \cup r.seen \/ (more /\ Before(r.type, last, k))
    BY <1>5, <1>6 DEF Ahead
  <2>1. k \in DOMAIN rows /\ rows[k].type = r.type
    BY DEF Listed
  <2>2. ASSUME at # 0, k = list[at] \/ Before(r.type, k, list[at]) PROVE k \in r.seen
    <3>1. list[at] = r.last /\ r.last # None /\ r.last \in DOMAIN rows
      BY <1>4, <1>7, <1>9, <2>2
    <3>2. k \in r.seen \/ Before(r.type, r.last, k)
      BY <1>7, <3>1 DEF Ahead
    <3> QED
      BY <2>1, <2>2, <3>1, <3>2, BeforeStrict
  <2> QED
    BY <1>4, <2>1, <2>2
<1>13. Behind(t)
  <2> SUFFICES ASSUME t.trace = "exact"
               PROVE  /\ r.twice \cup (r.seen \cap P) \subseteq LooseFor(r)
                      /\ more => \A i \in (r.seen \cup P) \ LooseFor(r) :
                                   i = last \/ Before(r.type, i, last)
    BY <1>5, <1>6 DEF Behind
  <2>1. CASE at = 0
    <3>1. r.seen = {} /\ r.twice = {}
      BY <1>8, <2>1 DEF Reading
    <3> QED
      BY <1>4, <3>1
  <2>2. CASE at # 0
    <3>1. r.trace = "exact" /\ list[at] = r.last /\ r.last # None /\ r.last \in DOMAIN rows
      BY <1>4, <1>8, <1>9, <2>2
    <3>2. ASSUME NEW i \in r.seen \ LooseFor(r)
          PROVE  /\ i \in DOMAIN rows /\ rows[i].type = r.type
                 /\ i = list[at] \/ Before(r.type, i, list[at])
      BY <3>1 DEF Behind, Listed
    <3>3. ASSUME NEW i \in r.seen \cap P, i \notin LooseFor(r) PROVE FALSE
      <4>1. Before(r.type, list[at], i)
        BY <1>4, <2>2
      <4> QED
        BY <3>1, <3>2, <3>3, <4>1, BeforeStrict
    <3>4. r.twice \subseteq LooseFor(r)
      BY <3>1 DEF Behind
    <3> QED
      BY <1>4, <2>2, <3>2, <3>3, <3>4
  <2> QED
    BY <2>1, <2>2
<1>14. Reading(t)
  <2>1. more => Shown(r.type, last) # None
    BY <1>10, RowsSound, Disjoint, CollectionsAssumption DEF Shown, Sound, Rows, Documents
  <2> QED
    BY <1>5, <2>1 DEF Reading
<1> QED
  BY <1>11, <1>12, <1>13, <1>14

(* A write never changes the type of a row, nor when it was created. *)
LEMMA WriteKeeps ==
  ASSUME Inductive, NEW c \in Calls, Write(c)
  PROVE  \/ UNCHANGED <<rows, heap, walk>>
         \/ /\ Store(rows')
            /\ \A i \in DOMAIN rows \cap DOMAIN rows' :
                 rows'[i].type = rows[i].type /\ rows'[i].created = rows[i].created
<1> DEFINE Kept == /\ Store(rows')
                   /\ \A i \in DOMAIN rows \cap DOMAIN rows' :
                        rows'[i].type = rows[i].type /\ rows'[i].created = rows[i].created
<1>1. ASSUME NEW i, NEW STATE row, Put(i, row), i \notin DOMAIN rows PROVE Kept
  BY <1>1 DEF Put, Store
<1>2. ASSUME NEW i, NEW STATE name, NEW STATE doc, NEW STATE from,
             Put(i, Rewritten(i, name, doc, from)) PROVE Kept
  <2>1. /\ Store(rows')
        /\ rows' = [j \in DOMAIN rows \cup {i} |-> IF j = i THEN Rewritten(i, name, doc, from) ELSE rows[j]]
    BY <1>2 DEF Put, Store
  <2> QED
    BY <2>1 DEF Rewritten
<1>3. ASSUME NEW STATE gone, Drop(gone) PROVE Kept
  BY <1>3 DEF Drop, Store
<1>4. call[c].at # "done" => c \notin DOMAIN rows
  BY DEF Inductive, Pending
<1>5. CASE Create(c)
  <2>1. PICK type \in Types, body \in Bodies :
          Put(c, NewRow(type, CreatedDocument(c, body).name, CreatedDocument(c, body), "create"))
    BY <1>5 DEF Create
  <2> QED
    BY <1>1, <1>4, <1>5, <2>1 DEF Create
<1>6. CASE RecordAction(c)
  <2>1. PICK action \in Names : Put(c, NewRow(ActionType, action, [id |-> c, name |-> action], "create"))
    BY <1>6 DEF RecordAction
  <2> QED
    BY <1>1, <1>4, <1>6, <2>1 DEF RecordAction
<1>7. CASE FindForUpdate(c)
  BY <1>7 DEF FindForUpdate
<1>8. CASE Update(c)
  BY <1>2, <1>8 DEF Update
<1>9. CASE Upsert(c)
  BY <1>1, <1>2, <1>9 DEF Upsert
<1>10. CASE Delete(c)
  BY <1>3, <1>10 DEF Delete
<1>11. CASE RouteUpdate(c)
  BY <1>2, <1>11 DEF RouteUpdate
<1>12. CASE RouteDelete(c)
  BY <1>3, <1>12 DEF RouteDelete
<1> QED
  BY <1>5, <1>6, <1>7, <1>8, <1>9, <1>10, <1>11, <1>12 DEF Write

(* Two rows keep their order as long as a write leaves the heap alone, or  *)
(* one of them was not seeded.                                             *)
LEMMA BeforeStays ==
  ASSUME Inductive,
         \A i \in DOMAIN rows \cap DOMAIN rows' : rows'[i].created = rows[i].created,
         NEW type, NEW i \in DOMAIN rows \cap DOMAIN rows', NEW j \in DOMAIN rows \cap DOMAIN rows',
         Before(type, i, j),
         type \notin EngineTypes \/ heap' = heap \/ i \notin ToSet(Seeds) \/ j \notin ToSet(Seeds)
  PROVE  Before(type, i, j)'
<1>1. ToSet(heap) \subseteq ToSet(Seeds)
  BY HeapInjective DEF Inductive, TypeOK
<1>2. Precedes(heap, i, j) => i \in ToSet(heap) /\ j \in ToSet(heap)
  BY DEF Precedes, ToSet
<1>3. CASE type \in EngineTypes
  <2>1. Precedes(heap, i, j) => Precedes(heap', i, j)
    BY <1>1, <1>2, <1>3
  <2> QED
    BY <1>3, <2>1 DEF Before
<1>4. CASE type \notin EngineTypes
  BY <1>4 DEF Before
<1> QED
  BY <1>3, <1>4

(* What is seen and what is ahead stay so when rows are written. *)
LEMMA StoredPaged ==
  ASSUME Inductive, Paged, Store(rows'), DOMAIN rows' \subseteq Ids,
         \A i \in DOMAIN rows \cap DOMAIN rows' :
           rows'[i].type = rows[i].type /\ rows'[i].created = rows[i].created
  PROVE  Paged'
<1> SUFFICES ASSUME NEW w \in Walkers
             PROVE  Listed(walk[w])' /\ Ahead(walk[w])' /\ Behind(walk[w])' /\ Reading(walk[w])'
  BY DEF Paged
<1>1. PICK r, t : r = walk[w] /\ t = walk'[w]
  OBVIOUS
<1>2. Listed(r) /\ Ahead(r) /\ Behind(r) /\ Reading(r)
  BY <1>1 DEF Paged
<1>3. /\ t.at = r.at /\ t.type = r.type /\ t.marker = r.marker
      /\ t.last = (IF r.last \in DOMAIN rows' THEN r.last ELSE None)
      /\ t.kept = r.kept \cap DOMAIN rows' /\ t.seen = r.seen \cap DOMAIN rows'
      /\ t.twice = r.twice /\ t.trace = r.trace
      /\ t.moved = (IF heap' = heap THEN r.moved ELSE TRUE)
  BY <1>1, StoredWalks
<1>4. t.last # None => t.last = r.last /\ t.last \in DOMAIN rows /\ t.last \in DOMAIN rows'
  BY <1>2, <1>3 DEF Listed
<1>5. LooseFor(r) \subseteq LooseFor(t)
  BY <1>3 DEF LooseFor
<1>6. ASSUME NEW k \in DOMAIN rows \cap DOMAIN rows', k \notin LooseFor(t), t.last # None
      PROVE  /\ Before(t.type, t.last, k) => Before(t.type, t.last, k)'
             /\ Before(t.type, k, t.last) => Before(t.type, k, t.last)'
  <2>1. t.type \notin EngineTypes \/ heap' = heap \/ k \notin ToSet(Seeds)
    BY <1>3, <1>6 DEF LooseFor
  <2> QED
    BY <1>4, <1>6, <2>1, BeforeStays
<1>7. Listed(t)'
  BY <1>2, <1>3, <1>4 DEF Listed
<1>8. Ahead(t)'
  <2> SUFFICES ASSUME t.trace # "astray", NEW k \in t.kept \ LooseFor(t)
               PROVE  \/ k \in t.seen
                      \/ t.at # "done" /\ (t.last # None => Before(t.type, t.last, k)')
    BY DEF Ahead
  <2>1. k \in r.kept \ LooseFor(r) /\ k \in DOMAIN rows \cap DOMAIN rows'
    BY <1>2, <1>3, <1>5 DEF Listed
  <2>2. k \in r.seen \/ (r.at # "done" /\ (r.last # None => Before(r.type, r.last, k)))
    BY <1>2, <1>3, <2>1 DEF Ahead
  <2> QED
    BY <1>3, <1>4, <1>6, <2>1, <2>2
<1>9. Behind(t)'
  <2> SUFFICES ASSUME t.trace = "exact"
               PROVE  /\ t.twice \subseteq LooseFor(t)
                      /\ t.at # "done" /\ t.last # None =>
                           \A i \in t.seen \ LooseFor(t) : i = t.last \/ Before(t.type, i, t.last)'
    BY DEF Behind
  <2>1. t.twice \subseteq LooseFor(t)
    BY <1>2, <1>3, <1>5 DEF Behind
  <2>2. ASSUME t.at # "done", t.last # None, NEW i \in t.seen \ LooseFor(t)
        PROVE  i = t.last \/ Before(t.type, i, t.last)'
    <3>1. i \in r.seen \ LooseFor(r) /\ i \in DOMAIN rows \cap DOMAIN rows'
      BY <1>2, <1>3, <1>5 DEF Listed
    <3>2. i = t.last \/ Before(t.type, i, t.last)
      BY <1>2, <1>3, <1>4, <2>2, <3>1 DEF Behind
    <3> QED
      BY <1>6, <2>2, <3>1, <3>2
  <2> QED
    BY <2>1, <2>2
<1>10. Reading(t)'
  BY <1>2, <1>3 DEF Reading
<1> QED
  BY <1>1, <1>7, <1>8, <1>9, <1>10 DEF Listed, Ahead, Behind, Reading

(* A page taken by one client leaves the others where they are. *)
LEMMA TakePaged ==
  ASSUME Inductive, Paged, NEW w \in Walkers, NEW STATE start, start \in Clients,
         start.type \in Types, start.at # "done",
         Listed(start), Ahead(start), Behind(start), Reading(start),
         TakePage(w, start), UNCHANGED <<rows, heap>>
  PROVE  Paged'
<1>1. PICK r \in Clients : r = start
  OBVIOUS
<1>2. PICK list \in Listings(r.type) : \E at \in PlaceOf(r.type, list, r.marker) :
        walk' = [walk EXCEPT ![w] = Turned(r, list, at)]
  BY <1>1 DEF TakePage
<1>3. PICK at \in PlaceOf(r.type, list, r.marker) : walk' = [walk EXCEPT ![w] = Turned(r, list, at)]
  BY <1>2
<1>4. PICK t : t = Turned(r, list, at)
  OBVIOUS
<1>5. Listed(t) /\ Ahead(t) /\ Behind(t) /\ Reading(t)
  BY <1>1, <1>4, TurnedPaged
<1>6. \A v \in Walkers : walk'[v] = IF v = w THEN t ELSE walk[v]
  BY <1>3, <1>4 DEF Inductive, TypeOK
<1>7. ASSUME NEW v \in Walkers
      PROVE  Listed(walk[v])' /\ Ahead(walk[v])' /\ Behind(walk[v])' /\ Reading(walk[v])'
  <2>1. PICK u : u = walk'[v]
    OBVIOUS
  <2>2. Listed(u) /\ Ahead(u) /\ Behind(u) /\ Reading(u)
    BY <1>5, <1>6, <2>1 DEF Paged
  <2> QED
    BY <2>1, <2>2 DEF Listed, Ahead, Behind, Reading, Before
<1> QED
  BY <1>7 DEF Paged

LEMMA InitPaged == Init => Paged
BY DEF Init, NotBegun, Paged, Listed, Ahead, Behind, Reading

LEMMA NextPaged == Inductive /\ Paged /\ [Next]_vars => Paged'
<1> SUFFICES ASSUME Inductive, Paged, [Next]_vars PROVE Paged'
  OBVIOUS
<1>1. ASSUME UNCHANGED <<rows, heap, walk>> PROVE Paged'
  BY <1>1 DEF Paged, Listed, Ahead, Behind, Reading, Before
<1>2. ASSUME NEW c \in Calls, Write(c) PROVE Paged'
  <2>1. DOMAIN rows' \subseteq Ids
    BY <1>2, WriteInductive DEF Inductive, TypeOK
  <2> QED
    BY <1>1, <1>2, <2>1, WriteKeeps, StoredPaged
<1>3. ASSUME NEW w \in Walkers, BeginWalk(w) PROVE Paged'
  <2>1. PICK type \in Types, limit \in Limits :
          TakePage(w, [NotBegun EXCEPT !.type = type, !.limit = limit,
                                       !.kept = {i \in DOMAIN rows : rows[i].type = type}])
    BY <1>3 DEF BeginWalk
  <2> DEFINE start == [NotBegun EXCEPT !.type = type, !.limit = limit,
                                       !.kept = {i \in DOMAIN rows : rows[i].type = type}]
  <2>2. start \in Clients /\ start.type = type
    BY CollectionsAssumption DEF NotBegun, Clients, Inductive, TypeOK
  <2>3. /\ start.at = "idle" /\ start.last = None /\ start.marker = None
        /\ start.kept = {i \in DOMAIN rows : rows[i].type = type}
        /\ start.seen = {} /\ start.twice = {}
    BY DEF NotBegun
  <2>4. TakePage(w, start)
    BY <2>1
  <2> HIDE DEF start
  <2>5. Listed(start) /\ Ahead(start) /\ Behind(start) /\ Reading(start)
    BY <2>2, <2>3 DEF Listed, Ahead, Behind, Reading
  <2> QED
    BY <1>3, <2>2, <2>3, <2>4, <2>5, TakePaged DEF BeginWalk
<1>4. ASSUME NEW w \in Walkers, NextPage(w) PROVE Paged'
  <2>1. walk[w] \in Clients /\ walk[w].type \in Types /\ walk[w].at # "done"
    BY <1>4 DEF NextPage, Inductive, TypeOK, Markers
  <2>2. Listed(walk[w]) /\ Ahead(walk[w]) /\ Behind(walk[w]) /\ Reading(walk[w])
    BY DEF Paged
  <2> QED
    BY <1>4, <2>1, <2>2, TakePaged DEF NextPage
<1> QED
  BY <1>1, <1>2, <1>3, <1>4 DEF Next, vars

LEMMA PagedInvariance == Spec => []Paged
<1>1. Init => Inductive /\ Paged
  BY InitInductive, InitPaged
<1>2. Inductive /\ Paged /\ [Next]_vars => Inductive' /\ Paged'
  BY NextInductive, NextPaged
<1> QED
  BY <1>1, <1>2, PTL DEF Spec

(* A client that follows the markers to the end misses no row that was     *)
(* there all along, whatever is written between its pages.                 *)
THEOREM WalksComplete == Spec => []WalkMissesNothing
<1>1. Paged => WalkMissesNothing
  BY DEF Paged, Ahead, LooseFor, WalkMissesNothing, Loose
<1> QED
  BY <1>1, PagedInvariance, PTL

(* No row comes twice to a client whose markers are exact.                 *)
THEOREM PagesApart == Spec => []PagesDisjoint
<1>1. Paged => PagesDisjoint
  BY DEF Paged, Behind, LooseFor, PagesDisjoint, Loose
<1> QED
  BY <1>1, PagedInvariance, PTL
=============================================================================
