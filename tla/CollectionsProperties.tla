------------------------ MODULE CollectionsProperties ------------------------
(* What the collections promise to those who write and those who page.     *)
EXTENDS Collections

Documents == [id : Texts, name : Names \cup {Default, Blank}]
Rows == [type : Types, shared : BOOLEAN, created : Nat,
         name : Names \cup {Default, Blank}, doc : Documents,
         from : {"seed", "create", "update", "upsert"}]
Requests == [at : {"idle", "found", "unknown", "done"}, type : Types \cup {None},
             addr : Texts \cup {None}, body : Bodies \cup {None},
             id : Ids \cup {None}, read : Rows \cup {None}]
Clients == [at : {"idle", "more", "done"}, type : Types \cup {None}, limit : Nat,
            marker : Texts \cup {None}, last : Ids \cup {None},
            kept : SUBSET Ids, seen : SUBSET Ids, twice : SUBSET Ids,
            trace : {"exact", "restarted", "astray"}, moved : BOOLEAN]

(* Type invariant: the key of a row is always a uuid, whatever text the    *)
(* request that created it was addressed to (schema_engine.py).            *)
TypeOK ==
  /\ DOMAIN rows \subseteq Ids
  /\ \A i \in DOMAIN rows : rows[i] \in Rows
  /\ heap \in Heaps
  /\ clock \in Nat
  /\ call \in [Calls -> Requests]
  /\ walk \in [Walkers -> Clients]

(* Rows that ORDER BY created_at leaves in any order, once a write has     *)
(* moved them: the documents that one seeding transaction wrote.           *)
Loose(w) == IF walk[w].moved /\ walk[w].type \in EngineTypes THEN ToSet(Seeds) ELSE {}

(* A client that follows the markers to the end has been shown every row   *)
(* that was there all along, whatever was created, changed or deleted      *)
(* between its pages, the row of its marker included (_paginate and        *)
(* paginate_rows begin again when a marker is unknown).  Two exceptions    *)
(* are the engine's: rows that have no order, and a marker that stands     *)
(* for another row.                                                        *)
WalkMissesNothing ==
  \A w \in Walkers : walk[w].at = "done" /\ walk[w].trace # "astray" =>
    walk[w].kept \ Loose(w) \subseteq walk[w].seen

(* As long as a client's markers are known and stand for the rows they     *)
(* were taken from, no row comes twice: pages neither overlap nor go back, *)
(* though every page is a SELECT of its own.                               *)
PagesDisjoint ==
  \A w \in Walkers : walk[w].trace = "exact" => walk[w].twice \subseteq Loose(w)

(* A marker that is the uuid of the row it was taken from stands for       *)
(* another row only if that row is gone (a PUT may have taken its uuid     *)
(* again), or if another row of the type shows the marker: as its name,    *)
(* which may be any text, or as its id with a document that was seeded or  *)
(* came from a PUT to an address that had no row (the upsert in            *)
(* _handle_update).  Creations and updates never show another row's id;    *)
(* and in a collection with a table of its own every marker is exact.      *)
Lookalikes(w) ==
  {i \in DOMAIN rows \ {walk[w].last} :
     /\ rows[i].type = walk[w].type
     /\ \/ rows[i].doc.name = walk[w].marker
        \/ rows[i].doc.id = walk[w].marker /\ rows[i].from \in {"seed", "upsert"}}

AstrayExplained ==
  [][\A w \in Walkers : walk[w].trace # "astray" /\ walk'[w].trace = "astray" =>
       /\ walk[w].type \in EngineTypes
       /\ walk[w].marker = walk[w].last => Lookalikes(w) # {}]_vars

(* The name a document shows is a name the object can be addressed by,     *)
(* though the lookup reads the column and updates race with one another    *)
(* between the SELECT and the UPDATE of _handle_update; except where the   *)
(* seed itself says otherwise (demo_cloud.py) and nobody has written since.*)
ShownNameFinds ==
  \A i \in DOMAIN rows : Given(rows[i].doc.name) /\ ~rows[i].shared =>
    rows[i].name = rows[i].doc.name \/ rows[i].from = "seed"

(* Following the markers comes to an end, however markers are deleted on   *)
(* the way, unless a marker stands for another row (_paginate; a client    *)
(* that gets the same marker again and again never ends).                  *)
WalkEnds ==
  \A w \in Walkers : walk[w].at = "more" ~> walk[w].at = "done" \/ walk[w].trace = "astray"
=============================================================================
