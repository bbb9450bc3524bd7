------------------------ MODULE ClusterDocumentProofs ------------------------
(***************************************************************************)
(* The properties of ClusterDocumentProperties hold for any number of      *)
(* calls, names and hosts.  Every handler is one case of Edit: a change    *)
(* that keeps the references inside the document (BeginEdits).  What       *)
(* remains is about copies: a copy waiting to be saved agrees with every   *)
(* confirmed change that it is not older than (CopiesCurrent).             *)
(***************************************************************************)
EXTENDS ClusterDocumentProperties, TLAPS

(* d is without nodes of fabrics it does not have. *)
FabricsWhole(d) ==
  \A f \in Fabrics, x \in FabricNodes :
    d[FabricNode(f, x)] # Absent => d[Fabric(f)] # Absent

Lists(d, h) == d[Added(h)] # Absent \/ d[Joined(h)] # Absent

Result(change) == [p \in Paths |-> IF p \in DOMAIN change THEN change[p] ELSE document[p]]

(* What every handler leaves to the statements that follow. *)
GoodEdit(c, change, force, statement, h) ==
  /\ Edit(c, change, force, statement, h)
  /\ force \in BOOLEAN /\ statement \in {"find", "save"} /\ h \in Hosts \cup {Absent}
  /\ DOMAIN change \subseteq Paths
  /\ \A p \in DOMAIN change : change[p] \in Entries
  /\ FabricsWhole(Result(change))
  /\ \A g \in Hosts : Lists(Result(change), g) =>
       Lists(document, g) \/ (statement = "find" /\ g = h)
  /\ Lock \in DOMAIN change /\ change[Lock] = c /\ ~force => ~Has(Lock)

LEMMA PathFacts ==
  /\ \A z \in Zones : Zone(z) \in Paths
  /\ \A f \in Fabrics : Fabric(f) \in Paths
  /\ \A f \in Fabrics, x \in FabricNodes : FabricNode(f, x) \in Paths
  /\ Lock \in Paths /\ SdnPending \in Paths /\ Rules \in Paths
  /\ \A g \in Groups : Group(g) \in Paths
  /\ \A h \in Hosts : Added(h) \in Paths /\ Joined(h) \in Paths
BY DEF Paths

LEMMA PathsDiffer ==
  /\ \A f, g : Fabric(f) = Fabric(g) => f = g
  /\ \A f, g, x, y : FabricNode(f, x) = FabricNode(g, y) => f = g /\ x = y
  /\ \A f, g, x : Fabric(f) # FabricNode(g, x)
  /\ \A f, z : Fabric(f) # Zone(z) /\ Fabric(f) # Group(z) /\ Fabric(f) # Added(z) /\ Fabric(f) # Joined(z)
  /\ \A f, x, z : /\ FabricNode(f, x) # Zone(z) /\ FabricNode(f, x) # Group(z)
                  /\ FabricNode(f, x) # Added(z) /\ FabricNode(f, x) # Joined(z)
  /\ \A f : Fabric(f) \notin {Lock, SdnPending, Rules}
  /\ \A f, x : FabricNode(f, x) \notin {Lock, SdnPending, Rules}
  /\ \A h, z : /\ Added(h) # Zone(z) /\ Added(h) # Group(z) /\ Added(h) # Joined(z)
               /\ Joined(h) # Zone(z) /\ Joined(h) # Group(z)
  /\ \A h, g : (Added(h) = Added(g) => h = g) /\ (Joined(h) = Joined(g) => h = g)
  /\ \A h : Added(h) \notin {Lock, SdnPending, Rules} /\ Joined(h) \notin {Lock, SdnPending, Rules}
  /\ Lock # SdnPending /\ Lock # Rules /\ \A z : Zone(z) # Lock /\ Group(z) # Lock
BY DEF Zone, Fabric, FabricNode, Lock, SdnPending, Group, Rules, Added, Joined

(* A change of entries that are neither fabrics, nor their nodes, nor      *)
(* members, keeps the references.                                          *)
LEMMA PlainEdit ==
  ASSUME FabricsWhole(document), NEW c, NEW change, NEW force \in BOOLEAN,
         EditThenSave(c, change, force),
         DOMAIN change \subseteq Paths,
         \A p \in DOMAIN change : change[p] \in Entries,
         \A f, x : Fabric(f) \notin DOMAIN change /\ FabricNode(f, x) \notin DOMAIN change,
         \A h : Added(h) \notin DOMAIN change /\ Joined(h) \notin DOMAIN change,
         Lock \in DOMAIN change /\ change[Lock] = c /\ ~force => ~Has(Lock)
  PROVE  GoodEdit(c, change, force, "save", Absent)
<1>1. FabricsWhole(Result(change))
  BY PathFacts DEF FabricsWhole, Result
<1>2. \A g \in Hosts : Lists(Result(change), g) => Lists(document, g)
  BY PathFacts DEF Lists, Result
<1> QED
  BY <1>1, <1>2 DEF GoodEdit, EditThenSave

(* A change of fabrics and their nodes keeps the references when it adds   *)
(* nodes of fabrics that are there, and removes fabrics with their nodes.  *)
LEMMA FabricEdit ==
  ASSUME FabricsWhole(document), NEW c, NEW paths, NEW value \in {Absent, Present},
         Rewrite(c, SdnChange(paths, value)), paths \subseteq Paths,
         \A h : Added(h) \notin paths /\ Joined(h) \notin paths, Lock \notin paths,
         \A f \in Fabrics, x \in FabricNodes :
           \/ value = Present /\ (FabricNode(f, x) \in paths => Has(Fabric(f)))
           \/ value = Absent /\ (Fabric(f) \in paths => FabricNode(f, x) \in paths)
  PROVE  GoodEdit(c, SdnChange(paths, value), FALSE, "save", Absent)
<1> DEFINE change == SdnChange(paths, value)
<1>1. /\ DOMAIN change = paths \cup {SdnPending}
      /\ \A p \in paths : p # SdnPending => change[p] = value
      /\ change[SdnPending] = Present
  BY DEF SdnChange
<1>2. DOMAIN change \subseteq Paths /\ \A p \in DOMAIN change : change[p] \in Entries
  BY <1>1, PathFacts DEF Entries
<1>3. \A f \in Fabrics : Result(change)[Fabric(f)] =
        IF Fabric(f) \in paths THEN value ELSE document[Fabric(f)]
  BY <1>1, PathFacts, PathsDiffer DEF Result
<1>4. \A f \in Fabrics, x \in FabricNodes : Result(change)[FabricNode(f, x)] =
        IF FabricNode(f, x) \in paths THEN value ELSE document[FabricNode(f, x)]
  BY <1>1, PathFacts, PathsDiffer DEF Result
<1>5. FabricsWhole(Result(change))
  BY <1>3, <1>4, DocumentConstants DEF FabricsWhole, Has
<1>6. /\ \A h : Added(h) \notin DOMAIN change /\ Joined(h) \notin DOMAIN change
      /\ Lock \notin DOMAIN change
  BY <1>1, PathsDiffer
<1>7. \A g \in Hosts : Lists(Result(change), g) => Lists(document, g)
  BY <1>6, PathFacts DEF Lists, Result
<1> HIDE DEF change
<1> QED
  BY <1>2, <1>5, <1>6, <1>7 DEF GoodEdit, Rewrite, EditThenSave, change

LEMMA MemberEdit ==
  ASSUME FabricsWhole(document), NEW c, NEW h \in Hosts,
         NEW paths \in SUBSET {Added(h), Joined(h)}, NEW value, NEW statement,
         Edit(c, Assign(paths, value), FALSE, statement, h),
         \/ value = Present /\ statement = "find"
         \/ value = Absent /\ statement = "save"
  PROVE  GoodEdit(c, Assign(paths, value), FALSE, statement, h)
<1> DEFINE change == Assign(paths, value)
<1>1. DOMAIN change = paths /\ \A p \in paths : change[p] = value
  BY DEF Assign
<1>2. DOMAIN change \subseteq Paths /\ \A p \in DOMAIN change : change[p] \in Entries
  BY <1>1, PathFacts DEF Entries
<1>3. \A f, x : Fabric(f) \notin paths /\ FabricNode(f, x) \notin paths
  BY PathsDiffer
<1>4. FabricsWhole(Result(change))
  BY <1>1, <1>3, PathFacts DEF FabricsWhole, Result
<1>5. \A g \in Hosts : Lists(Result(change), g) =>
        Lists(document, g) \/ (statement = "find" /\ g = h)
  <2> SUFFICES ASSUME NEW g \in Hosts, Lists(Result(change), g),
                      ~(statement = "find" /\ g = h)
               PROVE  Lists(document, g)
    OBVIOUS
  <2>1. \A p \in {Added(g), Joined(g)} :
          Result(change)[p] = IF p \in paths THEN value ELSE document[p]
    BY <1>1, PathFacts DEF Result
  <2>2. CASE value = Absent
    BY <2>1, <2>2 DEF Lists
  <2>3. CASE value = Present /\ statement = "find"
    <3>1. Added(g) \notin paths /\ Joined(g) \notin paths
      BY <2>3, PathsDiffer
    <3> QED
      BY <2>1, <3>1 DEF Lists
  <2> QED
    BY <2>2, <2>3
<1>6. Lock \notin DOMAIN change
  BY <1>1, PathsDiffer
<1> HIDE DEF change
<1> QED
  BY <1>2, <1>4, <1>5, <1>6 DEF GoodEdit, change

(* Every handler is an edit that keeps the references. *)
LEMMA BeginEdits ==
  ASSUME DocumentTypeOK, FabricsWhole(document), NEW c \in Editors, Begin(c)
  PROVE  \E change, force, statement, h : GoodEdit(c, change, force, statement, h)
<1>0. c # Absent
  BY DocumentConstants DEF Tokens
<1>1. ASSUME NEW z \in Zones, NEW v \in Contents \cup {Absent},
             Rewrite(c, SdnChange({Zone(z)}, v))
      PROVE  GoodEdit(c, SdnChange({Zone(z)}, v), FALSE, "save", Absent)
  <2>1. /\ DOMAIN SdnChange({Zone(z)}, v) = {Zone(z), SdnPending}
        /\ \A p \in {Zone(z), SdnPending} : SdnChange({Zone(z)}, v)[p] \in {v, Present}
    BY DEF SdnChange
  <2> DEFINE change == SdnChange({Zone(z)}, v)
  <2>2. DOMAIN change \subseteq Paths /\ \A p \in DOMAIN change : change[p] \in Entries
    BY <2>1, PathFacts DEF Entries
  <2>3. /\ \A f, x : Fabric(f) \notin DOMAIN change /\ FabricNode(f, x) \notin DOMAIN change
        /\ \A h : Added(h) \notin DOMAIN change /\ Joined(h) \notin DOMAIN change
        /\ Lock \notin DOMAIN change
    BY <2>1, PathsDiffer
  <2>4. EditThenSave(c, change, FALSE)
    BY <1>1 DEF Rewrite
  <2> HIDE DEF change
  <2> QED
    BY <2>2, <2>3, <2>4, PlainEdit DEF change
<1>2. ASSUME NEW paths, NEW v \in Contents \cup Tokens \cup {Absent, Present}, NEW force \in BOOLEAN,
             EditThenSave(c, Assign(paths, v), force),
             \/ \E z \in Zones : paths = {Zone(z)}
             \/ \E g \in Groups : paths = {Group(g)}
             \/ paths \subseteq {Lock, SdnPending, Rules},
             Lock \in paths /\ v = c /\ ~force => ~Has(Lock)
      PROVE  GoodEdit(c, Assign(paths, v), force, "save", Absent)
  <2>1. DOMAIN Assign(paths, v) = paths /\ \A p \in paths : Assign(paths, v)[p] = v
    BY DEF Assign
  <2>2. paths \subseteq Paths
    BY <1>2, PathFacts
  <2>3. /\ \A f, x : Fabric(f) \notin paths /\ FabricNode(f, x) \notin paths
        /\ \A h : Added(h) \notin paths /\ Joined(h) \notin paths
    BY <1>2, PathsDiffer
  <2>4. \A p \in paths : Assign(paths, v)[p] \in Entries
    BY <2>1, <1>2 DEF Entries
  <2> QED
    BY <1>2, <2>1, <2>2, <2>3, <2>4, PlainEdit
<1>3. CASE ZoneCreate(c) \/ ZoneUpdate(c) \/ ZoneDelete(c)
  BY <1>1, <1>3 DEF ZoneCreate, ZoneUpdate, ZoneDelete
<1>4. CASE VnetDetail(c)
  BY <1>2, <1>4, PathsDiffer DEF VnetDetail, Rewrite
<1>5. CASE FabricCreate(c) \/ FabricUpdate(c)
  <2>1. PICK f \in Fabrics : Rewrite(c, SdnChange({Fabric(f)}, Present))
    BY <1>5 DEF FabricCreate, FabricUpdate
  <2>2. GoodEdit(c, SdnChange({Fabric(f)}, Present), FALSE, "save", Absent)
    BY <2>1, FabricEdit, PathFacts, PathsDiffer
  <2> QED
    BY <2>2
<1>6. CASE FabricDelete(c)
  <2>1. PICK f \in Fabrics : Rewrite(c, SdnChange(
          {Fabric(f)} \cup {FabricNode(f, x) : x \in FabricNodes}, Absent))
    BY <1>6 DEF FabricDelete
  <2> DEFINE paths == {Fabric(f)} \cup {FabricNode(f, x) : x \in FabricNodes}
  <2>2. paths \subseteq Paths
    BY PathFacts
  <2>3. /\ \A h : Added(h) \notin paths /\ Joined(h) \notin paths
        /\ Lock \notin paths
    BY PathsDiffer
  <2>4. \A g \in Fabrics, x \in FabricNodes : Fabric(g) \in paths => FabricNode(g, x) \in paths
    BY PathsDiffer
  <2> HIDE DEF paths
  <2>5. GoodEdit(c, SdnChange(paths, Absent), FALSE, "save", Absent)
    BY <2>1, <2>2, <2>3, <2>4, FabricEdit DEF paths
  <2> QED
    BY <2>5
<1>7. CASE FabricNodeCreate(c) \/ FabricNodeUpdate(c)
  <2>1. PICK f \in Fabrics, x \in FabricNodes :
          Has(Fabric(f)) /\ Rewrite(c, SdnChange({FabricNode(f, x)}, Present))
    BY <1>7 DEF FabricNodeCreate, FabricNodeUpdate, FabricsWhole, Has
  <2> DEFINE paths == {FabricNode(f, x)}
  <2>2. /\ paths \subseteq Paths
        /\ \A h : Added(h) \notin paths /\ Joined(h) \notin paths
        /\ \A g : Fabric(g) \notin paths
        /\ Lock \notin paths
        /\ \A g \in Fabrics, y \in FabricNodes : FabricNode(g, y) \in paths => g = f
    BY PathFacts, PathsDiffer
  <2> HIDE DEF paths
  <2>3. GoodEdit(c, SdnChange(paths, Present), FALSE, "save", Absent)
    BY <2>1, <2>2, FabricEdit DEF paths
  <2> QED
    BY <2>3
<1>8. CASE FabricNodeDelete(c)
  <2>1. PICK f \in Fabrics, x \in FabricNodes : Rewrite(c, SdnChange({FabricNode(f, x)}, Absent))
    BY <1>8 DEF FabricNodeDelete
  <2> DEFINE paths == {FabricNode(f, x)}
  <2>2. /\ paths \subseteq Paths
        /\ \A h : Added(h) \notin paths /\ Joined(h) \notin paths
        /\ \A g : Fabric(g) \notin paths
        /\ Lock \notin paths
        /\ \A g \in Fabrics, y \in FabricNodes : FabricNode(g, y) \in paths => g = f
    BY PathFacts, PathsDiffer
  <2> HIDE DEF paths
  <2>3. GoodEdit(c, SdnChange(paths, Absent), FALSE, "save", Absent)
    BY <2>1, <2>2, FabricEdit DEF paths
  <2> QED
    BY <2>3
<1>9. ASSUME NEW flag \in BOOLEAN, LockCreate(c, flag)
      PROVE  \E change, force, statement, h : GoodEdit(c, change, force, statement, h)
  BY <1>2, <1>9 DEF LockCreate, Tokens
<1>10. ASSUME NEW flag \in BOOLEAN, Rollback(c, flag) \/ \E token : Apply(c, token, flag)
       PROVE  \E change, force, statement, h : GoodEdit(c, change, force, statement, h)
  BY <1>0, <1>2, <1>10 DEF Rollback, Apply, AppliedState, Rewrite
<1>11. ASSUME NEW flag \in BOOLEAN, NEW token, LockDelete(c, token, flag)
       PROVE  \E change, force, statement, h : GoodEdit(c, change, force, statement, h)
  BY <1>0, <1>2, <1>11 DEF LockDelete
<1>12. CASE GroupCreate(c) \/ GroupUpdate(c) \/ GroupDelete(c) \/ HaRules(c)
  <2>1. CASE HaRules(c)
    BY <1>2, <2>1, PathsDiffer DEF HaRules, Rewrite
  <2>2. CASE GroupCreate(c) \/ GroupUpdate(c) \/ GroupDelete(c)
    BY <1>2, <2>2, PathsDiffer DEF GroupCreate, GroupUpdate, GroupDelete, Rewrite
  <2> QED
    BY <1>12, <2>1, <2>2
<1>13. CASE NodesAdd(c) \/ JoinPost(c) \/ NodesDelete(c)
  BY <1>13, MemberEdit DEF NodesAdd, JoinPost, NodesDelete
<1> QED
  BY <1>3, <1>4, <1>5, <1>6, <1>7, <1>8, <1>9, <1>10, <1>11, <1>12, <1>13 DEF Begin

-----------------------------------------------------------------------------
(***************************************************************************)
(* The inductive invariant.                                                *)
(***************************************************************************)
CopiesWhole == \A c \in Editors : FabricsWhole(edit[c].copy)

(* A copy about to be saved lists hosts with rows only. *)
CopiesListRows ==
  \A c \in Editors, h \in Hosts :
    edit[c].at \in Waiting /\ Lists(edit[c].copy, h) =>
      hostRow[h] # "none" \/ (edit[c].at \in {"find", "insert"} /\ h = edit[c].host)

Clock ==
  \A c \in Editors :
    /\ edit[c].readAt <= saves /\ edit[c].savedAt <= saves
    /\ edit[c].at \in Waiting \cup {"idle"} => edit[c].savedAt = 0

Excused(c, p) == \E d \in Editors : Superseded(d, c, p) \/ Overlapped(d, c)

(* A copy read after c was saved has what c wrote, with the same excuses   *)
(* as the document, or writes that path itself.                            *)
CopiesCurrent ==
  \A c, q \in Editors :
    IsSaved(c) /\ edit[q].at \in Waiting /\ edit[c].savedAt <= edit[q].readAt =>
      \A p \in edit[c].writes :
        p \in edit[q].writes \/ edit[q].copy[p] = edit[c].copy[p] \/ Excused(c, p)

(* A call that granted itself the lock had read a document without it, or  *)
(* asked to pass it; what its copy came from is what LockGrantedOnce says. *)
GrantsExplained ==
  \A c, d \in Editors :
    /\ IsSaved(c) /\ Lock \in edit[c].writes /\ edit[c].copy[Lock] = c
    /\ edit[d].at # "idle" /\ Lock \in edit[d].writes /\ edit[d].copy[Lock] = d
    /\ ~edit[d].forced /\ edit[c].savedAt <= edit[d].readAt
    => \E e \in Editors \ {d} :
         /\ IsSaved(e) /\ edit[e].savedAt <= edit[d].readAt
         /\ Superseded(e, c, Lock) \/ Overlapped(e, c)

DocumentInv ==
  /\ DocumentTypeOK /\ Clock
  /\ FabricsWhole(document) /\ CopiesWhole
  /\ MembersHaveRows /\ CopiesListRows
  /\ ConfirmedChangeKept /\ CopiesCurrent /\ GrantsExplained

LEMMA DocumentInitInv == DocumentInit => DocumentInv
<1> SUFFICES ASSUME DocumentInit PROVE DocumentInv
  OBVIOUS
<1>1. /\ document = SeedDocument /\ hostRow = SeedRows /\ saves = 0
      /\ edit = [c \in Editors |-> IdleEdit]
      /\ \A c \in Editors : /\ edit[c].at = "idle" /\ edit[c].copy = SeedDocument
                           /\ edit[c].readAt = 0 /\ edit[c].savedAt = 0
  BY DEF DocumentInit, IdleEdit
<1>2. DocumentTypeOK
  BY <1>1, DocumentSeedAssumption DEF DocumentTypeOK, IdleEdit, BetweenStatements, Waiting
<1>3. Clock
  <2> SUFFICES ASSUME NEW c \in Editors
               PROVE  /\ edit[c].readAt <= saves /\ edit[c].savedAt <= saves
                      /\ edit[c].savedAt = 0
    BY DEF Clock
  <2>1. edit[c].readAt = 0 /\ edit[c].savedAt = 0 /\ saves = 0
    BY <1>1
  <2> QED
    BY <2>1
<1>4. FabricsWhole(document) /\ CopiesWhole
  BY <1>1, DocumentSeedAssumption DEF FabricsWhole, CopiesWhole
<1>5. MembersHaveRows
  BY <1>1, DocumentSeedAssumption DEF MembersHaveRows, Has
<1>6. \A c \in Editors : edit[c].at \notin Waiting /\ ~IsSaved(c)
  <2> SUFFICES ASSUME NEW c \in Editors
               PROVE  edit[c].at \notin Waiting /\ ~(edit[c].savedAt > 0)
    BY DEF IsSaved
  <2>1. edit[c].savedAt = 0 /\ edit[c].at = "idle"
    BY <1>1
  <2> QED
    BY <2>1 DEF Waiting
<1>7. CopiesListRows /\ ConfirmedChangeKept /\ CopiesCurrent /\ GrantsExplained
  BY <1>6 DEF CopiesListRows, ConfirmedChangeKept, CopiesCurrent, GrantsExplained
<1> QED
  BY <1>2, <1>3, <1>4, <1>5, <1>7 DEF DocumentInv

(* What the invariant says depends on a call through these fields only:    *)
(* moving on without saving keeps the rest.                                *)
LEMMA BeginInv ==
  ASSUME DocumentInv, NEW c \in Editors, NEW change, NEW force, NEW statement, NEW h,
         GoodEdit(c, change, force, statement, h)
  PROVE  DocumentInv'
<1> DEFINE new == Result(change)
<1>1. /\ edit[c].at = "idle" /\ edit[c].savedAt = 0
      /\ edit' = [edit EXCEPT ![c] =
           [at |-> statement, host |-> h, writes |-> DOMAIN change, forced |-> force,
            copy |-> new, readAt |-> saves, savedAt |-> 0]]
      /\ document' = document /\ hostRow' = hostRow /\ saves' = saves
  BY DEF GoodEdit, Edit, Result, DocumentInv, Clock
<1>2. /\ edit'[c].at = statement /\ edit'[c].host = h /\ edit'[c].writes = DOMAIN change
      /\ edit'[c].copy = new /\ edit'[c].readAt = saves /\ edit'[c].savedAt = 0
      /\ \A d \in Editors : d # c => edit'[d] = edit[d]
  BY <1>1 DEF DocumentInv, DocumentTypeOK
<1>3. /\ statement \in {"find", "save"} /\ FabricsWhole(new)
      /\ new \in [Paths -> Entries]
      /\ \A p \in Paths : p \notin DOMAIN change => new[p] = document[p]
      /\ \A g \in Hosts : Lists(new, g) => Lists(document, g) \/ (statement = "find" /\ g = h)
  BY DEF GoodEdit, Result, DocumentInv, DocumentTypeOK
<1>4. DocumentTypeOK'
  <2>1. [at |-> statement, host |-> h, writes |-> DOMAIN change, forced |-> force,
         copy |-> new, readAt |-> saves, savedAt |-> 0] \in
          [at : {"idle", "done", "failed"} \cup BetweenStatements, host : Hosts \cup {Absent},
           writes : SUBSET Paths, forced : BOOLEAN, copy : [Paths -> Entries],
           readAt : Nat, savedAt : Nat]
    BY <1>3 DEF GoodEdit, DocumentInv, DocumentTypeOK, BetweenStatements, Waiting
  <2> QED
    BY <1>1, <2>1 DEF DocumentInv, DocumentTypeOK
<1> HIDE DEF new
<1>5. Clock'
  BY <1>1, <1>2 DEF Clock, DocumentInv, DocumentTypeOK
<1>6. FabricsWhole(document)' /\ CopiesWhole'
  BY <1>1, <1>2, <1>3 DEF DocumentInv, CopiesWhole, FabricsWhole
<1>7. MembersHaveRows' /\ CopiesListRows'
  <2>1. MembersHaveRows'
    BY <1>1 DEF DocumentInv, MembersHaveRows, Has
  <2>2. \A g \in Hosts : Lists(new, g) => hostRow[g] # "none" \/ (statement = "find" /\ g = h)
    BY <1>3 DEF DocumentInv, MembersHaveRows, Has, Lists
  <2> QED
    BY <1>1, <1>2, <2>1, <2>2 DEF DocumentInv, CopiesListRows, Lists
<1>8. \A d \in Editors : IsSaved(d)' <=> IsSaved(d)
  BY <1>1, <1>2 DEF IsSaved
<1>9. \A d \in Editors, p \in Paths : IsSaved(d) /\ Excused(d, p) => Excused(d, p)'
  <2> SUFFICES ASSUME NEW d \in Editors, NEW p \in Paths, IsSaved(d), Excused(d, p)
               PROVE  Excused(d, p)'
    OBVIOUS
  <2>1. PICK e \in Editors : Superseded(e, d, p) \/ Overlapped(e, d)
    BY DEF Excused
  <2>2. e # c /\ d # c
    BY <2>1, <1>1 DEF IsSaved, Superseded, Overlapped, DocumentInv, DocumentTypeOK
  <2> QED
    BY <2>1, <2>2, <1>2 DEF Excused, Superseded, Overlapped
<1>10. \A d \in Editors : IsSaved(d) =>
         /\ edit'[d] = edit[d] /\ edit[d].writes \subseteq Paths
         /\ \A p \in edit[d].writes : document[p] = edit[d].copy[p] \/ Excused(d, p)
  BY <1>1, <1>2 DEF IsSaved, DocumentInv, ConfirmedChangeKept, Excused, DocumentTypeOK
<1>11. ConfirmedChangeKept'
  BY <1>1, <1>8, <1>9, <1>10 DEF ConfirmedChangeKept, Excused
<1>12. CopiesCurrent'
  <2> SUFFICES ASSUME NEW d \in Editors, NEW q \in Editors, IsSaved(d),
                      edit'[q].at \in Waiting, edit[d].savedAt <= edit'[q].readAt,
                      NEW p \in edit[d].writes
               PROVE  p \in edit'[q].writes \/ edit'[q].copy[p] = edit[d].copy[p] \/ Excused(d, p)'
    BY <1>8, <1>10 DEF CopiesCurrent
  <2>1. CASE q = c
    BY <2>1, <1>2, <1>3, <1>9, <1>10
  <2>2. CASE q # c
    BY <2>2, <1>2, <1>9, <1>10 DEF DocumentInv, CopiesCurrent
  <2> QED
    BY <2>1, <2>2
<1>13. GrantsExplained'
  <2> SUFFICES ASSUME NEW d \in Editors, NEW q \in Editors, IsSaved(d),
                      Lock \in edit[d].writes, edit[d].copy[Lock] = d,
                      edit'[q].at # "idle", Lock \in edit'[q].writes, edit'[q].copy[Lock] = q,
                      ~edit'[q].forced, edit[d].savedAt <= edit'[q].readAt
               PROVE  \E e \in Editors \ {q} :
                        /\ IsSaved(e)' /\ edit'[e].savedAt <= edit'[q].readAt
                        /\ Superseded(e, d, Lock)' \/ Overlapped(e, d)'
    BY <1>8, <1>10 DEF GrantsExplained
  <2>1. CASE q = c
    <3>1. document[Lock] = Absent
      BY <2>1, <1>1, <1>2, PathFacts DEF GoodEdit, Result, Has, new, DocumentInv, DocumentTypeOK
    <3>2. Excused(d, Lock)
      BY <3>1, <1>10, DocumentConstants DEF Tokens
    <3>3. PICK e \in Editors : Superseded(e, d, Lock) \/ Overlapped(e, d)
      BY <3>2 DEF Excused
    <3>4. e # c /\ d # c /\ edit[e].savedAt <= saves /\ IsSaved(e)
      BY <3>3, <1>1 DEF IsSaved, Superseded, Overlapped, DocumentInv, DocumentTypeOK, Clock
    <3> QED
      BY <2>1, <3>3, <3>4, <1>2, <1>8 DEF Superseded, Overlapped
  <2>2. CASE q # c
    <3>1. PICK e \in Editors \ {q} :
            /\ IsSaved(e) /\ edit[e].savedAt <= edit[q].readAt
            /\ Superseded(e, d, Lock) \/ Overlapped(e, d)
      BY <2>2, <1>2 DEF DocumentInv, GrantsExplained
    <3>2. e # c /\ d # c
      BY <3>1, <1>1 DEF IsSaved, DocumentInv, DocumentTypeOK
    <3> QED
      BY <2>2, <3>1, <3>2, <1>2, <1>8 DEF Superseded, Overlapped
  <2> QED
    BY <2>1, <2>2
<1> QED
  BY <1>4, <1>5, <1>6, <1>7, <1>11, <1>12, <1>13 DEF DocumentInv

(* A call that moves on without saving, while rows only come.              *)
LEMMA MoveInv ==
  ASSUME DocumentInv, NEW c \in Editors, NEW where,
         Goto(c, where), UNCHANGED <<document, saves>>,
         hostRow' \in [Hosts -> RowStates],
         \A h \in Hosts : hostRow[h] # "none" => hostRow'[h] # "none",
         \/ edit[c].at \in {"find", "insert"} /\ where = "insert"
         \/ edit[c].at \in {"find", "insert"} /\ where = "save"
               /\ \A h \in Hosts : h = edit[c].host => hostRow'[h] # "none"
         \/ edit[c].at \in BetweenStatements /\ where = "failed"
         \/ edit[c].at = "mark" /\ where = "done"
  PROVE  DocumentInv'
<1>1. /\ edit'[c].at = where
      /\ \A d \in Editors : d # c => edit'[d] = edit[d]
      /\ \A d \in Editors :
           /\ edit'[d].host = edit[d].host /\ edit'[d].writes = edit[d].writes
           /\ edit'[d].copy = edit[d].copy /\ edit'[d].readAt = edit[d].readAt
           /\ edit'[d].savedAt = edit[d].savedAt
      /\ edit[c] \in [at : {"idle", "done", "failed"} \cup BetweenStatements, host : Hosts \cup {Absent},
           writes : SUBSET Paths, forced : BOOLEAN, copy : [Paths -> Entries],
           readAt : Nat, savedAt : Nat]
  BY DEF Goto, DocumentInv, DocumentTypeOK
<1>2. where \in {"done", "failed"} \cup BetweenStatements
  BY DEF BetweenStatements, Waiting
<1>3. \A d \in Editors : edit'[d].at \in Waiting => edit[d].at \in Waiting
  BY <1>1 DEF Waiting
<1>4. DocumentTypeOK'
  <2>1. [edit[c] EXCEPT !.at = where] \in
          [at : {"idle", "done", "failed"} \cup BetweenStatements, host : Hosts \cup {Absent},
           writes : SUBSET Paths, forced : BOOLEAN, copy : [Paths -> Entries],
           readAt : Nat, savedAt : Nat]
    BY <1>1, <1>2
  <2> QED
    BY <2>1 DEF Goto, DocumentInv, DocumentTypeOK
<1>5. Clock'
  BY <1>1 DEF Clock, DocumentInv, Waiting
<1>6. FabricsWhole(document)' /\ CopiesWhole'
  BY <1>1 DEF DocumentInv, CopiesWhole, FabricsWhole
<1>7. MembersHaveRows'
  BY DEF DocumentInv, MembersHaveRows, Has
<1>8. CopiesListRows'
  <2> SUFFICES ASSUME NEW d \in Editors, NEW h \in Hosts,
                      edit'[d].at \in Waiting, Lists(edit[d].copy, h)
               PROVE  hostRow'[h] # "none" \/ (edit'[d].at \in {"find", "insert"} /\ h = edit[d].host)
    BY <1>1 DEF CopiesListRows, Lists
  <2>1. hostRow[h] # "none" \/ (edit[d].at \in {"find", "insert"} /\ h = edit[d].host)
    BY <1>3 DEF DocumentInv, CopiesListRows
  <2> QED
    BY <2>1, <1>1 DEF Waiting
<1>9. /\ \A d \in Editors : IsSaved(d)' <=> IsSaved(d)
      /\ \A d \in Editors : \A p : Excused(d, p)' <=> Excused(d, p)
  BY <1>1 DEF IsSaved, Excused, Superseded, Overlapped
<1>10. ConfirmedChangeKept'
  <2> SUFFICES ASSUME NEW d \in Editors, IsSaved(d), NEW p \in edit[d].writes
               PROVE  document[p] = edit[d].copy[p] \/ Excused(d, p)
    BY <1>1, <1>9 DEF ConfirmedChangeKept, Excused
  <2> QED
    BY DEF DocumentInv, ConfirmedChangeKept, Excused
<1>11. CopiesCurrent'
  BY <1>1, <1>3, <1>9 DEF DocumentInv, CopiesCurrent
<1>12. \A d \in Editors : /\ edit'[d].forced = edit[d].forced
                          /\ edit'[d].at # "idle" => edit[d].at # "idle"
  BY DEF Goto, DocumentInv, DocumentTypeOK, BetweenStatements, Waiting
<1>13. GrantsExplained'
  BY <1>1, <1>9, <1>12 DEF DocumentInv, GrantsExplained, Superseded, Overlapped
<1> QED
  BY <1>4, <1>5, <1>6, <1>7, <1>8, <1>10, <1>11, <1>13 DEF DocumentInv

(* The whole copy is stored. *)
LEMMA SaveInv ==
  ASSUME DocumentInv, NEW c \in Editors, Save(c)
  PROVE  DocumentInv'
<1> DEFINE where == IF Removes(c) THEN "mark" ELSE "done"
<1>1. /\ edit[c].at = "save" /\ edit[c].savedAt = 0
      /\ document' = edit[c].copy /\ saves' = saves + 1 /\ hostRow' = hostRow
      /\ edit' = [edit EXCEPT ![c] =
        [at |-> where, host |-> edit[c].host, writes |-> edit[c].writes, forced |-> edit[c].forced,
         copy |-> edit[c].copy, readAt |-> edit[c].readAt, savedAt |-> saves + 1]]
      /\ saves \in Nat
      /\ edit[c] \in [at : {"idle", "done", "failed"} \cup BetweenStatements, host : Hosts \cup {Absent},
           writes : SUBSET Paths, forced : BOOLEAN, copy : [Paths -> Entries],
           readAt : Nat, savedAt : Nat]
  BY DEF Save, Saved, DocumentInv, Clock, Waiting, DocumentTypeOK
<1>2. where \in {"mark", "done"}
  OBVIOUS
<1> HIDE DEF where
<1>3. /\ edit'[c].at = where /\ edit'[c].savedAt = saves + 1
      /\ \A d \in Editors : d # c => edit'[d] = edit[d]
      /\ \A d \in Editors :
           /\ edit'[d].host = edit[d].host /\ edit'[d].writes = edit[d].writes
           /\ edit'[d].copy = edit[d].copy /\ edit'[d].readAt = edit[d].readAt
  BY <1>1 DEF DocumentInv, DocumentTypeOK
<1>4. DocumentTypeOK'
  <2>1. [at |-> where, host |-> edit[c].host, writes |-> edit[c].writes, forced |-> edit[c].forced,
         copy |-> edit[c].copy, readAt |-> edit[c].readAt, savedAt |-> saves + 1] \in
          [at : {"idle", "done", "failed"} \cup BetweenStatements, host : Hosts \cup {Absent},
           writes : SUBSET Paths, forced : BOOLEAN, copy : [Paths -> Entries],
           readAt : Nat, savedAt : Nat]
    BY <1>1, <1>2 DEF BetweenStatements
  <2> QED
    BY <1>1, <2>1 DEF DocumentInv, DocumentTypeOK
<1>5. Clock'
  BY <1>1, <1>2, <1>3 DEF Clock, DocumentInv, DocumentTypeOK, Waiting
<1>6. FabricsWhole(document)' /\ CopiesWhole'
  BY <1>1, <1>3 DEF DocumentInv, CopiesWhole, FabricsWhole
<1>7. MembersHaveRows' /\ CopiesListRows'
  <2>1. \A h \in Hosts : Lists(edit[c].copy, h) => hostRow[h] # "none"
    BY <1>1 DEF DocumentInv, CopiesListRows, Waiting
  <2>2. MembersHaveRows'
    BY <1>1, <2>1 DEF MembersHaveRows, Has, Lists
  <2>3. CopiesListRows'
    BY <1>1, <1>2, <1>3 DEF DocumentInv, CopiesListRows, Waiting, Lists
  <2> QED
    BY <2>2, <2>3
<1>8. \A d \in Editors : \A p : IsSaved(d) /\ Excused(d, p) => Excused(d, p)'
  <2> SUFFICES ASSUME NEW d \in Editors, NEW p, IsSaved(d), Excused(d, p)
               PROVE  Excused(d, p)'
    OBVIOUS
  <2>1. PICK e \in Editors : Superseded(e, d, p) \/ Overlapped(e, d)
    BY DEF Excused
  <2>2. e # c /\ d # c
    BY <2>1, <1>1 DEF IsSaved, Superseded, Overlapped, DocumentInv, DocumentTypeOK
  <2> QED
    BY <2>1, <2>2, <1>3 DEF Excused, Superseded, Overlapped
<1>9. \A d \in Editors : d # c /\ IsSaved(d)' =>
        /\ IsSaved(d) /\ edit'[d] = edit[d]
        /\ edit[d].savedAt \in Nat /\ edit[d].savedAt <= saves
  BY <1>3 DEF IsSaved, DocumentInv, Clock, DocumentTypeOK
<1>10. ConfirmedChangeKept'
  <2> SUFFICES ASSUME NEW d \in Editors, IsSaved(d)', NEW p \in edit'[d].writes
               PROVE  document'[p] = edit'[d].copy[p] \/ Excused(d, p)'
    BY DEF ConfirmedChangeKept, Excused
  <2>1. CASE d = c
    BY <2>1, <1>1, <1>3
  <2>2. CASE d # c /\ edit[c].readAt < edit[d].savedAt
    <3>1. Overlapped(c, d)'
      BY <2>2, <1>1, <1>3, <1>9 DEF Overlapped
    <3> QED
      BY <3>1 DEF Excused
  <2>3. CASE d # c /\ edit[d].savedAt <= edit[c].readAt
    <3>1. p \in edit[c].writes \/ edit[c].copy[p] = edit[d].copy[p] \/ Excused(d, p)
      BY <2>3, <1>1, <1>9 DEF DocumentInv, CopiesCurrent, Waiting
    <3>2. p \in edit[c].writes => Superseded(c, d, p)'
      BY <2>3, <1>1, <1>3, <1>9 DEF Superseded
    <3> QED
      BY <3>1, <3>2, <2>3, <1>1, <1>8, <1>9 DEF Excused
  <2> QED
    BY <2>1, <2>2, <2>3, <1>1, <1>9
<1>11. CopiesCurrent'
  <2> SUFFICES ASSUME NEW d \in Editors, NEW q \in Editors, IsSaved(d)',
                      edit'[q].at \in Waiting, edit'[d].savedAt <= edit'[q].readAt,
                      NEW p \in edit'[d].writes
               PROVE  p \in edit'[q].writes \/ edit'[q].copy[p] = edit'[d].copy[p] \/ Excused(d, p)'
    BY DEF CopiesCurrent
  <2>1. q # c /\ edit'[q] = edit[q]
    BY <1>2, <1>3 DEF Waiting
  <2>2. d # c
    BY <2>1, <1>1, <1>3 DEF DocumentInv, Clock, DocumentTypeOK
  <2> QED
    BY <2>1, <2>2, <1>8, <1>9 DEF DocumentInv, CopiesCurrent
<1>12. GrantsExplained'
  <2> SUFFICES ASSUME NEW d \in Editors, NEW q \in Editors, IsSaved(d)',
                      Lock \in edit[d].writes, edit[d].copy[Lock] = d,
                      edit'[q].at # "idle", Lock \in edit[q].writes, edit[q].copy[Lock] = q,
                      ~edit'[q].forced, edit'[d].savedAt <= edit[q].readAt
               PROVE  \E e \in Editors \ {q} :
                        /\ IsSaved(e)' /\ edit'[e].savedAt <= edit[q].readAt
                        /\ Superseded(e, d, Lock)' \/ Overlapped(e, d)'
    BY <1>3 DEF GrantsExplained
  <2>1. edit'[q].forced = edit[q].forced /\ edit[q].at # "idle"
    BY <1>1, <1>3 DEF DocumentInv, DocumentTypeOK
  <2>2. edit[q].readAt <= saves /\ edit[q].readAt \in Nat
    BY DEF DocumentInv, Clock, DocumentTypeOK
  <2>3. d # c
    BY <2>2, <1>1, <1>3
  <2>4. PICK e \in Editors \ {q} :
          /\ IsSaved(e) /\ edit[e].savedAt <= edit[q].readAt
          /\ Superseded(e, d, Lock) \/ Overlapped(e, d)
    BY <2>1, <2>3, <1>9 DEF DocumentInv, GrantsExplained
  <2>5. e # c
    BY <2>4, <1>1 DEF IsSaved
  <2> QED
    BY <2>3, <2>4, <2>5, <1>3 DEF IsSaved, Superseded, Overlapped
<1> QED
  BY <1>4, <1>5, <1>6, <1>7, <1>10, <1>11, <1>12 DEF DocumentInv

LEMMA DocumentNextInv == DocumentInv /\ [DocumentNext]_documentVars => DocumentInv'
<1> SUFFICES ASSUME DocumentInv, [DocumentNext]_documentVars PROVE DocumentInv'
  OBVIOUS
<1>1. ASSUME NEW c \in Editors, Begin(c) PROVE DocumentInv'
  BY <1>1, BeginEdits, BeginInv DEF DocumentInv
<1>2. ASSUME NEW c \in Editors, FindHost(c) PROVE DocumentInv'
  <2>1. hostRow' = hostRow /\ hostRow \in [Hosts -> RowStates]
    BY <1>2 DEF FindHost, DocumentInv, DocumentTypeOK
  <2>2. CASE hostRow[edit[c].host] = "none"
    BY <1>2, <2>1, <2>2, MoveInv DEF FindHost
  <2>3. CASE hostRow[edit[c].host] # "none"
    BY <1>2, <2>1, <2>3, MoveInv DEF FindHost
  <2> QED
    BY <2>2, <2>3
<1>3. ASSUME NEW c \in Editors, InsertHost(c) PROVE DocumentInv'
  <2>1. hostRow \in [Hosts -> RowStates]
    BY DEF DocumentInv, DocumentTypeOK
  <2>2. CASE hostRow[edit[c].host] = "none"
    <3>1. /\ hostRow' = [hostRow EXCEPT ![edit[c].host] = "online"] /\ Goto(c, "save")
          /\ edit[c].at = "insert" /\ UNCHANGED <<document, saves>>
      BY <1>3, <2>2 DEF InsertHost
    <3>2. hostRow' \in [Hosts -> RowStates]
      BY <3>1, <2>1 DEF RowStates
    <3>3. /\ \A h \in Hosts : hostRow[h] # "none" => hostRow'[h] # "none"
          /\ \A h \in Hosts : h = edit[c].host => hostRow'[h] # "none"
      BY <3>1, <2>1
    <3> QED
      BY <3>1, <3>2, <3>3, MoveInv
  <2>3. CASE hostRow[edit[c].host] # "none"
    BY <1>3, <2>1, <2>3, MoveInv DEF InsertHost, BetweenStatements, Waiting
  <2> QED
    BY <2>2, <2>3
<1>4. ASSUME NEW c \in Editors, Save(c) PROVE DocumentInv'
  BY <1>4, SaveInv
<1>5. ASSUME NEW c \in Editors, MarkOffline(c) PROVE DocumentInv'
  <2>1. hostRow \in [Hosts -> RowStates]
    BY DEF DocumentInv, DocumentTypeOK
  <2>2. /\ hostRow' \in [Hosts -> RowStates]
        /\ \A h \in Hosts : hostRow[h] # "none" => hostRow'[h] # "none"
    BY <1>5, <2>1 DEF MarkOffline, RowStates
  <2> QED
    BY <1>5, <2>2, MoveInv DEF MarkOffline
<1>6. ASSUME NEW c \in Editors, Lose(c) PROVE DocumentInv'
  <2>1. hostRow' = hostRow /\ hostRow \in [Hosts -> RowStates]
    BY <1>6 DEF Lose, DocumentInv, DocumentTypeOK
  <2> QED
    BY <1>6, <2>1, MoveInv DEF Lose
<1>7. CASE UNCHANGED documentVars
  BY <1>7 DEF documentVars, DocumentInv, DocumentTypeOK, Clock, FabricsWhole, CopiesWhole,
     MembersHaveRows, Has, CopiesListRows, Lists, ConfirmedChangeKept, CopiesCurrent,
     IsSaved, Excused, Superseded, Overlapped, GrantsExplained
<1> QED
  BY <1>1, <1>2, <1>3, <1>4, <1>5, <1>6, <1>7 DEF DocumentNext

-----------------------------------------------------------------------------
LEMMA DocumentInvariant == DocumentSpec => []DocumentInv
BY DocumentInitInv, DocumentNextInv, PTL DEF DocumentSpec

(* The document, the rows and the calls keep their types. *)
THEOREM DocumentTypes == DocumentSpec => []DocumentTypeOK
<1>1. DocumentInv => DocumentTypeOK
  BY DEF DocumentInv
<1> QED
  BY <1>1, DocumentInvariant, PTL

(* No stored document has a node of a fabric it does not have. *)
THEOREM FabricReferences == DocumentSpec => []FabricNodesHaveFabric
<1>1. DocumentInv => FabricNodesHaveFabric
  BY DEF DocumentInv, FabricsWhole, FabricNodesHaveFabric, Has
<1> QED
  BY <1>1, DocumentInvariant, PTL

(* Every listed host has its row. *)
THEOREM MemberReferences == DocumentSpec => []MembersHaveRows
<1>1. DocumentInv => MembersHaveRows
  BY DEF DocumentInv
<1> QED
  BY <1>1, DocumentInvariant, PTL

(* Nothing the document refers to is missing. *)
THEOREM DocumentReferences == DocumentSpec => []DocumentWhole
BY FabricReferences, MemberReferences, PTL DEF DocumentWhole

(* Only overlapping calls lose confirmed changes. *)
THEOREM NothingElseLost == DocumentSpec => []ConfirmedChangeKept
<1>1. DocumentInv => ConfirmedChangeKept
  BY DEF DocumentInv
<1> QED
  BY <1>1, DocumentInvariant, PTL

(* The SDN lock is granted twice in the stated cases only. *)
THEOREM LockGrants == DocumentSpec => []LockGrantedOnce
<1>1. DocumentInv => LockGrantedOnce
  <2> SUFFICES ASSUME DocumentInv, NEW c \in Granted \ {Earlier}, NEW d \in Granted \ {Earlier},
                      edit[c].savedAt < edit[d].savedAt, ~edit[d].forced, ~Overlapped(d, c)
               PROVE  \E e \in Editors \ {d} :
                        /\ edit[e].savedAt <= edit[d].readAt
                        /\ Superseded(e, c, Lock) \/ Overlapped(e, c)
    BY DEF LockGrantedOnce
  <2>1. /\ c \in Editors /\ IsSaved(c) /\ Lock \in edit[c].writes /\ edit[c].copy[Lock] = c
        /\ d \in Editors /\ IsSaved(d) /\ Lock \in edit[d].writes /\ edit[d].copy[Lock] = d
    BY DEF Granted, IsSaved
  <2>2. edit[d].at # "idle" /\ edit[c].savedAt <= edit[d].readAt
    BY <2>1 DEF Overlapped, IsSaved, DocumentInv, Clock, DocumentTypeOK
  <2> QED
    BY <2>1, <2>2 DEF DocumentInv, GrantsExplained
<1> QED
  BY <1>1, DocumentInvariant, PTL
=============================================================================
