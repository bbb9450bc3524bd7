---------------------------- MODULE OpenStackProofs ----------------------------
(***************************************************************************)
(* Proofs about volumes, for any number of calls, volumes and sizes, and   *)
(* about host aggregates, for any number of requests and any names, names  *)
(* that are numbers included; and about ports and router interfaces, for   *)
(* any number of calls, networks, subnets, routers, servers and ports.     *)
(***************************************************************************)
EXTENDS VolumesProperties, AggregatesProperties, NetworkingProperties, FiniteSetTheorems,
        WellFoundedInduction, TLAPS

-----------------------------------------------------------------------------
(***************************************************************************)
(* Volumes.                                                                *)
(***************************************************************************)
DemandPlaces == {"idle", "extend", "act", "attach", "insert", "mark", "remove", "free",
                 "rewrite", "upsert", "done", "half done", "failed"}

DemandPurposes == {"none", "extend", "action", "attach", "detach", "rewrite"}

Demands == [at : DemandPlaces, op : DemandPurposes, volume : VolumeIds \cup {0},
            attachment : AttachmentIds \cup {0}, seen : Statuses, size : Sizes \cup {0},
            readAt : Nat, storedAt : Nat, left : VolumeIds \cup {0}]

VolumeRows == [status : Statuses, size : Sizes]

LEMMA LeastType == Least \in Sizes /\ Sizes \subseteq Nat
BY VolumesAssumption DEF Least

LEMMA VolumesTypeParts ==
  VolumesTypeOK <=> /\ DOMAIN volume \subseteq VolumeIds /\ volume \in [DOMAIN volume -> VolumeRows]
                    /\ DOMAIN attachment \subseteq AttachmentIds
                    /\ attachment \in [DOMAIN attachment -> VolumeIds]
                    /\ hosting \subseteq SeedServers /\ stores \in Nat
                    /\ demand \in [VolumeCalls -> Demands]
BY DEF VolumesTypeOK, VolumeRows, Demands, DemandPlaces, DemandPurposes

LEMMA VolumesTypePartsNext ==
  VolumesTypeOK' <=> /\ DOMAIN volume' \subseteq VolumeIds
                     /\ volume' \in [DOMAIN volume' -> VolumeRows]
                     /\ DOMAIN attachment' \subseteq AttachmentIds
                     /\ attachment' \in [DOMAIN attachment' -> VolumeIds]
                     /\ hosting' \subseteq SeedServers /\ stores' \in Nat
                     /\ demand' \in [VolumeCalls -> Demands]
BY DEF VolumesTypeOK, VolumeRows, Demands, DemandPlaces, DemandPurposes

LEMMA MovesCall ==
  ASSUME VolumesTypeOK, NEW c \in VolumeCalls, NEW at \in DemandPlaces, Moves(c, at)
  PROVE  /\ demand' \in [VolumeCalls -> Demands]
         /\ demand'[c].at = at
         /\ \A d \in VolumeCalls : d # c => demand'[d] = demand[d]
         /\ \A d \in VolumeCalls :
              /\ demand'[d].op = demand[d].op /\ demand'[d].volume = demand[d].volume
              /\ demand'[d].attachment = demand[d].attachment
              /\ demand'[d].seen = demand[d].seen /\ demand'[d].size = demand[d].size
              /\ demand'[d].readAt = demand[d].readAt /\ demand'[d].storedAt = demand[d].storedAt
<1>1. demand \in [VolumeCalls -> Demands] /\ demand[c] \in Demands
  BY VolumesTypeParts
<1>2. demand' = [demand EXCEPT ![c] = [@ EXCEPT !.at = at]]
  BY DEF Moves
<1>3. [demand[c] EXCEPT !.at = at] \in Demands
  BY <1>1 DEF Demands
<1>4. demand'[c] = [demand[c] EXCEPT !.at = at] /\ \A d \in VolumeCalls : d # c => demand'[d] = demand[d]
  BY <1>1, <1>2
<1>5. demand' \in [VolumeCalls -> Demands]
  BY <1>1, <1>2, <1>3
<1> QED
  BY <1>1, <1>4, <1>5 DEF Demands

LEMMA StoresCall ==
  ASSUME VolumesTypeOK, NEW c \in VolumeCalls, NEW at \in DemandPlaces,
         NEW left \in VolumeIds \cup {0}, StoresOver(c, at, left)
  PROVE  /\ demand' \in [VolumeCalls -> Demands]
         /\ demand'[c].at = at /\ demand'[c].storedAt = stores + 1 /\ demand'[c].left = left
         /\ stores \in Nat /\ stores' = stores + 1
         /\ \A d \in VolumeCalls : d # c => demand'[d] = demand[d]
         /\ \A d \in VolumeCalls :
              /\ demand'[d].op = demand[d].op /\ demand'[d].volume = demand[d].volume
              /\ demand'[d].attachment = demand[d].attachment
              /\ demand'[d].seen = demand[d].seen /\ demand'[d].size = demand[d].size
              /\ demand'[d].readAt = demand[d].readAt
<1> DEFINE moved == [demand[c] EXCEPT !.at = at]
           stored == [moved EXCEPT !.storedAt = stores + 1]
           new == [stored EXCEPT !.left = left]
<1>1. demand \in [VolumeCalls -> Demands] /\ demand[c] \in Demands /\ stores \in Nat
  BY VolumesTypeParts
<1>2. moved \in Demands /\ moved.at = at
  BY <1>1 DEF Demands
<1>3. /\ moved.op = demand[c].op /\ moved.volume = demand[c].volume
      /\ moved.attachment = demand[c].attachment /\ moved.seen = demand[c].seen
      /\ moved.size = demand[c].size /\ moved.readAt = demand[c].readAt
  BY <1>1 DEF Demands
<1>4. stores' = stores + 1 /\ demand' = [demand EXCEPT ![c] = new]
  BY DEF StoresOver
<1> HIDE DEF moved
<1>5. /\ stored \in Demands /\ stored.at = at /\ stored.storedAt = stores + 1
      /\ stored.op = moved.op /\ stored.volume = moved.volume
      /\ stored.attachment = moved.attachment /\ stored.seen = moved.seen
      /\ stored.size = moved.size /\ stored.readAt = moved.readAt
  BY <1>1, <1>2 DEF Demands
<1> HIDE DEF stored
<1>6. /\ new \in Demands /\ new.at = at /\ new.storedAt = stores + 1 /\ new.left = left
      /\ new.op = moved.op /\ new.volume = moved.volume /\ new.attachment = moved.attachment
      /\ new.seen = moved.seen /\ new.size = moved.size /\ new.readAt = moved.readAt
  BY <1>1, <1>5 DEF Demands
<1> HIDE DEF new
<1> QED
  BY <1>1, <1>3, <1>4, <1>6

LEMMA SetsRow ==
  ASSUME VolumesTypeOK, NEW v, NEW row \in VolumeRows, Sets(v, row)
  PROVE  /\ DOMAIN volume' = DOMAIN volume /\ volume' \in [DOMAIN volume' -> VolumeRows]
         /\ \A w \in DOMAIN volume : volume'[w] = IF w = v THEN row ELSE volume[w]
BY VolumesTypeParts DEF Sets

LEMMA MarkedVolume ==
  ASSUME VolumesTypeOK, NEW v, NEW status \in Statuses, Marked(v, status)
  PROVE  /\ DOMAIN volume' = DOMAIN volume /\ volume' \in [DOMAIN volume' -> VolumeRows]
         /\ \A w \in DOMAIN volume : volume'[w].size = volume[w].size
<1>1. volume \in [DOMAIN volume -> VolumeRows]
  BY VolumesTypeParts
<1>2. CASE v \in DOMAIN volume
  <2> DEFINE row == [status |-> status, size |-> volume[v].size]
  <2>1. row \in VolumeRows /\ Sets(v, row) /\ row.size = volume[v].size
    BY <1>1, <1>2 DEF Marked, VolumeRows
  <2> HIDE DEF row
  <2> QED
    BY <2>1, SetsRow
<1>3. CASE v \notin DOMAIN volume
  BY <1>1, <1>3 DEF Marked
<1> QED
  BY <1>2, <1>3

LEMMA VolumesInitType == VolumesInit => VolumesTypeOK
<1> SUFFICES ASSUME VolumesInit PROVE VolumesTypeOK
  OBVIOUS
<1>1. volume \in [DOMAIN volume -> VolumeRows] /\ DOMAIN volume \subseteq VolumeIds
  BY LeastType, VolumesAssumption DEF VolumesInit, VolumeRows, VolumeIds
<1>2. attachment \in [DOMAIN attachment -> VolumeIds] /\ DOMAIN attachment \subseteq AttachmentIds
  BY VolumesAssumption DEF VolumesInit, VolumeIds, AttachmentIds
<1>3. Unused \in Demands
  BY VolumesAssumption DEF Unused, Demands, DemandPlaces, DemandPurposes
<1> QED
  BY <1>1, <1>2, <1>3, VolumesTypeParts DEF VolumesInit

(* The clock of stores, and what is written and named only once.           *)
Clocks ==
  \A c \in VolumeCalls : demand[c].readAt <= stores /\ demand[c].storedAt <= stores

(* The id of a call that has not begun is no volume's, and no extension's. *)
Begun ==
  /\ \A c \in VolumeCalls : demand[c].at = "idle" => c \notin DOMAIN volume
  /\ \A c \in VolumeCalls : demand[c].op = "extend" =>
       \A b \in VolumeCalls : demand[c].volume = b => demand[b].at # "idle"
  /\ \A c \in VolumeCalls :
       /\ demand[c].at = "extend" => demand[c].op = "extend"
       /\ demand[c].op = "extend" => demand[c].at \in {"extend", "done", "failed"}
       /\ demand[c].at \in {"insert", "rewrite", "upsert"} => demand[c].volume \in VolumeIds
       /\ demand[c].at = "upsert" => demand[c].attachment \in AttachmentIds
       /\ demand[c].at = "extend" => demand[c].size \in Sizes

(* Another extension of the volume had read the size from before c.        *)
Undercut(c) ==
  \E d \in VolumeCalls : /\ Answered(d, "extend")
                         /\ demand[d].volume = demand[c].volume
                         /\ WrittenOver(d, c)

(* An extension that has read the size after c wrote it asks for as much.  *)
ReadersGrow ==
  \A c, d \in VolumeCalls :
    /\ Answered(c, "extend") /\ demand[d].at = "extend"
    /\ demand[d].volume = demand[c].volume
    /\ demand[c].storedAt <= demand[d].readAt
    => demand[d].size >= demand[c].size \/ Undercut(c)

VolumesInductive == VolumesTypeOK /\ Clocks /\ Begun /\ ReadersGrow /\ ExtensionKept

LEMMA VolumesInitInductive == VolumesInit => VolumesInductive
<1> SUFFICES ASSUME VolumesInit PROVE VolumesInductive
  OBVIOUS
<1>1. \A c \in VolumeCalls : demand[c] = Unused
  BY DEF VolumesInit
<1>2. Clocks /\ ReadersGrow /\ ExtensionKept
  BY <1>1 DEF VolumesInit, Unused, Clocks, ReadersGrow, ExtensionKept, Answered
<1>3. Begun
  BY <1>1, VolumesAssumption DEF VolumesInit, Unused, Begun
<1> QED
  BY <1>2, <1>3, VolumesInitType DEF VolumesInductive

(* A step of call c that is neither of the two of an extension.            *)
Quiet(c) ==
  /\ \A d \in VolumeCalls : d # c => demand'[d] = demand[d]
  /\ demand[c].at # "done"
  /\ demand'[c].at \notin {"idle", "extend"}
  /\ demand'[c].op = "extend" => /\ demand[c].op = "extend" /\ demand'[c].volume = demand[c].volume
                                 /\ demand'[c].at = "failed"
  /\ demand'[c].at \in {"insert", "rewrite", "upsert"} => demand'[c].volume \in VolumeIds
  /\ demand'[c].at = "upsert" => demand'[c].attachment \in AttachmentIds
  /\ stores' \in {stores, stores + 1}
  /\ demand'[c].readAt \in {demand[c].readAt, stores}
  /\ demand'[c].storedAt \in {demand[c].storedAt, 0, stores'}
  /\ \A v \in DOMAIN volume' :
       \/ v \in DOMAIN volume /\ volume'[v].size = volume[v].size
       \/ v = c /\ demand[c].at = "idle"

(* What c was answered stays as it is, and so does what excuses it.        *)
LEMMA AnsweredStays ==
  ASSUME NEW c \in VolumeCalls, demand[c].at # "done",
         \A d \in VolumeCalls : d # c => demand'[d] = demand[d]
  PROVE  /\ \A x \in VolumeCalls : Answered(x, "extend") => x # c /\ demand'[x] = demand[x]
         /\ \A x \in VolumeCalls : Answered(x, "extend") /\ Undercut(x) => Undercut(x)'
<1>1. \A x \in VolumeCalls : Answered(x, "extend") => x # c /\ demand'[x] = demand[x]
  BY DEF Answered
<1>2. ASSUME NEW x \in VolumeCalls, Answered(x, "extend"), Undercut(x)
      PROVE  Undercut(x)'
  <2> PICK d \in VolumeCalls : /\ Answered(d, "extend")
                               /\ demand[d].volume = demand[x].volume
                               /\ WrittenOver(d, x)
    BY <1>2 DEF Undercut
  <2>1. demand'[d] = demand[d] /\ demand'[x] = demand[x]
    BY <1>1, <1>2
  <2> QED
    BY <2>1 DEF Undercut, Answered, WrittenOver
<1> QED
  BY <1>1, <1>2

LEMMA QuietStep ==
  ASSUME VolumesInductive, VolumesTypeOK', NEW c \in VolumeCalls, Quiet(c)
  PROVE  VolumesInductive'
<1>1. /\ demand \in [VolumeCalls -> Demands] /\ demand' \in [VolumeCalls -> Demands]
      /\ stores \in Nat /\ stores' \in Nat
  BY VolumesTypeParts, VolumesTypePartsNext DEF VolumesInductive
<1>2. \A x \in VolumeCalls : demand[x].readAt \in Nat /\ demand[x].storedAt \in Nat
  BY <1>1 DEF Demands
<1>3. Clocks'
  BY <1>1, <1>2 DEF VolumesInductive, Clocks, Quiet
<1>4. \A x \in VolumeCalls : Answered(x, "extend")' => Answered(x, "extend") /\ x # c
                                                       /\ demand'[x] = demand[x]
  BY DEF Quiet, Answered
<1>5. \A x \in VolumeCalls : Answered(x, "extend") /\ Undercut(x) => Undercut(x)'
  BY AnsweredStays DEF Quiet
<1>6. ReadersGrow'
  <2> SUFFICES ASSUME NEW x \in VolumeCalls, NEW d \in VolumeCalls,
                      Answered(x, "extend")', demand'[d].at = "extend",
                      demand'[d].volume = demand'[x].volume,
                      demand'[x].storedAt <= demand'[d].readAt
               PROVE  demand'[d].size >= demand'[x].size \/ Undercut(x)'
    BY DEF ReadersGrow
  <2>1. d # c /\ demand'[d] = demand[d]
    BY DEF Quiet
  <2> QED
    BY <1>4, <1>5, <2>1 DEF VolumesInductive, ReadersGrow
<1>7. Begun'
  <2>1. ASSUME NEW x \in VolumeCalls, demand'[x].at = "idle"
        PROVE  x \notin DOMAIN volume'
    <3>1. x # c /\ demand[x] = demand'[x]
      BY <2>1 DEF Quiet
    <3> QED
      BY <2>1, <3>1 DEF Quiet, VolumesInductive, Begun
  <2>2. ASSUME NEW x \in VolumeCalls, demand'[x].op = "extend"
        PROVE  demand[x].op = "extend" /\ demand'[x].volume = demand[x].volume
    BY <2>2 DEF Quiet
  <2>3. \A x \in VolumeCalls : demand'[x].at = "idle" => demand[x].at = "idle"
    BY DEF Quiet
  <2>4. \A x \in VolumeCalls :
          /\ demand'[x].at = "extend" => demand'[x].op = "extend"
          /\ demand'[x].op = "extend" => demand'[x].at \in {"extend", "done", "failed"}
          /\ demand'[x].at \in {"insert", "rewrite", "upsert"} => demand'[x].volume \in VolumeIds
          /\ demand'[x].at = "upsert" => demand'[x].attachment \in AttachmentIds
          /\ demand'[x].at = "extend" => demand'[x].size \in Sizes
    BY DEF Quiet, VolumesInductive, Begun
  <2> QED
    BY <2>1, <2>2, <2>3, <2>4 DEF Begun, VolumesInductive
<1>8. ExtensionKept'
  <2> SUFFICES ASSUME NEW x \in VolumeCalls, Answered(x, "extend")',
                      demand'[x].volume \in DOMAIN volume'
               PROVE  volume'[demand'[x].volume].size >= demand'[x].size \/ Undercut(x)'
    BY DEF ExtensionKept, Undercut
  <2> DEFINE v == demand[x].volume
  <2>1. Answered(x, "extend") /\ demand'[x] = demand[x]
    BY <1>4
  <2>2. ~(v = c /\ demand[c].at = "idle")
    BY <2>1 DEF VolumesInductive, Begun, Answered
  <2>3. v \in DOMAIN volume /\ volume'[v].size = volume[v].size
    BY <2>1, <2>2 DEF Quiet
  <2>4. volume[v].size >= demand[x].size \/ Undercut(x)
    BY <2>1, <2>3 DEF VolumesInductive, ExtensionKept, Undercut
  <2> QED
    BY <1>5, <2>1, <2>3, <2>4
<1> QED
  BY <1>3, <1>6, <1>7, <1>8 DEF VolumesInductive

(* The three ways a step treats its call, none of them an extension's.     *)
LEMMA AsksQuietly ==
  ASSUME VolumesInductive, NEW c \in VolumeCalls, NEW at \in DemandPlaces,
         NEW op \in DemandPurposes, NEW v \in VolumeIds \cup {0},
         NEW a \in AttachmentIds \cup {0}, NEW seen \in Statuses, NEW size \in Sizes \cup {0},
         Asks(c, at, op, v, a, seen, size), demand[c].at # "done",
         at \notin {"idle", "extend", "done"}, op # "extend",
         at \in {"insert", "rewrite", "upsert"} => v \in VolumeIds,
         at = "upsert" => a \in AttachmentIds
  PROVE  VolumesTypeOK' /\ Quiet(c)
<1>1. VolumesTypeOK
  BY DEF VolumesInductive
<1>2. /\ demand' \in [VolumeCalls -> Demands]
      /\ demand'[c].at = at /\ demand'[c].op = op /\ demand'[c].volume = v
      /\ demand'[c].attachment = a
      /\ demand'[c].readAt = stores /\ demand'[c].storedAt = 0
      /\ \A d \in VolumeCalls : d # c => demand'[d] = demand[d]
      /\ UNCHANGED <<volume, attachment, hosting, stores>>
  <2> DEFINE new == [at |-> at, op |-> op, volume |-> v, attachment |-> a, seen |-> seen,
                     size |-> size, readAt |-> stores, storedAt |-> 0, left |-> 0]
  <2>1. demand \in [VolumeCalls -> Demands] /\ stores \in Nat
    BY <1>1, VolumesTypeParts
  <2>2. new \in Demands
    BY <2>1 DEF Demands
  <2>3. demand' = [demand EXCEPT ![c] = new] /\ UNCHANGED <<volume, attachment, hosting, stores>>
    BY DEF Asks
  <2> QED
    BY <2>1, <2>2, <2>3
<1> QED
  BY <1>1, <1>2, VolumesTypeParts, VolumesTypePartsNext DEF Quiet

(* Where a call that does not read anything goes on to.                    *)
PlacesOn == {"mark", "free", "done", "half done", "failed"}

LEMMA MovesQuietly ==
  ASSUME VolumesInductive, NEW c \in VolumeCalls, NEW at \in PlacesOn,
         Moves(c, at), demand[c].at # "done", at = "failed" \/ demand[c].op # "extend",
         UNCHANGED <<attachment, stores>>, hosting' \subseteq hosting,
         DOMAIN volume' \subseteq VolumeIds, volume' \in [DOMAIN volume' -> VolumeRows],
         \A v \in DOMAIN volume' : \/ v \in DOMAIN volume /\ volume'[v].size = volume[v].size
                                   \/ v = c /\ demand[c].at = "idle"
  PROVE  VolumesTypeOK' /\ Quiet(c)
<1>1. VolumesTypeOK
  BY DEF VolumesInductive
<1>2. /\ demand' \in [VolumeCalls -> Demands]
      /\ demand'[c].at = at
      /\ \A d \in VolumeCalls : d # c => demand'[d] = demand[d]
      /\ demand'[c].op = demand[c].op /\ demand'[c].volume = demand[c].volume
      /\ demand'[c].readAt = demand[c].readAt /\ demand'[c].storedAt = demand[c].storedAt
  BY <1>1, MovesCall DEF PlacesOn, DemandPlaces
<1>3. VolumesTypeOK'
  BY <1>1, <1>2, VolumesTypeParts, VolumesTypePartsNext
<1> QED
  BY <1>2, <1>3 DEF Quiet, PlacesOn

LEMMA StoresQuietly ==
  ASSUME VolumesInductive, NEW c \in VolumeCalls, NEW at \in PlacesOn,
         NEW left \in VolumeIds \cup {0}, StoresOver(c, at, left),
         demand[c].at # "done", demand[c].op # "extend",
         UNCHANGED hosting, DOMAIN attachment' \subseteq AttachmentIds,
         attachment' \in [DOMAIN attachment' -> VolumeIds],
         DOMAIN volume' = DOMAIN volume, volume' \in [DOMAIN volume' -> VolumeRows],
         \A v \in DOMAIN volume : volume'[v].size = volume[v].size
  PROVE  VolumesTypeOK' /\ Quiet(c)
<1>1. VolumesTypeOK
  BY DEF VolumesInductive
<1>2. /\ demand' \in [VolumeCalls -> Demands]
      /\ demand'[c].at = at /\ demand'[c].storedAt = stores'
      /\ stores \in Nat /\ stores' = stores + 1
      /\ \A d \in VolumeCalls : d # c => demand'[d] = demand[d]
      /\ demand'[c].op = demand[c].op /\ demand'[c].volume = demand[c].volume
      /\ demand'[c].readAt = demand[c].readAt
  BY <1>1, StoresCall DEF PlacesOn, DemandPlaces
<1>3. VolumesTypeOK'
  BY <1>1, <1>2, VolumesTypeParts, VolumesTypePartsNext
<1> QED
  BY <1>2, <1>3 DEF Quiet, PlacesOn

QuietActions(c) ==
  \/ VolumeCreate(c) \/ VolumeDelete(c) \/ AskForAction(c) \/ Act(c) \/ ServerDelete(c)
  \/ AskToAttach(c) \/ FindVolume(c) \/ InsertAttachment(c) \/ MarkInUse(c)
  \/ FindAttachment(c) \/ RemoveAttachment(c) \/ FreeVolume(c)
  \/ AskToRewrite(c) \/ RewriteAttachment(c) \/ UpsertAttachment(c) \/ VolumeCallLost(c)

LEMMA ActionsQuiet ==
  ASSUME VolumesInductive, NEW c \in VolumeCalls, QuietActions(c)
  PROVE  VolumesTypeOK' /\ Quiet(c)
<1>1. /\ VolumesTypeOK
      /\ DOMAIN volume \subseteq VolumeIds /\ volume \in [DOMAIN volume -> VolumeRows]
      /\ DOMAIN attachment \subseteq AttachmentIds /\ attachment \in [DOMAIN attachment -> VolumeIds]
      /\ demand \in [VolumeCalls -> Demands] /\ demand[c] \in Demands
  BY VolumesTypeParts DEF VolumesInductive
<1>2. demand[c].op = "extend" => demand[c].at \in {"extend", "done", "failed"}
  BY DEF VolumesInductive, Begun
<1>3. /\ c \in VolumeIds /\ c \in AttachmentIds
      /\ {"available", "in-use"} \subseteq Statuses
  BY VolumesAssumption DEF VolumeIds, AttachmentIds
<1>4. \A v \in DOMAIN volume : volume[v].status \in Statuses /\ volume[v].size \in Sizes
  BY <1>1 DEF VolumeRows
<1>5. demand[c].volume \in VolumeIds \cup {0} /\ demand[c].seen \in Statuses
  BY <1>1 DEF Demands
<1>6. CASE VolumeCreate(c)
  <2> PICK size \in Sizes :
        volume' = [v \in DOMAIN volume \cup {c} |->
                     IF v = c THEN [status |-> "available", size |-> size] ELSE volume[v]]
    BY <1>6 DEF VolumeCreate
  <2>1. [status |-> "available", size |-> size] \in VolumeRows
    BY <1>3 DEF VolumeRows
  <2>2. volume' \in [DOMAIN volume' -> VolumeRows] /\ DOMAIN volume' \subseteq VolumeIds
    BY <1>1, <1>3, <2>1
  <2>3. demand[c].at = "idle" /\ Moves(c, "done") /\ UNCHANGED <<attachment, hosting, stores>>
    BY <1>6 DEF VolumeCreate, Fresh
  <2>4. \A v \in DOMAIN volume' : \/ v \in DOMAIN volume /\ volume'[v].size = volume[v].size
                                  \/ v = c /\ demand[c].at = "idle"
    BY <2>3
  <2> QED
    BY <1>2, <2>2, <2>3, <2>4, MovesQuietly DEF PlacesOn
<1>7. CASE VolumeDelete(c)
  <2> PICK u \in DOMAIN volume : volume' = [w \in DOMAIN volume \ {u} |-> volume[w]]
    BY <1>7 DEF VolumeDelete
  <2>1. demand[c].at = "idle" /\ Moves(c, "done") /\ UNCHANGED <<attachment, hosting, stores>>
    BY <1>7 DEF VolumeDelete, Fresh
  <2>2. volume' \in [DOMAIN volume' -> VolumeRows] /\ DOMAIN volume' \subseteq VolumeIds
    BY <1>1
  <2>3. \A v \in DOMAIN volume' : \/ v \in DOMAIN volume /\ volume'[v].size = volume[v].size
                                  \/ v = c /\ demand[c].at = "idle"
    OBVIOUS
  <2> QED
    BY <1>2, <2>1, <2>2, <2>3, MovesQuietly DEF PlacesOn
<1>8. CASE ServerDelete(c)
  <2>1. /\ demand[c].at = "idle" /\ Moves(c, "done") /\ UNCHANGED <<volume, attachment, stores>>
        /\ hosting' \subseteq hosting
    BY <1>8 DEF ServerDelete, Fresh
  <2> QED
    BY <1>1, <1>2, <2>1, MovesQuietly DEF PlacesOn
<1>9. CASE AskForAction(c)
  <2> PICK v \in DOMAIN volume : \E status \in Statuses \cup {volume[v].status} :
        demand[c].at = "idle" /\ Asks(c, "act", "action", v, 0, status, 0)
    BY <1>9 DEF AskForAction, Fresh
  <2> PICK status \in Statuses \cup {volume[v].status} :
        demand[c].at = "idle" /\ Asks(c, "act", "action", v, 0, status, 0)
    OBVIOUS
  <2> QED
    BY <1>1, <1>4, AsksQuietly DEF DemandPlaces, DemandPurposes
<1>10. CASE AskToAttach(c)
  <2> PICK v \in VolumeIds :
        demand[c].at = "idle" /\ Asks(c, "attach", "attach", v, 0, "available", 0)
    BY <1>1, <1>10 DEF AskToAttach, Fresh
  <2> QED
    BY <1>3, AsksQuietly DEF DemandPlaces, DemandPurposes
<1>11. CASE FindVolume(c)
  <2> DEFINE v == demand[c].volume
  <2>1. demand[c].at = "attach"
    BY <1>11 DEF FindVolume
  <2>2. CASE v \in DOMAIN volume
    <3>1. Asks(c, "insert", "attach", v, c, volume[v].status, 0)
      BY <1>11, <2>2 DEF FindVolume
    <3> QED
      BY <1>1, <1>3, <1>4, <2>1, <2>2, <3>1, AsksQuietly DEF DemandPlaces, DemandPurposes
  <2>3. CASE v \notin DOMAIN volume
    <3>1. Moves(c, "failed") /\ UNCHANGED <<volume, attachment, hosting, stores>>
      BY <1>11, <2>3 DEF FindVolume
    <3> QED
      BY <1>1, <2>1, <3>1, MovesQuietly DEF PlacesOn
  <2> QED
    BY <2>2, <2>3
<1>12. CASE InsertAttachment(c)
  <2>1. /\ demand[c].at = "insert" /\ Stores(c, "mark") /\ UNCHANGED <<volume, hosting>>
        /\ attachment' = [a \in DOMAIN attachment \cup {c} |->
                            IF a = c THEN demand[c].volume ELSE attachment[a]]
    BY <1>12 DEF InsertAttachment
  <2>2. demand[c].volume \in VolumeIds
    BY <2>1 DEF VolumesInductive, Begun
  <2>3. attachment' \in [DOMAIN attachment' -> VolumeIds] /\ DOMAIN attachment' \subseteq AttachmentIds
    BY <1>1, <1>3, <2>1, <2>2
  <2> QED
    BY <1>1, <1>2, <2>1, <2>3, StoresQuietly DEF PlacesOn, Stores
<1>13. CASE RemoveAttachment(c)
  <2>1. /\ demand[c].at = "remove" /\ Stores(c, "free") /\ UNCHANGED <<volume, hosting>>
        /\ attachment' = [a \in DOMAIN attachment \ {demand[c].attachment} |-> attachment[a]]
    BY <1>13 DEF RemoveAttachment
  <2>2. attachment' \in [DOMAIN attachment' -> VolumeIds] /\ DOMAIN attachment' \subseteq AttachmentIds
    BY <1>1, <2>1
  <2> QED
    BY <1>1, <1>2, <2>1, <2>2, StoresQuietly DEF PlacesOn, Stores
<1>14. CASE Act(c) \/ MarkInUse(c) \/ FreeVolume(c)
  <2>1. /\ demand[c].at \in {"act", "mark", "free"} /\ Stores(c, "done")
        /\ UNCHANGED <<attachment, hosting>>
    BY <1>14 DEF Act, MarkInUse, FreeVolume
  <2>2. \E status \in Statuses : Marked(demand[c].volume, status)
    BY <1>3, <1>5, <1>14 DEF Act, MarkInUse, FreeVolume
  <2>3. /\ DOMAIN volume' = DOMAIN volume /\ volume' \in [DOMAIN volume' -> VolumeRows]
        /\ \A w \in DOMAIN volume : volume'[w].size = volume[w].size
    BY <1>1, <2>2, MarkedVolume
  <2> QED
    BY <1>1, <1>2, <2>1, <2>3, StoresQuietly DEF PlacesOn, Stores
<1>15. CASE FindAttachment(c)
  <2> PICK a \in DOMAIN attachment :
        demand[c].at = "idle" /\ Asks(c, "remove", "detach", attachment[a], a, "in-use", 0)
    BY <1>15 DEF FindAttachment, Fresh
  <2>1. attachment[a] \in VolumeIds /\ a \in AttachmentIds
    BY <1>1
  <2> QED
    BY <1>3, <2>1, AsksQuietly DEF DemandPlaces, DemandPurposes
<1>16. CASE VolumeCallLost(c)
  <2>1. PICK at \in {"half done", "failed"} :
          /\ Moves(c, at) /\ UNCHANGED <<volume, attachment, hosting, stores>>
          /\ demand[c].at \notin {"idle", "done"}
          /\ at = "half done" => demand[c].at \in {"mark", "free"}
    BY <1>16 DEF VolumeCallLost
  <2>2. at = "failed" \/ demand[c].op # "extend"
    BY <1>2, <2>1
  <2> QED
    BY <1>1, <2>1, <2>2, MovesQuietly DEF PlacesOn
<1>17. CASE AskToRewrite(c)
  <2> PICK v \in BodyVolumes(c) :
        \/ \E a \in DOMAIN attachment :
             demand[c].at = "idle" /\ Asks(c, "rewrite", "rewrite", v, a, "in-use", 0)
        \/ \E a \in Uuids(c) :
             demand[c].at = "idle" /\ Asks(c, "upsert", "rewrite", v, a, "in-use", 0)
    BY <1>17 DEF AskToRewrite, Fresh
  <2>1. v \in VolumeIds /\ Uuids(c) \subseteq AttachmentIds
    BY DEF BodyVolumes, Uuids, VolumeIds, AttachmentIds
  <2>2. PICK at \in {"rewrite", "upsert"}, a \in AttachmentIds :
          demand[c].at = "idle" /\ Asks(c, at, "rewrite", v, a, "in-use", 0)
    BY <1>1, <2>1
  <2> QED
    BY <1>3, <2>1, <2>2, AsksQuietly DEF DemandPlaces, DemandPurposes
<1>18. CASE RewriteAttachment(c) \/ UpsertAttachment(c)
  <2> DEFINE a == demand[c].attachment
  <2>1. demand[c].at \in {"rewrite", "upsert"} /\ UNCHANGED <<volume, hosting>>
    BY <1>18 DEF RewriteAttachment, UpsertAttachment
  <2>2. demand[c].volume \in VolumeIds /\ (demand[c].at = "upsert" => a \in AttachmentIds)
    BY <2>1 DEF VolumesInductive, Begun
  <2>3. Displaced(a) \in VolumeIds \cup {0}
    BY <1>1 DEF Displaced
  <2>4. CASE RewriteAttachment(c) /\ a \notin DOMAIN attachment
    <3>1. Moves(c, "failed") /\ UNCHANGED <<attachment, stores>>
      BY <2>4 DEF RewriteAttachment
    <3> QED
      BY <1>1, <2>1, <3>1, MovesQuietly DEF PlacesOn
  <2>5. CASE UpsertAttachment(c) \/ a \in DOMAIN attachment
    <3>1. /\ StoresOver(c, "done", Displaced(a))
          /\ attachment' \in [DOMAIN attachment' -> VolumeIds] /\ DOMAIN attachment' \subseteq AttachmentIds
      BY <1>1, <1>18, <2>1, <2>2, <2>5 DEF RewriteAttachment, UpsertAttachment
    <3> HIDE DEF a
    <3> QED
      BY <1>1, <1>2, <2>1, <2>3, <3>1, StoresQuietly DEF PlacesOn
  <2> QED
    BY <1>18, <2>4, <2>5
<1> QED
  BY <1>6, <1>7, <1>8, <1>9, <1>10, <1>11, <1>12, <1>13, <1>14, <1>15, <1>16, <1>17, <1>18
     DEF QuietActions

(* The SELECT of an extension.                                             *)
LEMMA AskToExtendStep ==
  ASSUME VolumesInductive, NEW c \in VolumeCalls, AskToExtend(c)
  PROVE  VolumesInductive'
<1>1. /\ VolumesTypeOK
      /\ DOMAIN volume \subseteq VolumeIds /\ volume \in [DOMAIN volume -> VolumeRows]
      /\ demand \in [VolumeCalls -> Demands] /\ stores \in Nat
  BY VolumesTypeParts DEF VolumesInductive
<1> PICK v \in DOMAIN volume, size \in Sizes :
      size > volume[v].size /\ Asks(c, "extend", "extend", v, 0, volume[v].status, size)
  BY DEF AskToExtend
<1>2. v \in VolumeIds /\ volume[v].status \in Statuses /\ volume[v].size \in Sizes
  BY <1>1 DEF VolumeRows
<1>3. /\ demand' \in [VolumeCalls -> Demands]
      /\ demand'[c].at = "extend" /\ demand'[c].op = "extend" /\ demand'[c].volume = v
      /\ demand'[c].size = size /\ demand'[c].readAt = stores /\ demand'[c].storedAt = 0
      /\ \A d \in VolumeCalls : d # c => demand'[d] = demand[d]
      /\ UNCHANGED <<volume, attachment, hosting, stores>>
  <2> DEFINE new == [at |-> "extend", op |-> "extend", volume |-> v, attachment |-> 0,
                     seen |-> volume[v].status, size |-> size, readAt |-> stores,
                     storedAt |-> 0, left |-> 0]
  <2>1. new \in Demands
    BY <1>1, <1>2 DEF Demands, DemandPlaces, DemandPurposes
  <2>2. demand' = [demand EXCEPT ![c] = new] /\ UNCHANGED <<volume, attachment, hosting, stores>>
    BY DEF Asks
  <2> QED
    BY <1>1, <2>1, <2>2
<1>4. VolumesTypeOK'
  BY <1>1, <1>3, VolumesTypeParts, VolumesTypePartsNext
<1>5. demand[c].at = "idle"
  BY DEF AskToExtend, Fresh
<1>6. \A x \in VolumeCalls : Answered(x, "extend")' => Answered(x, "extend") /\ x # c
                                                       /\ demand'[x] = demand[x]
  BY <1>3 DEF Answered
<1>7. \A x \in VolumeCalls : Answered(x, "extend") /\ Undercut(x) => Undercut(x)'
  BY <1>3, <1>5, AnsweredStays
<1>8. Clocks'
  BY <1>1, <1>3 DEF VolumesInductive, Clocks
<1>9. Begun'
  <2>1. \A x \in VolumeCalls : demand'[x].at = "idle" => demand[x].at = "idle" /\ x # c
    BY <1>3
  <2>2. \A b \in VolumeCalls : v = b => demand[b].at # "idle"
    BY DEF VolumesInductive, Begun
  <2>3. \A x \in VolumeCalls : demand'[x].op = "extend" =>
          \A b \in VolumeCalls : demand'[x].volume = b => demand'[b].at # "idle"
    BY <1>3, <2>1, <2>2 DEF VolumesInductive, Begun
  <2> QED
    BY <1>3, <2>1, <2>3 DEF VolumesInductive, Begun
<1>10. ReadersGrow'
  <2> SUFFICES ASSUME NEW x \in VolumeCalls, NEW d \in VolumeCalls,
                      Answered(x, "extend")', demand'[d].at = "extend",
                      demand'[d].volume = demand'[x].volume,
                      demand'[x].storedAt <= demand'[d].readAt
               PROVE  demand'[d].size >= demand'[x].size \/ Undercut(x)'
    BY DEF ReadersGrow
  <2>1. CASE d # c
    BY <1>3, <1>6, <1>7, <2>1 DEF VolumesInductive, ReadersGrow
  <2>2. CASE d = c
    <3>1. Answered(x, "extend") /\ demand'[x] = demand[x] /\ demand[x].volume = v
      BY <1>3, <1>6, <2>2
    <3>2. volume[v].size >= demand[x].size \/ Undercut(x)
      BY <3>1 DEF VolumesInductive, ExtensionKept, Undercut
    <3>3. demand[x].size \in Nat /\ volume[v].size \in Nat /\ size \in Nat
      BY <1>1, <1>2, LeastType DEF Demands
    <3> QED
      BY <1>3, <1>7, <2>2, <3>1, <3>2, <3>3
  <2> QED
    BY <2>1, <2>2
<1>11. ExtensionKept'
  <2> SUFFICES ASSUME NEW x \in VolumeCalls, Answered(x, "extend")',
                      demand'[x].volume \in DOMAIN volume'
               PROVE  volume'[demand'[x].volume].size >= demand'[x].size \/ Undercut(x)'
    BY DEF ExtensionKept, Undercut
  <2>1. Answered(x, "extend") /\ demand'[x] = demand[x] /\ volume' = volume
    BY <1>3, <1>6
  <2>2. volume[demand[x].volume].size >= demand[x].size \/ Undercut(x)
    BY <2>1 DEF VolumesInductive, ExtensionKept, Undercut
  <2> QED
    BY <1>7, <2>1, <2>2
<1> QED
  BY <1>4, <1>8, <1>9, <1>10, <1>11 DEF VolumesInductive

(* Its UPDATE: every extension confirmed before had either been read, or   *)
(* is excused by this one.                                                 *)
LEMMA ExtendStep ==
  ASSUME VolumesInductive, NEW c \in VolumeCalls, Extend(c)
  PROVE  VolumesInductive'
<1> DEFINE v == demand[c].volume
<1>1. /\ VolumesTypeOK
      /\ DOMAIN volume \subseteq VolumeIds /\ volume \in [DOMAIN volume -> VolumeRows]
      /\ demand \in [VolumeCalls -> Demands] /\ stores \in Nat
  BY VolumesTypeParts DEF VolumesInductive
<1>2. /\ demand[c].at = "extend" /\ demand[c].op = "extend"
      /\ Stores(c, "done") /\ UNCHANGED <<attachment, hosting>>
  BY DEF Extend, VolumesInductive, Begun
<1>3. /\ demand' \in [VolumeCalls -> Demands]
      /\ demand'[c].at = "done" /\ demand'[c].storedAt = stores + 1 /\ stores' = stores + 1
      /\ demand'[c].op = "extend" /\ demand'[c].volume = v
      /\ demand'[c].size = demand[c].size /\ demand'[c].readAt = demand[c].readAt
      /\ \A d \in VolumeCalls : d # c => demand'[d] = demand[d]
  BY <1>1, <1>2, StoresCall DEF DemandPlaces, Stores
<1>4. /\ DOMAIN volume' = DOMAIN volume /\ volume' \in [DOMAIN volume' -> VolumeRows]
      /\ \A w \in DOMAIN volume : volume'[w].size = IF w = v THEN demand[c].size ELSE volume[w].size
  <2>1. CASE v \notin DOMAIN volume
    BY <1>1, <2>1 DEF Extend
  <2>2. CASE v \in DOMAIN volume
    <3> DEFINE row == [status |-> volume[v].status, size |-> demand[c].size]
    <3>1. Sets(v, row)
      BY <2>2 DEF Extend
    <3>2. row \in VolumeRows /\ row.size = demand[c].size
      <4>1. demand[c].size \in Sizes
        BY <1>2 DEF VolumesInductive, Begun
      <4> QED
        BY <1>1, <2>2, <4>1 DEF VolumeRows
    <3> HIDE DEF row
    <3> QED
      BY <1>1, <3>1, <3>2, SetsRow
  <2> QED
    BY <2>1, <2>2
<1>5. VolumesTypeOK'
  BY <1>1, <1>2, <1>3, <1>4, VolumesTypeParts, VolumesTypePartsNext
<1>6. \A x \in VolumeCalls : /\ demand[x].readAt \in Nat /\ demand[x].storedAt \in Nat
                             /\ demand[x].readAt <= stores /\ demand[x].storedAt <= stores
                             /\ demand[x].size \in Nat
  BY <1>1, LeastType DEF VolumesInductive, Clocks, Demands
<1>7. Clocks'
  BY <1>1, <1>3, <1>6 DEF Clocks
<1>8. Begun'
  <2>1. \A x \in VolumeCalls : /\ demand'[x].at = "idle" => demand[x].at = "idle"
                               /\ demand'[x].op = demand[x].op
                               /\ demand'[x].volume = demand[x].volume
    BY <1>2, <1>3
  <2>2. \A x \in VolumeCalls : demand'[x].op = "extend" =>
          \A b \in VolumeCalls : demand'[x].volume = b => demand'[b].at # "idle"
    BY <2>1 DEF VolumesInductive, Begun
  <2> QED
    BY <1>3, <1>4, <2>1, <2>2 DEF VolumesInductive, Begun
<1>9. \A x \in VolumeCalls : Answered(x, "extend")' =>
        x = c \/ (x # c /\ Answered(x, "extend") /\ demand'[x] = demand[x])
  BY <1>3 DEF Answered
<1>10. \A x \in VolumeCalls : Answered(x, "extend") /\ Undercut(x) => Undercut(x)'
  BY <1>2, <1>3, AnsweredStays
<1>11. ReadersGrow'
  <2> SUFFICES ASSUME NEW x \in VolumeCalls, NEW d \in VolumeCalls,
                      Answered(x, "extend")', demand'[d].at = "extend",
                      demand'[d].volume = demand'[x].volume,
                      demand'[x].storedAt <= demand'[d].readAt
               PROVE  demand'[d].size >= demand'[x].size \/ Undercut(x)'
    BY DEF ReadersGrow
  <2>1. d # c /\ demand'[d] = demand[d]
    BY <1>3
  <2>2. x # c
    BY <1>1, <1>3, <1>6, <2>1
  <2> QED
    BY <1>9, <1>10, <2>1, <2>2 DEF VolumesInductive, ReadersGrow
<1>12. ExtensionKept'
  <2> SUFFICES ASSUME NEW x \in VolumeCalls, Answered(x, "extend")',
                      demand'[x].volume \in DOMAIN volume'
               PROVE  volume'[demand'[x].volume].size >= demand'[x].size \/ Undercut(x)'
    BY DEF ExtensionKept, Undercut
  <2>1. CASE x = c
    BY <1>3, <1>4, <1>6, <2>1
  <2>2. CASE x # c
    <3>1. Answered(x, "extend") /\ demand'[x] = demand[x]
      BY <1>9, <2>2
    <3>2. CASE demand[x].volume # v
      BY <1>4, <1>10, <3>1, <3>2 DEF VolumesInductive, ExtensionKept, Undercut
    <3>3. CASE demand[x].volume = v /\ demand[c].readAt < demand[x].storedAt
      <4>1. Answered(c, "extend")' /\ WrittenOver(c, x)'
        BY <1>1, <1>3, <1>6, <3>1, <3>3 DEF Answered, WrittenOver
      <4> QED
        BY <1>3, <3>1, <3>3, <4>1 DEF Undercut
    <3>4. CASE demand[x].volume = v /\ demand[x].storedAt <= demand[c].readAt
      <4>1. demand[c].size >= demand[x].size \/ Undercut(x)
        BY <1>2, <3>1, <3>4 DEF VolumesInductive, ReadersGrow
      <4> QED
        BY <1>4, <1>10, <3>1, <3>4, <4>1
    <3> QED
      BY <1>6, <3>2, <3>3, <3>4
  <2> QED
    BY <2>1, <2>2
<1> QED
  BY <1>5, <1>7, <1>8, <1>11, <1>12 DEF VolumesInductive

LEMMA VolumesStepInductive == VolumesInductive /\ [VolumesNext]_volumeVars => VolumesInductive'
<1> SUFFICES ASSUME VolumesInductive, [VolumesNext]_volumeVars PROVE VolumesInductive'
  OBVIOUS
<1>1. CASE UNCHANGED volumeVars
  <2> USE <1>1 DEF volumeVars
  <2>1. VolumesTypeOK'
    BY VolumesTypeParts, VolumesTypePartsNext DEF VolumesInductive
  <2>2. Clocks' /\ Begun'
    BY DEF VolumesInductive, Clocks, Begun
  <2>3. \A c \in VolumeCalls : Undercut(c)' = Undercut(c)
    BY DEF Undercut, Answered, WrittenOver
  <2>4. ReadersGrow'
    BY <2>3 DEF VolumesInductive, ReadersGrow, Answered
  <2>5. ExtensionKept'
    BY DEF VolumesInductive, ExtensionKept, Answered, WrittenOver
  <2> QED
    BY <2>1, <2>2, <2>4, <2>5 DEF VolumesInductive
<1>2. ASSUME NEW c \in VolumeCalls, VolumeCall(c) PROVE VolumesInductive'
  <2>1. CASE QuietActions(c)
    BY <2>1, ActionsQuiet, QuietStep
  <2>2. CASE AskToExtend(c)
    BY <2>2, AskToExtendStep
  <2>3. CASE Extend(c)
    BY <2>3, ExtendStep
  <2> QED
    BY <1>2, <2>1, <2>2, <2>3 DEF VolumeCall, QuietActions
<1> QED
  BY <1>1, <1>2 DEF VolumesNext

LEMMA VolumesInductiveCorrect == VolumesSpec => []VolumesInductive
  BY VolumesInitInductive, VolumesStepInductive, PTL DEF VolumesSpec

(* Volumes, attachments and calls keep their types (cinder.py, nova.py).   *)
THEOREM VolumeTypes == VolumesSpec => []VolumesTypeOK
  BY VolumesInductiveCorrect, PTL DEF VolumesInductive

(* A confirmed extension is taken back only by the deletion of the volume  *)
(* or by another extension that had read the size from before it           *)
(* (cinder.py:307-321).                                                    *)
THEOREM ExtensionsKept == VolumesSpec => []ExtensionKept
  BY VolumesInductiveCorrect, PTL DEF VolumesInductive

-----------------------------------------------------------------------------
(***************************************************************************)
(* Status and attachments of a volume.  Spoiled: what SetsApart and the    *)
(* seeds say for good.  Midway: a call between its two statements.         *)
(***************************************************************************)
Midway(c) == demand[c].at \in {"mark", "free"}

Overlap(c, d) ==
  /\ demand[c].storedAt > 0
  /\ demand[d].readAt < demand[c].storedAt
  /\ demand[c].readAt < demand[d].storedAt

Spoils(c, v) ==
  \/ SharesVolume(c, v) /\ demand[c].at = "half done"
  \/ SharesVolume(c, v) /\ Answered(c, "attach") /\ demand[c].seen # "available"
  \/ Answered(c, "action") /\ demand[c].volume = v
  \/ /\ Answered(c, "rewrite") /\ demand[c].volume # demand[c].left
     /\ v \in {demand[c].volume, demand[c].left}
  \/ SharesVolume(c, v) /\ \E d \in VolumeCalls \ {c} : SharesVolume(d, v) /\ Overlap(c, d)

Spoiled(v) == SeededApart(v) \/ \E c \in VolumeCalls : Spoils(c, v)

(* Another call has written the volume since c read it, or is about to.    *)
Doomed(c, v) ==
  \E d \in VolumeCalls \ {c} :
    SharesVolume(d, v) /\ (Midway(d) \/ demand[d].storedAt > demand[c].readAt)

Holders(v) == {a \in DOMAIN attachment : attachment[a] = v}

Agrees(v) ==
  /\ (volume[v].status = "in-use") <=> (Holders(v) # {})
  /\ \A a, b \in Holders(v) : a = b

(* What a call that nobody disturbs still knows of the volume.             *)
Knows(c, v) ==
  /\ demand[c].at = "insert" => volume[v].status = demand[c].seen
  /\ demand[c].at = "mark" /\ demand[c].seen = "available" => Holders(v) = {c}
  /\ demand[c].at = "remove" => demand[c].attachment \in Holders(v)
  /\ demand[c].at = "free" => Holders(v) = {}

Told(v) ==
  \/ Spoiled(v)
  \/ /\ (\A c \in VolumeCalls : SharesVolume(c, v) => ~Midway(c)) => Agrees(v)
     /\ \A c \in VolumeCalls : SharesVolume(c, v) /\ ~Doomed(c, v) => Knows(c, v)

(* Where a call stands tells its kind, and that it has not written yet.    *)
Kinds ==
  \A c \in VolumeCalls :
    /\ demand[c].at = "idle" => demand[c].op = "none"
    /\ demand[c].at = "act" => demand[c].op = "action"
    /\ demand[c].at \in {"attach", "insert", "mark"} => demand[c].op = "attach"
    /\ demand[c].at \in {"remove", "free"} => demand[c].op = "detach"
    /\ demand[c].at \in {"rewrite", "upsert"} => demand[c].op = "rewrite"
    /\ demand[c].at \in {"idle", "attach", "insert"} => demand[c].storedAt = 0

(* Nothing refers to a volume before it exists but who asks for it in vain.*)
Unborn ==
  \A b \in VolumeCalls : demand[b].at = "idle" =>
    /\ Holders(b) = {}
    /\ \A c \in VolumeCalls : demand[c].volume = b => demand[c].at \in {"attach", "failed"}

(* An attachment's id is its call's, and taken by no other before it; it   *)
(* stays with its volume, or has come to one that its rewriting spoils.    *)
Early(b) == demand[b].at \in {"idle", "attach", "insert"}

Named ==
  /\ \A b \in VolumeCalls : Early(b) => b \notin DOMAIN attachment
  /\ \A c \in VolumeCalls : demand[c].at \in {"remove", "upsert"} =>
       \A a \in VolumeCalls : demand[c].attachment = a => ~Early(a)
  /\ \A c \in VolumeCalls, v \in VolumeIds :
       /\ demand[c].at = "remove"
       /\ demand[c].attachment \in Holders(v)
       => demand[c].volume = v \/ Spoiled(v)

AttachmentsTold == Kinds /\ Unborn /\ Named /\ \A v \in DOMAIN volume : Told(v)

LEMMA DemandParts ==
  ASSUME VolumesTypeOK, NEW c \in VolumeCalls
  PROVE  /\ demand[c].at \in DemandPlaces /\ demand[c].op \in DemandPurposes
         /\ demand[c].volume \in VolumeIds \cup {0} /\ demand[c].seen \in Statuses
         /\ demand[c].readAt \in Nat /\ demand[c].storedAt \in Nat /\ stores \in Nat
BY VolumesTypeParts DEF Demands

(* What a step does to its own call, if it reads: the call learns how the  *)
(* volume or the attachment is ...                                         *)
Finds(c) ==
  /\ \A d \in VolumeCalls : d # c => demand'[d] = demand[d]
  /\ UNCHANGED <<volume, attachment, stores>>
  /\ demand[c].at \in {"idle", "attach"} /\ demand'[c].storedAt = 0
  /\ \/ demand'[c].at \in {"extend", "act"} /\ demand'[c].volume \in DOMAIN volume
     \/ demand'[c].at = "attach"
     \/ /\ demand'[c].at = "insert" /\ demand'[c].volume \in DOMAIN volume
        /\ volume[demand'[c].volume].status = demand'[c].seen
     \/ demand'[c].at = "remove" /\ demand'[c].attachment \in Holders(demand'[c].volume)
     \/ /\ demand'[c].at \in {"rewrite", "upsert"}
        /\ \A b \in VolumeCalls : demand'[c].volume = b => demand'[b].at # "idle"
        /\ demand'[c].at = "upsert" =>
             \A a \in VolumeCalls : demand'[c].attachment = a => ~Early(a)'
  /\ demand'[c].at = "act" => demand'[c].op = "action"
  /\ demand'[c].at \in {"attach", "insert"} => demand'[c].op = "attach"
  /\ demand'[c].at = "remove" => demand'[c].op = "detach"
  /\ demand'[c].at \in {"rewrite", "upsert"} => demand'[c].op = "rewrite"

(* ... and if it does not: the call goes on with what it knows.            *)
GoesOn(c) ==
  /\ \A d \in VolumeCalls : d # c => demand'[d] = demand[d]
  /\ demand'[c].op = demand[c].op /\ demand'[c].volume = demand[c].volume
  /\ demand'[c].attachment = demand[c].attachment /\ demand'[c].seen = demand[c].seen
  /\ demand'[c].readAt = demand[c].readAt
  /\ demand'[c].storedAt \in {demand[c].storedAt, stores + 1}
  /\ demand[c].at \notin {"done", "half done", "failed"}
  /\ demand'[c].at \in {"done", "half done", "failed", "mark", "free"}
  /\ demand[c].at = "attach" => demand'[c].at = "failed"
  /\ demand'[c].at = "mark" => demand[c].at = "insert"
  /\ demand'[c].at = "free" => demand[c].at = "remove"
  /\ Midway(c) => \/ demand'[c].at = "half done"
                  \/ demand'[c].at = "done" /\ demand'[c].storedAt = stores + 1

LEMMA SpoiledStays ==
  ASSUME VolumesTypeOK, Clocks, Kinds, NEW c \in VolumeCalls, Finds(c) \/ GoesOn(c),
         NEW v, Spoiled(v)
  PROVE  Spoiled(v)'
<1>1. CASE SeededApart(v)
  BY <1>1 DEF Spoiled, SeededApart
<1>2. ASSUME NEW x \in VolumeCalls, Spoils(x, v) PROVE Spoils(x, v)'
  <2>1. CASE demand[x].at \in {"done", "half done"} /\ ~\E d \in VolumeCalls \ {x} :
                SharesVolume(x, v) /\ SharesVolume(d, v) /\ Overlap(x, d)
    <3>1. x # c
      BY <2>1 DEF Finds, GoesOn
    <3>2. demand'[x] = demand[x]
      BY <3>1 DEF Finds, GoesOn
    <3> QED
      BY <1>2, <2>1, <3>2 DEF Spoils, SharesVolume, Answered
  <2>2. ASSUME NEW d \in VolumeCalls \ {x}, SharesVolume(x, v), SharesVolume(d, v), Overlap(x, d)
        PROVE  Spoils(x, v)'
    <3>1. /\ demand[x].storedAt > 0 /\ demand[d].storedAt > 0
          /\ demand[x].readAt \in Nat /\ demand[d].readAt \in Nat
          /\ demand[x].storedAt \in Nat /\ demand[d].storedAt \in Nat /\ stores \in Nat
          /\ demand[x].storedAt <= stores /\ demand[d].storedAt <= stores
      BY <2>2, DemandParts DEF Overlap, Clocks
    <3>2. ~(x = c /\ Finds(c)) /\ ~(d = c /\ Finds(c))
      BY <3>1 DEF Finds, Kinds
    <3>3. \A y \in {x, d} : /\ demand'[y].op = demand[y].op /\ demand'[y].volume = demand[y].volume
                            /\ demand'[y].readAt = demand[y].readAt
                            /\ demand'[y].storedAt \in {demand[y].storedAt, stores + 1}
      BY <3>2 DEF Finds, GoesOn
    <3>4. SharesVolume(x, v)' /\ SharesVolume(d, v)'
      BY <2>2, <3>3 DEF SharesVolume
    <3>5. Overlap(x, d)'
      BY <2>2, <3>1, <3>3 DEF Overlap
    <3> QED
      BY <3>4, <3>5 DEF Spoils
  <2> QED
    BY <1>2, <2>1, <2>2 DEF Spoils, Answered
<1> QED
  BY <1>1, <1>2 DEF Spoiled

LEMMA DoomedStays ==
  ASSUME VolumesTypeOK, Clocks, NEW c \in VolumeCalls, GoesOn(c),
         NEW v, NEW x \in VolumeCalls, Doomed(x, v)
  PROVE  Doomed(x, v)' \/ Spoiled(v)'
<1> PICK d \in VolumeCalls \ {x} :
      SharesVolume(d, v) /\ (Midway(d) \/ demand[d].storedAt > demand[x].readAt)
  BY DEF Doomed
<1>1. /\ demand'[x].readAt = demand[x].readAt /\ demand[x].readAt \in Nat
      /\ demand[d].storedAt \in Nat /\ stores \in Nat
      /\ demand[x].readAt <= stores /\ demand[d].storedAt <= stores
  BY DemandParts DEF GoesOn, Clocks
<1>2. CASE d # c
  <2>1. demand'[d] = demand[d]
    BY <1>2 DEF GoesOn
  <2> QED
    BY <1>1, <2>1 DEF Doomed, SharesVolume, Midway
<1>3. CASE d = c
  <2>1. SharesVolume(d, v)'
    BY <1>3 DEF SharesVolume, GoesOn
  <2>2. CASE demand'[c].at = "half done"
    BY <1>3, <2>1, <2>2 DEF Spoiled, Spoils
  <2>3. CASE demand'[c].at # "half done"
    <3>1. \/ demand'[d].storedAt = stores + 1
          \/ demand'[d].storedAt = demand[d].storedAt /\ ~Midway(d)
      BY <1>3, <2>3 DEF GoesOn
    <3>2. demand'[d].storedAt > demand'[x].readAt
      BY <1>1, <3>1
    <3> QED
      BY <2>1, <3>2 DEF Doomed
  <2> QED
    BY <2>2, <2>3
<1> QED
  BY <1>2, <1>3

LEMMA ReadTold ==
  ASSUME VolumesTypeOK, Clocks, Kinds, NEW c \in VolumeCalls, Finds(c),
         NEW v \in DOMAIN volume, Told(v)
  PROVE  Told(v)'
<1> SUFFICES ASSUME ~Spoiled(v) PROVE Told(v)'
  BY SpoiledStays DEF Told
<1>1. Holders(v)' = Holders(v) /\ volume'[v] = volume[v] /\ (Agrees(v)' <=> Agrees(v))
  BY DEF Finds, Holders, Agrees
<1>2. ~Midway(c) /\ ~Midway(c)'
  BY DEF Finds, Midway
<1>3. ASSUME \A x \in VolumeCalls : SharesVolume(x, v)' => ~Midway(x)' PROVE Agrees(v)'
  <2>1. \A x \in VolumeCalls : SharesVolume(x, v) => ~Midway(x)
    BY <1>2, <1>3 DEF Finds, SharesVolume, Midway
  <2> QED
    BY <1>1, <2>1 DEF Told
<1>4. ASSUME NEW x \in VolumeCalls, SharesVolume(x, v)', ~Doomed(x, v)' PROVE Knows(x, v)'
  <2>1. CASE x = c
    BY <1>1, <1>4, <2>1 DEF Knows, Finds, SharesVolume
  <2>2. CASE x # c
    <3>1. demand'[x] = demand[x]
      BY <2>2 DEF Finds
    <3>2. SharesVolume(x, v) /\ demand[x].readAt \in Nat
      BY <1>4, <3>1, DemandParts DEF SharesVolume
    <3>3. ~Doomed(x, v)
      <4> SUFFICES ASSUME NEW d \in VolumeCalls \ {x}, SharesVolume(d, v),
                          Midway(d) \/ demand[d].storedAt > demand[x].readAt
                   PROVE  FALSE
        BY DEF Doomed
      <4>1. d # c
        BY <1>2, <3>2 DEF Finds, Kinds
      <4>2. demand'[d] = demand[d]
        BY <4>1 DEF Finds
      <4> QED
        BY <1>4, <3>1, <4>2 DEF Doomed, SharesVolume, Midway
    <3>4. Knows(x, v)
      BY <3>2, <3>3 DEF Told
    <3> QED
      BY <1>1, <3>1, <3>4 DEF Knows
  <2> QED
    BY <2>1, <2>2
<1> QED
  BY <1>3, <1>4 DEF Told

LEMMA AsideTold ==
  ASSUME VolumesTypeOK, Clocks, Kinds, NEW c \in VolumeCalls, GoesOn(c),
         NEW v \in DOMAIN volume, Told(v),
         volume'[v].status = volume[v].status, Holders(v)' = Holders(v),
         SharesVolume(c, v) => demand'[c].at \in {"failed", "half done"}
  PROVE  Told(v)'
<1> SUFFICES ASSUME ~Spoiled(v), ~Spoiled(v)' PROVE Told(v)'
  BY SpoiledStays DEF Told
<1>1. Agrees(v)' <=> Agrees(v)
  BY DEF Agrees
<1>2. \A x \in VolumeCalls : SharesVolume(x, v)' <=> SharesVolume(x, v)
  BY DEF GoesOn, SharesVolume
<1>3. SharesVolume(c, v) => ~Midway(c) /\ ~Midway(c)' /\ demand'[c].at = "failed"
  <2>1. SharesVolume(c, v) => demand'[c].at # "half done"
    BY <1>2 DEF Spoiled, Spoils
  <2> QED
    BY <2>1 DEF GoesOn, Midway
<1>4. ASSUME \A x \in VolumeCalls : SharesVolume(x, v)' => ~Midway(x)' PROVE Agrees(v)'
  <2>1. \A x \in VolumeCalls : SharesVolume(x, v) => ~Midway(x)
    BY <1>2, <1>3, <1>4 DEF GoesOn, Midway
  <2> QED
    BY <1>1, <2>1 DEF Told
<1>5. ASSUME NEW x \in VolumeCalls, SharesVolume(x, v)', ~Doomed(x, v)' PROVE Knows(x, v)'
  <2>1. CASE x = c
    BY <1>2, <1>3, <1>5, <2>1 DEF Knows
  <2>2. CASE x # c
    <3>1. demand'[x] = demand[x]
      BY <2>2 DEF GoesOn
    <3>2. ~Doomed(x, v)
      BY <1>5, DoomedStays
    <3>3. Knows(x, v)
      BY <1>2, <1>5, <3>2 DEF Told
    <3> QED
      BY <3>1, <3>3 DEF Knows
  <2> QED
    BY <2>1, <2>2
<1> QED
  BY <1>4, <1>5 DEF Told

(* A statement that writes the volume dooms every other call.              *)
LEMMA StoreTold ==
  ASSUME VolumesTypeOK, Clocks, Kinds, NEW c \in VolumeCalls, GoesOn(c),
         NEW v \in DOMAIN volume, Told(v), SharesVolume(c, v),
         demand'[c].storedAt = stores + 1,
         Knows(c, v) /\ ~Spoiled(v) /\ (~Midway(c) => Agrees(v))
            => \/ Midway(c)' /\ Knows(c, v)'
               \/ demand'[c].at = "done" /\ (Agrees(v)' \/ Spoiled(v)'),
         Midway(c)' \/ demand'[c].at = "done"
  PROVE  Told(v)'
<1> SUFFICES ASSUME ~Spoiled(v), ~Spoiled(v)' PROVE Told(v)'
  BY SpoiledStays DEF Told
<1>1. \A x \in VolumeCalls : SharesVolume(x, v)' <=> SharesVolume(x, v)
  BY DEF GoesOn, SharesVolume
<1>2. ASSUME ~Doomed(c, v) PROVE Knows(c, v) /\ (~Midway(c) => Agrees(v))
  <2>1. \A x \in VolumeCalls \ {c} : SharesVolume(x, v) => ~Midway(x)
    BY <1>2 DEF Doomed
  <2> QED
    BY <1>2, <2>1 DEF Told
<1>3. ASSUME \A x \in VolumeCalls : SharesVolume(x, v)' => ~Midway(x)' PROVE Agrees(v)'
  <2>1. demand'[c].at = "done" /\ ~Midway(c)'
    BY <1>1, <1>3
  <2>2. ~Doomed(c, v)
    <3> SUFFICES ASSUME NEW d \in VolumeCalls \ {c}, SharesVolume(d, v),
                        Midway(d) \/ demand[d].storedAt > demand[c].readAt
                 PROVE  FALSE
      BY DEF Doomed
    <3>1. demand'[d] = demand[d]
      BY DEF GoesOn
    <3>2. demand[d].storedAt > demand[c].readAt
      BY <1>1, <1>3, <3>1 DEF Midway
    <3>3. /\ demand[d].readAt \in Nat /\ demand[d].readAt <= stores /\ stores \in Nat
          /\ demand[c].readAt \in Nat /\ demand[d].storedAt \in Nat
      BY DemandParts DEF Clocks
    <3>4. Overlap(c, d)'
      <4>1. demand'[c].readAt = demand[c].readAt
        BY DEF GoesOn
      <4>2. stores + 1 > 0 /\ demand[d].readAt < stores + 1 /\ demand[c].readAt < demand[d].storedAt
        BY <3>2, <3>3
      <4> QED
        BY <3>1, <4>1, <4>2 DEF Overlap
    <3> QED
      BY <1>1, <3>4 DEF Spoiled, Spoils
  <2> QED
    BY <1>2, <2>1, <2>2
<1>4. ASSUME NEW x \in VolumeCalls, SharesVolume(x, v)', ~Doomed(x, v)' PROVE Knows(x, v)'
  <2>1. CASE x # c
    <3>1. demand'[x] = demand[x] /\ demand[x].readAt <= stores /\ demand[x].readAt \in Nat
          /\ stores \in Nat
      BY <2>1, DemandParts DEF GoesOn, Clocks
    <3>2. demand'[c].storedAt > demand'[x].readAt
      BY <3>1
    <3> QED
      BY <1>1, <1>4, <2>1, <3>2 DEF Doomed
  <2>2. CASE x = c
    <3>1. ~Doomed(c, v)
      BY <1>4, <2>2, DoomedStays
    <3>2. \/ Midway(c)' /\ Knows(c, v)'
          \/ demand'[c].at = "done"
      BY <1>2, <3>1
    <3> QED
      BY <2>2, <3>2 DEF Knows
  <2> QED
    BY <2>1, <2>2
<1> QED
  BY <1>3, <1>4 DEF Told

LEMMA KindsStay ==
  ASSUME Kinds, NEW c \in VolumeCalls, Finds(c) \/ GoesOn(c)
  PROVE  Kinds'
<1>1. CASE Finds(c)
  BY <1>1 DEF Kinds, Finds
<1>2. CASE GoesOn(c)
  BY <1>2 DEF Kinds, GoesOn
<1> QED
  BY <1>1, <1>2

LEMMA UnbornStay ==
  ASSUME Begun, Unborn, NEW c \in VolumeCalls, Finds(c) \/ GoesOn(c),
         \A b \in VolumeCalls : \/ Holders(b)' \subseteq Holders(b)
                                \/ /\ demand[c].volume = b
                                   /\ demand[c].at \in {"insert", "rewrite", "upsert"}
  PROVE  Unborn'
<1> SUFFICES ASSUME NEW b \in VolumeCalls, demand'[b].at = "idle"
             PROVE  /\ Holders(b)' = {}
                    /\ \A x \in VolumeCalls : demand'[x].volume = b => demand'[x].at \in {"attach", "failed"}
  BY DEF Unborn
<1>1. b # c /\ demand[b].at = "idle" /\ b \notin DOMAIN volume
  BY DEF Finds, GoesOn, Begun
<1>2. /\ Holders(b) = {}
      /\ ~(demand[c].volume = b /\ demand[c].at \in {"insert", "rewrite", "upsert"})
  BY <1>1 DEF Unborn
<1>3. Holders(b)' = {}
  BY <1>2
<1>4. ASSUME NEW x \in VolumeCalls, demand'[x].volume = b
      PROVE  demand'[x].at \in {"attach", "failed"}
  <2>1. CASE x # c
    BY <1>1, <1>4, <2>1 DEF Finds, GoesOn, Unborn
  <2>2. CASE x = c /\ Finds(c)
    BY <1>1, <1>2, <1>4, <2>2 DEF Finds
  <2>3. CASE x = c /\ GoesOn(c)
    BY <1>1, <1>4, <2>3 DEF GoesOn, Unborn
  <2> QED
    BY <2>1, <2>2, <2>3
<1> QED
  BY <1>3, <1>4

LEMMA AttachmentsInit == VolumesInit => AttachmentsTold
<1> SUFFICES ASSUME VolumesInit PROVE AttachmentsTold
  OBVIOUS
<1>1. \A c \in VolumeCalls : demand[c] = Unused
  BY DEF VolumesInit
<1>2. Kinds
  <2>1. Unused.at = "idle" /\ Unused.op = "none" /\ Unused.storedAt = 0
    BY DEF Unused
  <2> QED
    BY <1>1, <2>1 DEF Kinds
<1>3. DOMAIN volume = SeedVolumes /\ attachment = SeedTarget /\ DOMAIN attachment = SeedAttachments
  BY VolumesAssumption DEF VolumesInit
<1>4. Unborn
  BY <1>1, <1>3, VolumesAssumption DEF Unborn, Unused, Holders
<1>5. ASSUME NEW v \in DOMAIN volume, ~SeededApart(v) PROVE Told(v)
  <2>1. volume[v].status = SeedStatus[v]
    BY <1>3 DEF VolumesInit
  <2>2. Agrees(v)
    BY <1>3, <1>5, <2>1 DEF Agrees, Holders, SeededApart
  <2> QED
    BY <1>1, <2>2 DEF Told, SharesVolume, Unused
<1>6. Named
  BY <1>1, <1>3, VolumesAssumption DEF Named, Unused
<1> QED
  BY <1>2, <1>4, <1>5, <1>6 DEF AttachmentsTold, Told, Spoiled

LEMMA NamedStay ==
  ASSUME VolumesTypeOK, Clocks, Kinds, Named, NEW c \in VolumeCalls, Finds(c) \/ GoesOn(c),
         \A v \in VolumeIds : \A a \in Holders(v)' :
           \/ a \in Holders(v)
           \/ a = c /\ demand[c].at = "insert"
           \/ (a \in VolumeCalls => ~Early(a)) /\ Spoiled(v)',
         \A a \in DOMAIN attachment' : \E v \in VolumeIds : a \in Holders(v)'
  PROVE  Named'
<1>1. ASSUME NEW b \in VolumeCalls, Early(b)' PROVE Early(b) /\ b \notin DOMAIN attachment'
  <2>1. Early(b) /\ ~(b = c /\ GoesOn(c))
    BY <1>1 DEF Finds, GoesOn, Early
  <2>2. \A v \in VolumeIds : b \notin Holders(v)
    BY <2>1 DEF Named, Holders
  <2>3. CASE Finds(c)
    BY <2>1, <2>3 DEF Named, Finds
  <2>4. CASE GoesOn(c)
    BY <2>1, <2>2, <2>4
  <2> QED
    BY <2>1, <2>3, <2>4
<1>2. ASSUME NEW x \in VolumeCalls, demand'[x].at \in {"remove", "upsert"},
             NEW a \in VolumeCalls, demand'[x].attachment = a
      PROVE  ~Early(a)'
  <2>1. CASE x = c
    <3>1. Finds(c)
      BY <1>2, <2>1 DEF GoesOn
    <3>2. CASE demand'[c].at = "upsert"
      BY <1>2, <2>1, <3>1, <3>2 DEF Finds
    <3>3. CASE demand'[c].at = "remove"
      <4>1. a \in DOMAIN attachment /\ attachment' = attachment
        BY <1>2, <2>1, <3>1, <3>3 DEF Finds, Holders
      <4> QED
        BY <1>1, <4>1
    <3> QED
      BY <1>2, <2>1, <3>2, <3>3
  <2>2. CASE x # c
    <3>1. demand'[x] = demand[x]
      BY <2>2 DEF Finds, GoesOn
    <3>2. ~Early(a)
      BY <1>2, <3>1 DEF Named
    <3> QED
      BY <1>1, <3>2
  <2> QED
    BY <2>1, <2>2
<1>3. ASSUME NEW x \in VolumeCalls, NEW v \in VolumeIds, demand'[x].at = "remove",
             NEW a, demand'[x].attachment = a, a \in Holders(v)'
      PROVE  demand'[x].volume = v \/ Spoiled(v)'
  <2>1. CASE x = c
    <3>1. Finds(c)
      BY <1>3, <2>1 DEF GoesOn
    <3>2. a \in Holders(demand'[c].volume) /\ attachment' = attachment
      BY <1>3, <2>1, <3>1 DEF Finds
    <3> QED
      BY <1>3, <2>1, <3>2 DEF Holders
  <2>2. CASE x # c
    <3>1. demand'[x] = demand[x]
      BY <2>2 DEF Finds, GoesOn
    <3>2. a \in Holders(v) => demand[x].volume = v \/ Spoiled(v)
      BY <1>3, <3>1 DEF Named
    <3>3. ~(a = c /\ demand[c].at = "insert")
      BY <1>3, <3>1 DEF Named, Early
    <3> QED
      BY <1>3, <3>1, <3>2, <3>3, SpoiledStays
  <2> QED
    BY <2>1, <2>2
<1>4. \A b \in VolumeCalls : Early(b)' => b \notin DOMAIN attachment'
  BY <1>1
<1>5. \A x \in VolumeCalls : demand'[x].at \in {"remove", "upsert"} =>
        \A a \in VolumeCalls : demand'[x].attachment = a => ~Early(a)'
  BY <1>2
<1>6. \A x \in VolumeCalls, v \in VolumeIds :
        demand'[x].at = "remove" /\ demand'[x].attachment \in Holders(v)'
        => demand'[x].volume = v \/ Spoiled(v)'
  BY <1>3
<1> QED
  BY <1>4, <1>5, <1>6 DEF Named

(* Every attachment that stays as it is.                                   *)
LEMMA NamedPlainly ==
  ASSUME VolumesTypeOK, Clocks, Kinds, Named, NEW c \in VolumeCalls, Finds(c) \/ GoesOn(c),
         UNCHANGED attachment
  PROVE  Named'
<1>1. \A v \in VolumeIds : Holders(v)' = Holders(v)
  BY DEF Holders
<1>2. \A a \in DOMAIN attachment' : \E v \in VolumeIds : a \in Holders(v)'
  BY VolumesTypeParts DEF Holders
<1> QED
  BY <1>1, <1>2, NamedStay

(* What the two ways of taking a step come to.                             *)
LEMMA AsksFinds ==
  ASSUME VolumesTypeOK, NEW c \in VolumeCalls, NEW at \in DemandPlaces, NEW op, NEW v,
         NEW a, NEW seen, NEW size, Asks(c, at, op, v, a, seen, size),
         demand[c].at \in {"idle", "attach"},
         \/ at \in {"extend", "act"} /\ v \in DOMAIN volume
         \/ at = "attach"
         \/ at = "insert" /\ v \in DOMAIN volume /\ volume[v].status = seen
         \/ at = "remove" /\ a \in Holders(v)
         \/ /\ at \in {"rewrite", "upsert"}
            /\ \A b \in VolumeCalls : v = b => b = c \/ demand[b].at # "idle"
            /\ at = "upsert" => \A b \in VolumeCalls : a = b => b = c \/ ~Early(b),
         at = "act" => op = "action",
         at \in {"attach", "insert"} => op = "attach",
         at = "remove" => op = "detach",
         at \in {"rewrite", "upsert"} => op = "rewrite"
  PROVE  Finds(c) /\ Holders(v)' = Holders(v)
<1> DEFINE new == [at |-> at, op |-> op, volume |-> v, attachment |-> a, seen |-> seen,
                   size |-> size, readAt |-> stores, storedAt |-> 0, left |-> 0]
<1>1. demand \in [VolumeCalls -> Demands]
  BY VolumesTypeParts
<1>2. demand' = [demand EXCEPT ![c] = new] /\ UNCHANGED <<volume, attachment, hosting, stores>>
  BY DEF Asks
<1>3. demand'[c] = new /\ \A d \in VolumeCalls : d # c => demand'[d] = demand[d]
  BY <1>1, <1>2
<1>4. /\ demand'[c].at = at /\ demand'[c].op = op /\ demand'[c].volume = v
      /\ demand'[c].attachment = a /\ demand'[c].seen = seen /\ demand'[c].storedAt = 0
  BY <1>3
<1>5. at \in {"rewrite", "upsert"} =>
        /\ \A b \in VolumeCalls : demand'[c].volume = b => demand'[b].at # "idle"
        /\ at = "upsert" => \A b \in VolumeCalls : demand'[c].attachment = b => ~Early(b)'
  <2> SUFFICES ASSUME at \in {"rewrite", "upsert"}, NEW b \in VolumeCalls
               PROVE  /\ v = b => demand'[b].at # "idle"
                      /\ at = "upsert" /\ a = b => ~Early(b)'
    BY <1>4
  <2>1. CASE b = c
    BY <1>4, <2>1 DEF Early
  <2>2. CASE b # c
    BY <1>3, <2>2 DEF Early
  <2> QED
    BY <2>1, <2>2
<1> QED
  BY <1>2, <1>3, <1>4, <1>5 DEF Finds, Holders

LEMMA MovesOn ==
  ASSUME VolumesTypeOK, NEW c \in VolumeCalls, NEW at \in {"done", "half done", "failed"},
         Moves(c, at), demand[c].at \notin {"done", "half done", "failed"},
         demand[c].at = "attach" => at = "failed",
         Midway(c) => at = "half done"
  PROVE  GoesOn(c) /\ demand'[c].at = at
BY MovesCall DEF GoesOn, DemandPlaces

LEMMA StoresOn ==
  ASSUME VolumesTypeOK, NEW c \in VolumeCalls, NEW at \in {"done", "mark", "free"},
         NEW left \in VolumeIds \cup {0}, StoresOver(c, at, left), demand[c].at \notin {"done", "half done", "failed", "attach"},
         at = "mark" => demand[c].at = "insert",
         at = "free" => demand[c].at = "remove",
         Midway(c) => at = "done"
  PROVE  /\ GoesOn(c) /\ demand'[c].at = at /\ demand'[c].storedAt = stores + 1
         /\ demand'[c].left = left
<1>1. at \in DemandPlaces
  BY DEF DemandPlaces
<1>2. /\ demand'[c].at = at /\ demand'[c].storedAt = stores + 1 /\ demand'[c].left = left
      /\ \A d \in VolumeCalls : d # c => demand'[d] = demand[d]
      /\ demand'[c].op = demand[c].op /\ demand'[c].volume = demand[c].volume
      /\ demand'[c].attachment = demand[c].attachment /\ demand'[c].seen = demand[c].seen
      /\ demand'[c].readAt = demand[c].readAt
  BY <1>1, StoresCall
<1> QED
  BY <1>2 DEF GoesOn

LEMMA MarkedStatus ==
  ASSUME VolumesTypeOK, NEW v, NEW status \in Statuses, Marked(v, status)
  PROVE  /\ DOMAIN volume' = DOMAIN volume
         /\ \A w \in DOMAIN volume :
              volume'[w].status = IF w = v THEN status ELSE volume[w].status
<1>1. volume \in [DOMAIN volume -> VolumeRows]
  BY VolumesTypeParts
<1>2. CASE v \in DOMAIN volume
  <2> DEFINE row == [status |-> status, size |-> volume[v].size]
  <2>1. row \in VolumeRows /\ Sets(v, row) /\ row.status = status
    BY <1>1, <1>2 DEF Marked, VolumeRows
  <2> HIDE DEF row
  <2> QED
    BY <2>1, SetsRow
<1>3. CASE v \notin DOMAIN volume
  BY <1>1, <1>3 DEF Marked
<1> QED
  BY <1>2, <1>3

(* A step that writes neither statuses nor attachments.                    *)
LEMMA PlainStep ==
  ASSUME VolumesInductive, AttachmentsTold, NEW c \in VolumeCalls,
         \/ Finds(c)
         \/ /\ GoesOn(c) /\ UNCHANGED attachment
            /\ \A v \in DOMAIN volume' : \/ v \in DOMAIN volume /\ volume'[v].status = volume[v].status
                                         \/ v = c /\ demand[c].at = "idle"
                                                  /\ volume'[v].status = "available"
            /\ \A v \in DOMAIN volume : SharesVolume(c, v) => demand'[c].at \in {"failed", "half done"}
  PROVE  AttachmentsTold'
<1>1. VolumesTypeOK /\ Clocks /\ Begun /\ Kinds /\ Unborn /\ Named
  BY DEF VolumesInductive, AttachmentsTold
<1>2. Kinds'
  BY <1>1, KindsStay
<1>3. \A b : Holders(b)' = Holders(b)
  BY DEF Holders, Finds
<1>4. Unborn'
  BY <1>1, <1>3, UnbornStay
<1>8. Named'
  <2>1. attachment' = attachment
    BY DEF Finds
  <2> QED
    BY <1>1, <2>1, NamedPlainly
<1>5. CASE Finds(c)
  <2>1. \A v \in DOMAIN volume' : v \in DOMAIN volume /\ Told(v)
    BY <1>5 DEF Finds, AttachmentsTold
  <2> QED
    BY <1>1, <1>2, <1>4, <1>5, <1>8, <2>1, ReadTold DEF AttachmentsTold
<1>6. ASSUME GoesOn(c), NEW v \in DOMAIN volume', v \in DOMAIN volume,
             volume'[v].status = volume[v].status,
             SharesVolume(c, v) => demand'[c].at \in {"failed", "half done"}
      PROVE  Told(v)'
  <2>1. Told(v)
    BY <1>6 DEF AttachmentsTold
  <2> QED
    BY <1>1, <1>3, <1>6, <2>1, AsideTold
<1>7. ASSUME GoesOn(c), demand[c].at = "idle", c \in DOMAIN volume',
             volume'[c].status = "available"
      PROVE  Told(c)'
  <2>1. Holders(c)' = {}
    BY <1>1, <1>3, <1>7 DEF Unborn
  <2>2. Agrees(c)'
    BY <1>7, <2>1 DEF Agrees
  <2>3. \A x \in VolumeCalls \ {c} : demand'[x] = demand[x]
    BY <1>7 DEF GoesOn
  <2>4. \A x \in VolumeCalls \ {c} : demand[x].volume = c => demand[x].at \in {"attach", "failed"}
    BY <1>1, <1>7 DEF Unborn
  <2>5. ~SharesVolume(c, c)'
    BY <1>1, <1>7 DEF SharesVolume, GoesOn, Kinds
  <2>6. \A x \in VolumeCalls : SharesVolume(x, c)' => demand'[x].at \in {"attach", "failed"}
    BY <2>3, <2>4, <2>5 DEF SharesVolume
  <2> QED
    BY <2>2, <2>6 DEF Told, Knows, Midway
<1> QED
  BY <1>2, <1>4, <1>5, <1>6, <1>7, <1>8 DEF AttachmentsTold

(* A step that writes the status or the attachments of some volumes: each  *)
(* keeps its own, or is what it has to be.                                 *)
LEMMA WriteVolume ==
  ASSUME VolumesInductive, AttachmentsTold, NEW c \in VolumeCalls, GoesOn(c),
         DOMAIN volume' = DOMAIN volume,
         \A v \in DOMAIN volume :
           \/ Told(v)'
           \/ /\ volume'[v].status = volume[v].status /\ Holders(v)' = Holders(v)
              /\ ~SharesVolume(c, v),
         \A v \in VolumeIds :
           \/ Holders(v)' \subseteq Holders(v)
           \/ v = demand[c].volume /\ demand[c].at \in {"insert", "rewrite", "upsert"},
         Named'
  PROVE  AttachmentsTold'
<1>1. VolumesTypeOK /\ Clocks /\ Begun /\ Kinds /\ Unborn /\ Named
  BY DEF VolumesInductive, AttachmentsTold
<1>2. DOMAIN volume \subseteq VolumeIds /\ VolumeCalls \subseteq VolumeIds
  BY <1>1, VolumesTypeParts DEF VolumeIds
<1>3. Kinds'
  BY <1>1, KindsStay
<1>4. Unborn'
  BY <1>1, <1>2, UnbornStay
<1>5. ASSUME NEW v \in DOMAIN volume PROVE Told(v)'
  <2>1. Told(v)
    BY <1>5 DEF AttachmentsTold
  <2> QED
    BY <1>1, <1>5, <2>1, AsideTold
<1> QED
  BY <1>3, <1>4, <1>5 DEF AttachmentsTold

(* A step that writes the status or the attachments of its own volume.     *)
LEMMA WriteOwn ==
  ASSUME VolumesInductive, AttachmentsTold, NEW c \in VolumeCalls, NEW u, u = demand[c].volume,
         GoesOn(c), DOMAIN volume' = DOMAIN volume,
         \A v \in DOMAIN volume \ {u} : volume'[v].status = volume[v].status,
         \A v \in VolumeIds \ {u} : Holders(v)' = Holders(v),
         Holders(u)' \subseteq Holders(u) \/ demand[c].at = "insert", Named',
         u \in DOMAIN volume => Told(u)'
  PROVE  AttachmentsTold'
<1>1. DOMAIN volume \subseteq VolumeIds
  BY VolumesTypeParts DEF VolumesInductive
<1>2. \A v \in DOMAIN volume :
        \/ Told(v)'
        \/ /\ volume'[v].status = volume[v].status /\ Holders(v)' = Holders(v)
           /\ ~SharesVolume(c, v)
  BY <1>1 DEF SharesVolume
<1> QED
  BY <1>2, WriteVolume

LEMMA AttachmentsStep ==
  ASSUME VolumesInductive, AttachmentsTold, [VolumesNext]_volumeVars
  PROVE  AttachmentsTold'
<1>0. /\ VolumesTypeOK /\ Clocks /\ Begun /\ Kinds /\ Unborn /\ Named
      /\ volume \in [DOMAIN volume -> VolumeRows] /\ DOMAIN volume \subseteq VolumeIds
      /\ attachment \in [DOMAIN attachment -> VolumeIds]
  BY VolumesTypeParts DEF VolumesInductive, AttachmentsTold
<1>1. CASE UNCHANGED volumeVars
  <2>1. \A b : Holders(b)' = Holders(b) /\ (SeededApart(b)' <=> SeededApart(b))
    BY <1>1 DEF volumeVars, Holders, SeededApart
  <2>4. \A v : Spoiled(v)' <=> Spoiled(v)
    BY <1>1, <2>1 DEF volumeVars, Spoiled, Spoils, SharesVolume, Answered, Overlap
  <2>2. Kinds' /\ Unborn' /\ Named'
    BY <1>0, <1>1, <2>1, <2>4 DEF volumeVars, Kinds, Unborn, Named, Early
  <2>3. ASSUME NEW v \in DOMAIN volume PROVE Told(v)'
    <3>1. Spoiled(v)' <=> Spoiled(v)
      BY <2>4
    <3>2. /\ Agrees(v)' <=> Agrees(v)
          /\ \A c \in VolumeCalls : /\ Knows(c, v)' <=> Knows(c, v)
                                    /\ Doomed(c, v)' <=> Doomed(c, v)
                                    /\ SharesVolume(c, v)' <=> SharesVolume(c, v)
                                    /\ Midway(c)' <=> Midway(c)
      BY <1>1, <2>1 DEF volumeVars, Agrees, Knows, Doomed, SharesVolume, Midway
    <3> QED
      BY <2>3, <3>1, <3>2 DEF AttachmentsTold, Told
  <2> QED
    BY <1>1, <2>2, <2>3 DEF volumeVars, AttachmentsTold
<1>2. ASSUME NEW c \in VolumeCalls, VolumeCall(c) PROVE AttachmentsTold'
  <2> PICK u : u = demand[c].volume
    OBVIOUS
  <2>0. c \in VolumeIds /\ {"available", "in-use"} \subseteq Statuses /\ demand[c].seen \in Statuses
    BY <1>0, VolumesAssumption, DemandParts DEF VolumeIds
  <2>1. CASE VolumeCreate(c)
    <3>1. PICK size \in Sizes :
            volume' = [v \in DOMAIN volume \cup {c} |->
                         IF v = c THEN [status |-> "available", size |-> size] ELSE volume[v]]
      BY <2>1 DEF VolumeCreate
    <3>2. demand[c].at = "idle" /\ Moves(c, "done") /\ UNCHANGED attachment
      BY <2>1 DEF VolumeCreate, Fresh
    <3>3. GoesOn(c) /\ ~SharesVolume(c, u)
      BY <1>0, <3>2, MovesOn DEF Midway, SharesVolume, Kinds
    <3>4. \A v \in DOMAIN volume' : \/ v \in DOMAIN volume /\ volume'[v].status = volume[v].status
                                    \/ v = c /\ volume'[v].status = "available"
      BY <3>1
    <3> QED
      BY <3>2, <3>3, <3>4, PlainStep DEF SharesVolume
  <2>2. CASE VolumeDelete(c) \/ ServerDelete(c)
    <3>1. demand[c].at = "idle" /\ Moves(c, "done") /\ UNCHANGED attachment
      BY <2>2 DEF VolumeDelete, ServerDelete, Fresh
    <3>2. \A v \in DOMAIN volume' : v \in DOMAIN volume /\ volume'[v] = volume[v]
      BY <2>2 DEF VolumeDelete, ServerDelete
    <3>3. GoesOn(c) /\ ~SharesVolume(c, u)
      BY <1>0, <3>1, MovesOn DEF Midway, SharesVolume, Kinds
    <3> QED
      BY <3>1, <3>2, <3>3, PlainStep DEF SharesVolume
  <2>3. CASE AskToExtend(c) \/ AskForAction(c) \/ AskToAttach(c)
    <3>1. CASE AskToExtend(c)
      <4> PICK v \in DOMAIN volume, size \in Sizes :
            demand[c].at = "idle" /\ Asks(c, "extend", "extend", v, 0, volume[v].status, size)
        BY <3>1 DEF AskToExtend, Fresh
      <4>1. Finds(c)
        BY <1>0, AsksFinds DEF DemandPlaces
      <4> QED
        BY <4>1, PlainStep
    <3>2. CASE AskForAction(c)
      <4> PICK v \in DOMAIN volume : \E status \in Statuses \cup {volume[v].status} :
            demand[c].at = "idle" /\ Asks(c, "act", "action", v, 0, status, 0)
        BY <3>2 DEF AskForAction, Fresh
      <4> PICK status \in Statuses \cup {volume[v].status} :
            demand[c].at = "idle" /\ Asks(c, "act", "action", v, 0, status, 0)
        OBVIOUS
      <4>1. Finds(c)
        BY <1>0, AsksFinds DEF DemandPlaces
      <4> QED
        BY <4>1, PlainStep
    <3>3. CASE AskToAttach(c)
      <4> PICK v \in VolumeIds :
            demand[c].at = "idle" /\ Asks(c, "attach", "attach", v, 0, "available", 0)
        BY <1>0, <3>3 DEF AskToAttach, Fresh
      <4>1. Finds(c)
        BY <1>0, AsksFinds DEF DemandPlaces
      <4> QED
        BY <4>1, PlainStep
    <3> QED
      BY <2>3, <3>1, <3>2, <3>3
  <2>4. CASE FindAttachment(c)
    <3> PICK a \in DOMAIN attachment :
          demand[c].at = "idle" /\ Asks(c, "remove", "detach", attachment[a], a, "in-use", 0)
      BY <2>4 DEF FindAttachment, Fresh
    <3>1. a \in Holders(attachment[a])
      BY DEF Holders
    <3>2. Finds(c)
      BY <1>0, <3>1, AsksFinds DEF DemandPlaces
    <3> QED
      BY <3>2, PlainStep
  <2>5. CASE FindVolume(c)
    <3>1. demand[c].at = "attach"
      BY <2>5 DEF FindVolume
    <3>2. CASE u \in DOMAIN volume
      <4>1. Asks(c, "insert", "attach", u, c, volume[u].status, 0)
        BY <2>5, <3>2 DEF FindVolume
      <4>2. Finds(c)
        BY <1>0, <3>1, <3>2, <4>1, AsksFinds DEF DemandPlaces
      <4> QED
        BY <4>2, PlainStep
    <3>3. CASE u \notin DOMAIN volume
      <4>1. Moves(c, "failed") /\ UNCHANGED <<volume, attachment, hosting, stores>>
        BY <2>5, <3>3 DEF FindVolume
      <4>2. GoesOn(c) /\ demand'[c].at = "failed"
        BY <1>0, <3>1, <4>1, MovesOn DEF Midway
      <4> QED
        BY <4>1, <4>2, PlainStep
    <3> QED
      BY <3>2, <3>3
  <2>6. CASE VolumeCallLost(c)
    <3>1. PICK at \in {"half done", "failed"} :
            /\ Moves(c, at) /\ UNCHANGED <<volume, attachment, hosting, stores>>
            /\ demand[c].at \notin {"idle", "done", "half done", "failed"}
            /\ (at = "half done") <=> Midway(c)
      BY <2>6 DEF VolumeCallLost, Midway
    <3>2. GoesOn(c) /\ demand'[c].at = at
      BY <1>0, <3>1, MovesOn DEF Midway
    <3> QED
      BY <3>1, <3>2, PlainStep
  <2>7. CASE Extend(c)
    <3>1. demand[c].at = "extend" /\ Stores(c, "done") /\ UNCHANGED attachment
      BY <2>7 DEF Extend
    <3>2. \A v \in DOMAIN volume' : v \in DOMAIN volume /\ volume'[v].status = volume[v].status
      <4>1. CASE u \in DOMAIN volume
        <5>1. Sets(u, [status |-> volume[u].status, size |-> demand[c].size])
          BY <2>7, <4>1 DEF Extend
        <5> QED
          BY <5>1 DEF Sets
      <4>2. CASE u \notin DOMAIN volume
        BY <2>7, <4>2 DEF Extend
      <4> QED
        BY <4>1, <4>2
    <3>3. GoesOn(c) /\ ~SharesVolume(c, u)
      BY <1>0, <3>1, StoresOn DEF Midway, Stores, SharesVolume, Begun
    <3> QED
      BY <3>1, <3>2, <3>3, PlainStep DEF SharesVolume
  <2>8. CASE Act(c)
    <3>1. demand[c].at = "act" /\ Stores(c, "done") /\ UNCHANGED attachment
          /\ Marked(u, demand[c].seen)
      BY <2>8 DEF Act
    <3>2. GoesOn(c) /\ demand'[c].at = "done" /\ demand'[c].storedAt = stores + 1
      BY <1>0, <3>1, StoresOn DEF Midway, Stores
    <3>3. Answered(c, "action")' /\ demand'[c].volume = u
      BY <1>0, <3>1, <3>2 DEF Answered, GoesOn, Kinds
    <3>4. Told(u)'
      BY <3>3 DEF Told, Spoiled, Spoils
    <3>5. \A v : Holders(v)' = Holders(v)
      BY <3>1 DEF Holders
    <3>6. DOMAIN volume' = DOMAIN volume
          /\ \A v \in DOMAIN volume \ {u} : volume'[v].status = volume[v].status
      BY <1>0, <2>0, <3>1, MarkedStatus
    <3>7. Named'
      BY <1>0, <3>1, <3>2, NamedPlainly
    <3> QED
      BY <3>7, <3>2, <3>4, <3>5, <3>6, WriteOwn
  <2>9. CASE InsertAttachment(c)
    <3>1. demand[c].at = "insert" /\ Stores(c, "mark") /\ UNCHANGED <<volume, hosting>>
          /\ attachment' = [a \in DOMAIN attachment \cup {c} |->
                              IF a = c THEN u ELSE attachment[a]]
      BY <2>9 DEF InsertAttachment
    <3>2. GoesOn(c) /\ demand'[c].at = "mark" /\ demand'[c].storedAt = stores + 1
      BY <1>0, <3>1, StoresOn DEF Midway, Stores
    <3>3. c \notin DOMAIN attachment
      BY <1>0, <3>1 DEF Named, Early
    <3>4. Holders(u)' = Holders(u) \cup {c} /\ \A v \in VolumeIds \ {u} : Holders(v)' = Holders(v)
      BY <3>1, <3>3 DEF Holders
    <3>5. ASSUME u \in DOMAIN volume PROVE Told(u)'
      <4>1. Told(u) /\ SharesVolume(c, u) /\ Midway(c)' /\ ~Midway(c)
        BY <1>0, <3>1, <3>2, <3>5 DEF AttachmentsTold, SharesVolume, Kinds, Midway
      <4>2. ASSUME Knows(c, u), Agrees(u) PROVE Knows(c, u)'
        <5>1. demand[c].seen = "available" => Holders(u) = {}
          BY <3>1, <4>2 DEF Knows, Agrees
        <5> QED
          BY <3>2, <3>4, <5>1 DEF Knows, GoesOn
      <4> QED
        BY <1>0, <3>2, <3>5, <4>1, <4>2, StoreTold
    <3>7. Named'
      <4>1. \A v \in VolumeIds : \A a \in Holders(v)' : a \in Holders(v) \/ a = c
        BY <3>1 DEF Holders
      <4>2. u \in VolumeIds
        BY <3>1, <1>0 DEF Begun
      <4>3. \A a \in DOMAIN attachment' : \E v \in VolumeIds : a \in Holders(v)'
        BY <1>0, <3>1, <4>2 DEF Holders
      <4> QED
        BY <1>0, <3>1, <3>2, <4>1, <4>3, NamedStay
    <3> QED
      BY <3>7, <3>1, <3>2, <3>4, <3>5, WriteOwn
  <2>10. CASE MarkInUse(c)
    <3>1. demand[c].at = "mark" /\ Stores(c, "done") /\ UNCHANGED attachment /\ Marked(u, "in-use")
      BY <2>10 DEF MarkInUse
    <3>2. GoesOn(c) /\ demand'[c].at = "done" /\ demand'[c].storedAt = stores + 1
      BY <1>0, <3>1, StoresOn DEF Midway, Stores
    <3>3. \A v : Holders(v)' = Holders(v)
      BY <3>1 DEF Holders
    <3>4. DOMAIN volume' = DOMAIN volume
          /\ \A v \in DOMAIN volume : volume'[v].status = IF v = u THEN "in-use" ELSE volume[v].status
      BY <1>0, <2>0, <3>1, MarkedStatus
    <3>5. ASSUME u \in DOMAIN volume PROVE Told(u)'
      <4>1. Told(u) /\ SharesVolume(c, u) /\ demand[c].op = "attach"
        BY <1>0, <3>1, <3>5 DEF AttachmentsTold, SharesVolume, Kinds
      <4>2. ASSUME Knows(c, u) PROVE Agrees(u)' \/ Spoiled(u)'
        <5>1. CASE demand[c].seen = "available"
          <6>1. Holders(u)' = {c} /\ volume'[u].status = "in-use"
            BY <3>1, <3>3, <3>4, <3>5, <4>2, <5>1 DEF Knows
          <6> QED
            BY <6>1 DEF Agrees
        <5>2. CASE demand[c].seen # "available"
          BY <3>2, <4>1, <5>2 DEF Spoiled, Spoils, SharesVolume, Answered, GoesOn
        <5> QED
          BY <5>1, <5>2
      <4> QED
        BY <1>0, <3>2, <3>5, <4>1, <4>2, StoreTold
    <3>7. Named'
      BY <1>0, <3>1, <3>2, NamedPlainly
    <3> QED
      BY <3>7, <3>2, <3>3, <3>4, <3>5, WriteOwn
  <2>11. CASE RemoveAttachment(c)
    <3>1. demand[c].at = "remove" /\ Stores(c, "free") /\ UNCHANGED <<volume, hosting>>
          /\ attachment' = [a \in DOMAIN attachment \ {demand[c].attachment} |-> attachment[a]]
      BY <2>11 DEF RemoveAttachment
    <3>2. GoesOn(c) /\ demand'[c].at = "free" /\ demand'[c].storedAt = stores + 1
      BY <1>0, <3>1, StoresOn DEF Midway, Stores
    <3>3. \A v : Holders(v)' = Holders(v) \ {demand[c].attachment}
      BY <3>1 DEF Holders
    <3>4. ASSUME NEW v \in DOMAIN volume, v # u
          PROVE  Told(v)' \/ Holders(v)' = Holders(v)
      <4>1. CASE demand[c].attachment \notin Holders(v)
        BY <3>3, <4>1
      <4>2. CASE demand[c].attachment \in Holders(v)
        <5>1. Spoiled(v)
          BY <1>0, <3>1, <3>4, <4>2 DEF Named
        <5>2. Spoiled(v)'
          BY <1>0, <3>2, <5>1, SpoiledStays
        <5> QED
          BY <5>2 DEF Told
      <4> QED
        BY <4>1, <4>2
    <3>5. ASSUME u \in DOMAIN volume PROVE Told(u)'
      <4>1. Told(u) /\ SharesVolume(c, u) /\ Midway(c)' /\ ~Midway(c)
        BY <1>0, <3>1, <3>2, <3>5 DEF AttachmentsTold, SharesVolume, Kinds, Midway
      <4>2. ASSUME Knows(c, u), Agrees(u) PROVE Knows(c, u)'
        <5>1. Holders(u)' = {}
          BY <3>1, <3>3, <4>2 DEF Knows, Agrees
        <5> QED
          BY <3>2, <5>1 DEF Knows
      <4> QED
        BY <1>0, <3>2, <3>5, <4>1, <4>2, StoreTold
    <3>7. Named'
      <4>1. \A a \in DOMAIN attachment' : \E v \in VolumeIds : a \in Holders(v)'
        BY <1>0, <3>1 DEF Holders
      <4>2. \A v \in VolumeIds : \A a \in Holders(v)' : a \in Holders(v)
        BY <3>3
      <4> QED
        BY <1>0, <3>2, <4>1, <4>2, NamedStay
    <3>8. \A v \in DOMAIN volume :
            \/ Told(v)'
            \/ /\ volume'[v].status = volume[v].status /\ Holders(v)' = Holders(v)
               /\ ~SharesVolume(c, v)
      BY <3>1, <3>4, <3>5 DEF SharesVolume
    <3> QED
      BY <3>7, <3>1, <3>2, <3>3, <3>8, WriteVolume
  <2>12. CASE FreeVolume(c)
    <3>1. demand[c].at = "free" /\ Stores(c, "done") /\ UNCHANGED attachment /\ Marked(u, "available")
      BY <2>12 DEF FreeVolume
    <3>2. GoesOn(c) /\ demand'[c].at = "done" /\ demand'[c].storedAt = stores + 1
      BY <1>0, <3>1, StoresOn DEF Midway, Stores
    <3>3. \A v : Holders(v)' = Holders(v)
      BY <3>1 DEF Holders
    <3>4. DOMAIN volume' = DOMAIN volume
          /\ \A v \in DOMAIN volume : volume'[v].status = IF v = u THEN "available" ELSE volume[v].status
      BY <1>0, <2>0, <3>1, MarkedStatus
    <3>5. ASSUME u \in DOMAIN volume PROVE Told(u)'
      <4>1. Told(u) /\ SharesVolume(c, u)
        BY <1>0, <3>1, <3>5 DEF AttachmentsTold, SharesVolume, Kinds
      <4>2. ASSUME Knows(c, u) PROVE Agrees(u)'
        <5>1. Holders(u)' = {} /\ volume'[u].status = "available"
          BY <3>1, <3>3, <3>4, <3>5, <4>2 DEF Knows
        <5> QED
          BY <5>1 DEF Agrees
      <4> QED
        BY <1>0, <3>2, <3>5, <4>1, <4>2, StoreTold
    <3>7. Named'
      BY <1>0, <3>1, <3>2, NamedPlainly
    <3> QED
      BY <3>7, <3>2, <3>3, <3>4, <3>5, WriteOwn
  <2>13. CASE AskToRewrite(c)
    <3> PICK v \in BodyVolumes(c) :
          \/ \E a \in DOMAIN attachment :
               demand[c].at = "idle" /\ Asks(c, "rewrite", "rewrite", v, a, "in-use", 0)
          \/ \E a \in Uuids(c) :
               demand[c].at = "idle" /\ Asks(c, "upsert", "rewrite", v, a, "in-use", 0)
      BY <2>13 DEF AskToRewrite, Fresh
    <3>1. \A b \in VolumeCalls : v = b => b = c \/ demand[b].at # "idle"
      BY VolumesAssumption DEF BodyVolumes
    <3>2. \A a \in Uuids(c) : \A b \in VolumeCalls : a = b => b = c \/ ~Early(b)
      <4>1. \A b \in VolumeCalls : demand[b].storedAt > 0 => ~Early(b)
        BY <1>0 DEF Kinds, Early
      <4> QED
        BY <4>1, VolumesAssumption DEF Uuids
    <3>3. Finds(c)
      <4>1. CASE \E a \in DOMAIN attachment :
                   demand[c].at = "idle" /\ Asks(c, "rewrite", "rewrite", v, a, "in-use", 0)
        BY <1>0, <3>1, <4>1, AsksFinds DEF DemandPlaces
      <4>2. CASE \E a \in Uuids(c) :
                   demand[c].at = "idle" /\ Asks(c, "upsert", "rewrite", v, a, "in-use", 0)
        BY <1>0, <3>1, <3>2, <4>2, AsksFinds DEF DemandPlaces
      <4> QED
        BY <4>1, <4>2
    <3> QED
      BY <3>3, PlainStep
  <2>14. CASE RewriteAttachment(c) /\ demand[c].attachment \notin DOMAIN attachment
    <3>1. /\ demand[c].at = "rewrite" /\ Moves(c, "failed")
          /\ UNCHANGED <<volume, attachment, hosting, stores>>
      BY <2>14 DEF RewriteAttachment
    <3>2. GoesOn(c) /\ demand'[c].at = "failed"
      BY <1>0, <3>1, MovesOn DEF Midway
    <3> QED
      BY <3>1, <3>2, PlainStep
  <2>15. CASE \/ UpsertAttachment(c)
              \/ RewriteAttachment(c) /\ demand[c].attachment \in DOMAIN attachment
    <3> PICK a : a = demand[c].attachment
      OBVIOUS
    <3> PICK w : w = Displaced(a)
      OBVIOUS
    <3>1. /\ demand[c].at \in {"rewrite", "upsert"} /\ StoresOver(c, "done", w)
          /\ UNCHANGED <<volume, hosting>> /\ DOMAIN attachment' = DOMAIN attachment \cup {a}
          /\ \A b \in DOMAIN attachment' : attachment'[b] = IF b = a THEN u ELSE attachment[b]
      BY <1>0, <2>15 DEF RewriteAttachment, UpsertAttachment
    <3>2. /\ u \in VolumeIds /\ w \in VolumeIds \cup {0}
          /\ \A b \in DOMAIN attachment : attachment[b] \in VolumeIds
          /\ a \in DOMAIN attachment => attachment[a] = w
      BY <1>0, <3>1 DEF Begun, Displaced
    <3>3. GoesOn(c) /\ demand'[c].at = "done" /\ demand'[c].left = w
      BY <1>0, <3>1, <3>2, StoresOn DEF Midway
    <3>4. u # w => Spoiled(u)' /\ Spoiled(w)'
      <4>1. demand[c].op = "rewrite"
        BY <1>0, <3>1 DEF Kinds
      <4>2. Answered(c, "rewrite")' /\ demand'[c].volume = u
        BY <3>3, <4>1 DEF Answered, GoesOn
      <4> QED
        BY <3>3, <4>2 DEF Spoiled, Spoils
    <3>5. /\ \A v \in VolumeIds \ {u, w} : Holders(v)' = Holders(v)
          /\ u = w => a \in DOMAIN attachment /\ \A v \in VolumeIds : Holders(v)' = Holders(v)
          /\ u # w => Holders(w)' \subseteq Holders(w)
          /\ Holders(u)' \subseteq Holders(u) \cup {a}
      <4>1. u = w => a \in DOMAIN attachment
        BY <3>2, VolumesAssumption DEF Displaced, VolumeIds
      <4> QED
        BY <3>1, <3>2, <4>1 DEF Holders
    <3>6. \A v \in DOMAIN volume :
            \/ Told(v)'
            \/ /\ volume'[v].status = volume[v].status /\ Holders(v)' = Holders(v)
               /\ ~SharesVolume(c, v)
      <4>1. \A v \in DOMAIN volume : ~SharesVolume(c, v)
        BY <1>0, <3>1 DEF Kinds, SharesVolume
      <4>2. u # w => Told(u)' /\ Told(w)'
        BY <3>4 DEF Told
      <4> QED
        BY <1>0, <3>1, <3>5, <4>1, <4>2
    <3>7. Named'
      <4>1. ASSUME u # w PROVE a \in VolumeCalls => ~Early(a)
        <5>1. CASE UpsertAttachment(c)
          BY <1>0, <5>1 DEF Named, UpsertAttachment
        <5>2. CASE RewriteAttachment(c) /\ a \in DOMAIN attachment
          BY <1>0, <5>2 DEF Named
        <5> QED
          BY <2>15, <5>1, <5>2
      <4>2. \A v \in VolumeIds : \A b \in Holders(v)' :
              \/ b \in Holders(v)
              \/ (b \in VolumeCalls => ~Early(b)) /\ Spoiled(v)'
        BY <3>2, <3>4, <3>5, <4>1
      <4>3. \A b \in DOMAIN attachment' : \E v \in VolumeIds : b \in Holders(v)'
        BY <3>1, <3>2 DEF Holders
      <4> QED
        BY <1>0, <3>3, <4>2, <4>3, NamedStay
    <3>8. \A v \in VolumeIds : Holders(v)' \subseteq Holders(v) \/ v = u
      BY <3>2, <3>5
    <3> QED
      BY <3>1, <3>3, <3>6, <3>7, <3>8, WriteVolume
  <2> QED
    BY <1>2, <2>1, <2>2, <2>3, <2>4, <2>5, <2>6, <2>7, <2>8, <2>9, <2>10, <2>11, <2>12,
       <2>13, <2>14, <2>15 DEF VolumeCall
<1> QED
  BY <1>1, <1>2 DEF VolumesNext

LEMMA AttachmentsCorrect == VolumesSpec => []AttachmentsTold
  BY AttachmentsInit, AttachmentsStep, VolumesInductiveCorrect, PTL DEF VolumesSpec

(* A volume is in use exactly as long as it is attached, but for what sets *)
(* the two apart: calls that overlap, that are lost half way or that found *)
(* the volume taken, actions, attachments given to another volume by PUT   *)
(* or PATCH, and seeds (nova.py:1994-2101, schema_engine.py:445-519).      *)
THEOREM UseIsAttachment == VolumesSpec => []InUseMeansAttached
<1>1. AttachmentsTold => InUseMeansAttached
  <2> SUFFICES ASSUME AttachmentsTold, NEW v \in DOMAIN volume, ~SeededApart(v),
                      \A c \in VolumeCalls : ~SetsApart(c, v)
               PROVE  (volume[v].status = "in-use") <=> Attached(v)
    BY DEF InUseMeansAttached
  <2>1. ~Spoiled(v)
    BY DEF Spoiled, Spoils, SetsApart, Overlap
  <2>2. \A c \in VolumeCalls : SharesVolume(c, v) => ~Midway(c)
    BY DEF SetsApart, Midway
  <2>3. Agrees(v)
    BY <2>1, <2>2 DEF AttachmentsTold, Told
  <2> QED
    BY <2>3 DEF Agrees, Attached, Holders
<1> QED
  BY <1>1, AttachmentsCorrect, PTL

-----------------------------------------------------------------------------
(***************************************************************************)
(* Host aggregates.                                                        *)
(***************************************************************************)
(* A finite set of naturals has a bound: a smallest one without would get  *)
(* one when an element is taken away.                                      *)
LEMMA FiniteBounded ==
  ASSUME NEW S, IsFiniteSet(S), S \subseteq Nat
  PROVE  \E n \in Nat : S \subseteq 0..n
<1> DEFINE Bounded(U) == \E n \in Nat : U \subseteq 0..n
           T == {U \in FiniteSubsetsOf(S) : ~Bounded(U)}
<1> SUFFICES ASSUME ~Bounded(S) PROVE FALSE
  OBVIOUS
<1>1. T \subseteq FiniteSubsetsOf(S) /\ S \in T
  BY DEF FiniteSubsetsOf
<1>2. PICK U \in T : \A V \in T : ~ (<<V, U>> \in StrictSubsetOrdering(S))
  <2> HIDE DEF T
  <2> QED
    BY <1>1, WFMin, FS_StrictSubsetOrderingWellFounded
<1>3. U \subseteq S /\ IsFiniteSet(U) /\ ~Bounded(U)
  BY DEF FiniteSubsetsOf
<1>4. PICK x \in U : TRUE
  BY <1>3
<1>5. IsFiniteSet(U \ {x})
  BY <1>3, FS_RemoveElement
<1>6. <<U \ {x}, U>> \in StrictSubsetOrdering(S)
  BY <1>3, <1>4 DEF StrictSubsetOrdering
<1>7. Bounded(U \ {x})
  BY <1>2, <1>3, <1>5, <1>6 DEF FiniteSubsetsOf
<1>8. PICK n \in Nat : U \ {x} \subseteq 0..n
  BY <1>7
<1>9. x \in Nat /\ U \subseteq 0..(IF x > n THEN x ELSE n)
  BY <1>3, <1>8
<1> QED
  BY <1>3, <1>9

(* It has a greatest element: the least of its bounds.                     *)
LEMMA MaxType ==
  ASSUME NEW S, IsFiniteSet(S), S \subseteq Nat, 0 \in S
  PROVE  Max(S) \in S
<1> DEFINE T == {b \in Nat : \A x \in S : x <= b}
<1>1. T \subseteq Nat /\ T # {}
  <2> PICK n \in Nat : S \subseteq 0..n
    BY FiniteBounded
  <2> n \in T
    OBVIOUS
  <2> QED
    OBVIOUS
<1>2. PICK b \in T : \A a \in T : ~ (<<a, b>> \in OpToRel(<, Nat))
  <2> HIDE DEF T
  <2> QED
    BY <1>1, WFMin, NatLessThanWellFounded
<1>3. \A a \in T : ~(a < b)
  BY <1>2, Zenon DEF OpToRel
<1>4. b \in S
  <2> SUFFICES ASSUME b \notin S PROVE FALSE
    OBVIOUS
  <2>1. b # 0
    OBVIOUS
  <2> b - 1 \in T
    BY <2>1
  <2> QED
    BY <1>3
<1> QED
  BY <1>4 DEF Max

-----------------------------------------------------------------------------
OrderPlaces == {"idle", "write", "done", "failed"}

OrderPurposes == {"none", "create", "update", "delete"}

OrderRecords == [at : OrderPlaces, op : OrderPurposes, address : Wordings, row : Nat,
                 title : Wordings, readAt : Nat, storedAt : Nat]

AggregateRows == [name : Wordings, by : Orders \cup {0}]

LEMMA AggregatesTypeParts ==
  AggregatesTypeOK <=> /\ DOMAIN aggregate \subseteq Nat \ {0} /\ IsFiniteSet(DOMAIN aggregate)
                       /\ aggregate \in [DOMAIN aggregate -> AggregateRows]
                       /\ written \in Nat /\ order \in [Orders -> OrderRecords]
BY DEF AggregatesTypeOK, AggregateRows, OrderRecords, OrderPlaces, OrderPurposes

LEMMA AggregatesTypePartsNext ==
  AggregatesTypeOK' <=> /\ DOMAIN aggregate' \subseteq Nat \ {0} /\ IsFiniteSet(DOMAIN aggregate')
                        /\ aggregate' \in [DOMAIN aggregate' -> AggregateRows]
                        /\ written' \in Nat /\ order' \in [Orders -> OrderRecords]
BY DEF AggregatesTypeOK, AggregateRows, OrderRecords, OrderPlaces, OrderPurposes

LEMMA AggregatesInitType == AggregatesInit => AggregatesTypeOK
<1> SUFFICES ASSUME AggregatesInit PROVE AggregatesTypeOK
  OBVIOUS
<1>1. Unsent \in OrderRecords
  BY DEF Unsent, OrderRecords, OrderPlaces, OrderPurposes, Wordings
<1>2. \A i \in DOMAIN SeedTitles : [name |-> SeedTitles[i], by |-> 0] \in AggregateRows
  BY DEF AggregateRows, Wordings
<1>3. aggregate \in [DOMAIN aggregate -> AggregateRows] /\ DOMAIN aggregate = DOMAIN SeedTitles
  BY <1>2 DEF AggregatesInit
<1> QED
  BY <1>1, <1>3, AggregatesTypeParts, AggregatesAssumption DEF AggregatesInit

(* The SELECT of a request.                                                *)
LEMMA ReadsOrder ==
  ASSUME AggregatesTypeOK, NEW r \in Orders, NEW new \in OrderRecords,
         order' = [order EXCEPT ![r] = new], UNCHANGED <<aggregate, written>>
  PROVE  /\ AggregatesTypeOK'
         /\ order'[r] = new
         /\ \A q \in Orders : q # r => order'[q] = order[q]
BY AggregatesTypeParts, AggregatesTypePartsNext

(* The statement that writes row i.                                        *)
LEMMA WritesOrder ==
  ASSUME AggregatesTypeOK, NEW r \in Orders, NEW i \in Nat, Writes(r, i)
  PROVE  /\ order' \in [Orders -> OrderRecords]
         /\ order'[r].at = "done" /\ order'[r].row = i /\ order'[r].storedAt = written + 1
         /\ written \in Nat /\ written' = written + 1
         /\ \A q \in Orders : q # r => order'[q] = order[q]
         /\ \A q \in Orders : /\ order'[q].op = order[q].op
                              /\ order'[q].address = order[q].address
                              /\ order'[q].title = order[q].title
                              /\ order'[q].readAt = order[q].readAt
<1> DEFINE there == [order[r] EXCEPT !.at = "done"]
           found == [there EXCEPT !.row = i]
           new == [found EXCEPT !.storedAt = written + 1]
<1>1. order \in [Orders -> OrderRecords] /\ order[r] \in OrderRecords /\ written \in Nat
  BY AggregatesTypeParts
<1>2. /\ there \in OrderRecords /\ there.at = "done"
      /\ there.op = order[r].op /\ there.address = order[r].address
      /\ there.title = order[r].title /\ there.readAt = order[r].readAt
  BY <1>1 DEF OrderRecords, OrderPlaces
<1>3. written' = written + 1 /\ order' = [order EXCEPT ![r] = new]
  BY DEF Writes
<1> HIDE DEF there
<1>4. /\ found \in OrderRecords /\ found.at = "done" /\ found.row = i
      /\ found.op = there.op /\ found.address = there.address
      /\ found.title = there.title /\ found.readAt = there.readAt
  BY <1>2 DEF OrderRecords
<1> HIDE DEF found
<1>5. /\ new \in OrderRecords /\ new.at = "done" /\ new.row = i /\ new.storedAt = written + 1
      /\ new.op = found.op /\ new.address = found.address
      /\ new.title = found.title /\ new.readAt = found.readAt
  BY <1>1, <1>4 DEF OrderRecords
<1> HIDE DEF new
<1> QED
  BY <1>1, <1>2, <1>3, <1>4, <1>5

LEMMA FailsOrder ==
  ASSUME AggregatesTypeOK, NEW r \in Orders, Fails(r)
  PROVE  /\ AggregatesTypeOK'
         /\ order'[r].at = "failed" /\ order'[r].storedAt = order[r].storedAt
         /\ order'[r].op = order[r].op /\ order'[r].address = order[r].address
         /\ order'[r].title = order[r].title /\ order'[r].readAt = order[r].readAt
         /\ \A q \in Orders : q # r => order'[q] = order[q]
         /\ UNCHANGED <<aggregate, written>>
<1> DEFINE new == [order[r] EXCEPT !.at = "failed"]
<1>1. order \in [Orders -> OrderRecords] /\ order[r] \in OrderRecords
  BY AggregatesTypeParts
<1>2. /\ new \in OrderRecords /\ new.at = "failed" /\ new.storedAt = order[r].storedAt
      /\ new.op = order[r].op /\ new.address = order[r].address
      /\ new.title = order[r].title /\ new.readAt = order[r].readAt
  BY <1>1 DEF OrderRecords, OrderPlaces
<1>3. order' = [order EXCEPT ![r] = new] /\ UNCHANGED <<aggregate, written>>
  BY DEF Fails
<1> HIDE DEF new
<1> QED
  BY <1>1, <1>2, <1>3, AggregatesTypeParts, AggregatesTypePartsNext

-----------------------------------------------------------------------------
Excused(r) == \E q \in Orders : Reaches(q, r)

(* The clock of writes; who has not ended has written nothing; a creation  *)
(* addresses the name it gives.                                            *)
Ordered ==
  \A r \in Orders :
    /\ order[r].readAt <= written /\ order[r].storedAt <= written
    /\ order[r].at # "done" => order[r].storedAt = 0
    /\ order[r].at # "idle" /\ order[r].op = "create" => order[r].address = order[r].title
    /\ order[r].at = "write" => order[r].op \in {"create", "update", "delete"}
                                /\ order[r].row # 0

(* Who has read a confirmed row since it was written has addressed it.     *)
Guided ==
  \A q, r \in Orders :
    /\ order[q].at = "write" /\ order[q].op # "create" /\ Confirmed(r)
    /\ order[q].row = order[r].row /\ order[r].storedAt <= order[q].readAt
    => order[q].address \in {order[r].row, order[r].title} \/ Excused(r)

AggregatesInductive == AggregatesTypeOK /\ Ordered /\ Guided /\ AggregateKept

LEMMA AggregatesInitInductive == AggregatesInit => AggregatesInductive
<1> SUFFICES ASSUME AggregatesInit PROVE AggregatesInductive
  OBVIOUS
<1>1. \A r \in Orders : order[r] = Unsent
  BY DEF AggregatesInit
<1>2. Ordered /\ Guided /\ AggregateKept
  BY <1>1 DEF AggregatesInit, Unsent, Ordered, Guided, AggregateKept, Confirmed
<1> QED
  BY <1>2, AggregatesInitType DEF AggregatesInductive

(* What r was confirmed stays as it is, and so does what excuses it.       *)
LEMMA ConfirmedStays ==
  ASSUME AggregatesTypeOK, Ordered, NEW c \in Orders, order[c].at # "done",
         \A q \in Orders : q # c => order'[q] = order[q]
  PROVE  /\ \A x \in Orders : Confirmed(x) => x # c /\ order'[x] = order[x]
         /\ \A x \in Orders : Confirmed(x) /\ Excused(x) => Excused(x)'
<1>1. \A x \in Orders : Confirmed(x) => x # c /\ order'[x] = order[x]
  BY DEF Confirmed
<1>2. ASSUME NEW x \in Orders, Confirmed(x), Excused(x)
      PROVE  Excused(x)'
  <2> PICK q \in Orders : Reaches(q, x)
    BY <1>2 DEF Excused
  <2>1. order[x].storedAt \in Nat
    BY AggregatesTypeParts DEF OrderRecords
  <2>2. order[q].storedAt # 0
    BY <2>1 DEF Reaches
  <2>3. order'[q] = order[q] /\ order'[x] = order[x]
    BY <1>1, <1>2, <2>2 DEF Ordered
  <2> QED
    BY <2>3 DEF Excused, Reaches
<1> QED
  BY <1>1, <1>2

(* A step of request c that writes no row: c ends, or goes on to a write   *)
(* of a row it has found.                                                  *)
LEMMA NoWriteStep ==
  ASSUME AggregatesInductive, AggregatesTypeOK', Ordered', NEW c \in Orders, order[c].at # "done",
         order'[c].at \in {"write", "failed"},
         \A q \in Orders : q # c => order'[q] = order[q],
         UNCHANGED <<aggregate, written>>,
         order'[c].at = "write" /\ order'[c].op # "create" =>
           \A x \in Orders : Confirmed(x) /\ order'[c].row = order[x].row =>
             order'[c].address \in {order[x].row, order[x].title} \/ Excused(x)
  PROVE  AggregatesInductive'
<1>1. /\ \A x \in Orders : Confirmed(x) => x # c /\ order'[x] = order[x]
      /\ \A x \in Orders : Confirmed(x) /\ Excused(x) => Excused(x)'
  BY ConfirmedStays DEF AggregatesInductive
<1>2. \A x \in Orders : Confirmed(x)' => Confirmed(x) /\ x # c /\ order'[x] = order[x]
  BY DEF Confirmed
<1>3. Guided'
  <2> SUFFICES ASSUME NEW q \in Orders, NEW x \in Orders,
                      order'[q].at = "write", order'[q].op # "create", Confirmed(x)',
                      order'[q].row = order'[x].row, order'[x].storedAt <= order'[q].readAt
               PROVE  order'[q].address \in {order'[x].row, order'[x].title} \/ Excused(x)'
    BY DEF Guided
  <2>1. Confirmed(x) /\ order'[x] = order[x]
    BY <1>2
  <2>2. CASE q = c
    BY <1>1, <2>1, <2>2
  <2>3. CASE q # c
    BY <1>1, <2>1, <2>3 DEF AggregatesInductive, Guided
  <2> QED
    BY <2>2, <2>3
<1>4. AggregateKept'
  <2> SUFFICES ASSUME NEW x \in Orders, Confirmed(x)'
               PROVE  Stands(x)' \/ Excused(x)'
    BY DEF AggregateKept, Excused
  <2>1. Confirmed(x) /\ order'[x] = order[x]
    BY <1>2
  <2>2. Stands(x) \/ Excused(x)
    BY <2>1 DEF AggregatesInductive, AggregateKept, Excused
  <2>3. Stands(x) => Stands(x)'
    BY <2>1 DEF Stands
  <2> QED
    BY <1>1, <2>1, <2>2, <2>3
<1> QED
  BY <1>3, <1>4 DEF AggregatesInductive

(* The write of request c: it takes a confirmed row away only from one     *)
(* that c reaches.                                                         *)
LEMMA WriteStep ==
  ASSUME AggregatesInductive, AggregatesTypeOK', NEW c \in Orders, NEW i \in Nat,
         order[c].at = "write", Writes(c, i),
         order[c].op # "delete" => i \in DOMAIN aggregate'
                                   /\ aggregate'[i] = [name |-> order[c].title, by |-> c],
         \A x \in Orders : Confirmed(x) /\ Stands(x) =>
           \/ order[x].row \in DOMAIN aggregate' /\ aggregate'[order[x].row] = aggregate[order[x].row]
           \/ order[c].address \in {order[x].row, order[x].title}
           \/ order[c].op # "create" /\ i = order[x].row /\ order[c].row = i
  PROVE  AggregatesInductive'
<1>1. /\ AggregatesTypeOK
      /\ order' \in [Orders -> OrderRecords]
      /\ order'[c].at = "done" /\ order'[c].row = i /\ order'[c].storedAt = written + 1
      /\ written \in Nat /\ written' = written + 1
      /\ \A q \in Orders : q # c => order'[q] = order[q]
      /\ \A q \in Orders : /\ order'[q].op = order[q].op
                           /\ order'[q].address = order[q].address
                           /\ order'[q].title = order[q].title
                           /\ order'[q].readAt = order[q].readAt
  BY WritesOrder DEF AggregatesInductive
<1>2. \A q \in Orders : /\ order[q].readAt \in Nat /\ order[q].storedAt \in Nat
                        /\ order[q].readAt <= written /\ order[q].storedAt <= written
  BY <1>1, AggregatesTypeParts DEF AggregatesInductive, Ordered, OrderRecords
<1>3. Ordered'
  <2>1. \A q \in Orders : order'[q].readAt <= written' /\ order'[q].storedAt <= written'
    BY <1>1, <1>2
  <2>2. \A q \in Orders : order'[q].at # "done" => order'[q].storedAt = 0
    BY <1>1 DEF AggregatesInductive, Ordered
  <2>3. \A q \in Orders : order'[q].at # "idle" /\ order'[q].op = "create" =>
                            order'[q].address = order'[q].title
    BY <1>1 DEF AggregatesInductive, Ordered
  <2>4. \A q \in Orders : order'[q].at = "write" =>
          order'[q].op \in {"create", "update", "delete"} /\ order'[q].row # 0
    BY <1>1 DEF AggregatesInductive, Ordered
  <2> QED
    BY <2>1, <2>2, <2>3, <2>4 DEF Ordered
<1>4. /\ \A x \in Orders : Confirmed(x) => x # c /\ order'[x] = order[x]
      /\ \A x \in Orders : Confirmed(x) /\ Excused(x) => Excused(x)'
  BY <1>1, ConfirmedStays DEF AggregatesInductive
<1>5. \A x \in Orders : Confirmed(x)' /\ x # c => Confirmed(x) /\ order'[x] = order[x]
  BY <1>1 DEF Confirmed
<1>6. Guided'
  <2> SUFFICES ASSUME NEW q \in Orders, NEW x \in Orders,
                      order'[q].at = "write", order'[q].op # "create", Confirmed(x)',
                      order'[q].row = order'[x].row, order'[x].storedAt <= order'[q].readAt
               PROVE  order'[q].address \in {order'[x].row, order'[x].title} \/ Excused(x)'
    BY DEF Guided
  <2>1. q # c /\ order'[q] = order[q]
    BY <1>1
  <2>2. x # c
    BY <1>1, <1>2, <2>1
  <2> QED
    BY <1>4, <1>5, <2>1, <2>2 DEF AggregatesInductive, Guided
<1>7. AggregateKept'
  <2> SUFFICES ASSUME NEW x \in Orders, Confirmed(x)'
               PROVE  Stands(x)' \/ Excused(x)'
    BY DEF AggregateKept, Excused
  <2>1. CASE x = c
    BY <1>1, <2>1 DEF Confirmed, Stands
  <2>2. CASE x # c
    <3>1. Confirmed(x) /\ order'[x] = order[x]
      BY <1>5, <2>2
    <3>2. CASE Excused(x)
      BY <1>4, <3>1, <3>2
    <3>3. CASE Stands(x) /\ ~Excused(x)
      <4>1. CASE /\ order[x].row \in DOMAIN aggregate'
                 /\ aggregate'[order[x].row] = aggregate[order[x].row]
        BY <3>1, <3>3, <4>1 DEF Stands
      <4>2. CASE order[c].address \in {order[x].row, order[x].title}
        <5>1. Reaches(c, x)'
          BY <1>1, <1>2, <3>1, <4>2 DEF Reaches
        <5> QED
          BY <5>1 DEF Excused
      <4>3. CASE order[c].op # "create" /\ i = order[x].row /\ order[c].row = i
        <5>1. CASE order[x].storedAt <= order[c].readAt
          BY <3>1, <3>3, <4>2, <4>3, <5>1 DEF AggregatesInductive, Guided
        <5>2. CASE order[c].readAt < order[x].storedAt
          <6>1. Reaches(c, x)'
            BY <1>1, <1>2, <3>1, <4>3, <5>2 DEF Reaches
          <6> QED
            BY <6>1 DEF Excused
        <5> QED
          BY <1>2, <5>1, <5>2
      <4> QED
        BY <3>1, <3>3, <4>1, <4>2, <4>3
    <3> QED
      BY <3>1, <3>2, <3>3 DEF AggregatesInductive, AggregateKept, Excused
  <2> QED
    BY <2>1, <2>2
<1> QED
  BY <1>3, <1>6, <1>7 DEF AggregatesInductive

-----------------------------------------------------------------------------
(* A request reads: a row found by its address is found by that of any     *)
(* confirmed request it stands for.                                        *)
LEMMA ReadsStep ==
  ASSUME AggregatesInductive, NEW c \in Orders, order[c].at = "idle",
         NEW op \in {"create", "update", "delete"}, NEW address \in Wordings, NEW i \in Nat \ {0},
         NEW title \in Wordings, Reads(c, op, address, i, title),
         op = "create" => address = title,
         op # "create" => i \in Found(address)
  PROVE  AggregatesInductive'
<1> DEFINE new == [at |-> "write", op |-> op, address |-> address, row |-> i, title |-> title,
                   readAt |-> written, storedAt |-> 0]
<1>1. AggregatesTypeOK /\ written \in Nat /\ order \in [Orders -> OrderRecords]
  BY AggregatesTypeParts DEF AggregatesInductive
<1>2. new \in OrderRecords
  BY <1>1 DEF OrderRecords, OrderPlaces, OrderPurposes
<1>3. order' = [order EXCEPT ![c] = new] /\ UNCHANGED <<aggregate, written>>
  BY DEF Reads
<1>4. AggregatesTypeOK' /\ order'[c] = new /\ \A q \in Orders : q # c => order'[q] = order[q]
  <2> HIDE DEF new
  <2> QED
    BY <1>1, <1>2, <1>3, ReadsOrder
<1>5. Ordered'
  BY <1>1, <1>3, <1>4 DEF AggregatesInductive, Ordered
<1>6. ASSUME op # "create", NEW x \in Orders, Confirmed(x), i = order[x].row
      PROVE  address \in {order[x].row, order[x].title} \/ Excused(x)
  <2>1. Stands(x) \/ Excused(x)
    BY <1>6 DEF AggregatesInductive, AggregateKept, Excused
  <2>2. CASE Stands(x)
    BY <1>6, <2>2 DEF Stands, Found
  <2> QED
    BY <2>1, <2>2
<1> QED
  BY <1>3, <1>4, <1>5, <1>6, NoWriteStep

LEMMA FailsStep ==
  ASSUME AggregatesInductive, NEW c \in Orders, order[c].at = "write", Fails(c)
  PROVE  AggregatesInductive'
<1>1. /\ AggregatesTypeOK'
      /\ order'[c].at = "failed" /\ order'[c].storedAt = order[c].storedAt
      /\ order'[c].op = order[c].op /\ order'[c].address = order[c].address
      /\ order'[c].title = order[c].title /\ order'[c].readAt = order[c].readAt
      /\ \A q \in Orders : q # c => order'[q] = order[q]
      /\ UNCHANGED <<aggregate, written>>
  BY FailsOrder DEF AggregatesInductive
<1>2. Ordered'
  BY <1>1 DEF AggregatesInductive, Ordered
<1> QED
  BY <1>1, <1>2, NoWriteStep

LEMMA ReplacedRow ==
  ASSUME AggregatesTypeOK, NEW c \in Orders, NEW i \in Nat \ {0}, Replaced(c, i)
  PROVE  /\ DOMAIN aggregate' \subseteq Nat \ {0} /\ IsFiniteSet(DOMAIN aggregate')
         /\ aggregate' \in [DOMAIN aggregate' -> AggregateRows]
         /\ i \in DOMAIN aggregate' /\ aggregate'[i] = [name |-> order[c].title, by |-> c]
         /\ \A j \in DOMAIN aggregate : j # i => j \in DOMAIN aggregate'
                                                 /\ aggregate'[j] = aggregate[j]
<1> DEFINE row == [name |-> order[c].title, by |-> c]
<1>1. row \in AggregateRows
  BY AggregatesTypeParts DEF AggregateRows, OrderRecords
<1>2. IsFiniteSet(DOMAIN aggregate \cup {i})
  BY AggregatesTypeParts, FS_AddElement
<1>3. aggregate' = [j \in DOMAIN aggregate \cup {i} |-> IF j = i THEN row ELSE aggregate[j]]
  BY DEF Replaced
<1> HIDE DEF row
<1>4. DOMAIN aggregate' = DOMAIN aggregate \cup {i} /\ aggregate'[i] = row
  BY <1>3
<1>5. aggregate' \in [DOMAIN aggregate' -> AggregateRows]
  BY <1>1, <1>3, AggregatesTypeParts
<1> QED
  BY <1>2, <1>3, <1>4, <1>5, AggregatesTypeParts DEF row

(* Row i written anew by c, which is confirmed.                            *)
LEMMA ReplacedStep ==
  ASSUME AggregatesInductive, NEW c \in Orders, NEW i \in Nat \ {0}, order[c].at = "write",
         Replaced(c, i), Writes(c, i),
         \A x \in Orders : Confirmed(x) /\ Stands(x) /\ order[x].row = i =>
           \/ order[c].address \in {order[x].row, order[x].title}
           \/ order[c].op # "create" /\ order[c].row = i
  PROVE  AggregatesInductive'
<1>1. /\ DOMAIN aggregate' \subseteq Nat \ {0} /\ IsFiniteSet(DOMAIN aggregate')
      /\ aggregate' \in [DOMAIN aggregate' -> AggregateRows]
      /\ i \in DOMAIN aggregate' /\ aggregate'[i] = [name |-> order[c].title, by |-> c]
      /\ \A j \in DOMAIN aggregate : j # i => j \in DOMAIN aggregate'
                                              /\ aggregate'[j] = aggregate[j]
  BY ReplacedRow DEF AggregatesInductive
<1>2. order' \in [Orders -> OrderRecords] /\ written' \in Nat
  BY WritesOrder DEF AggregatesInductive
<1>3. AggregatesTypeOK'
  BY <1>1, <1>2, AggregatesTypePartsNext
<1>4. \A x \in Orders : Confirmed(x) /\ Stands(x) =>
        \/ order[x].row \in DOMAIN aggregate' /\ aggregate'[order[x].row] = aggregate[order[x].row]
        \/ order[c].address \in {order[x].row, order[x].title}
        \/ order[c].op # "create" /\ i = order[x].row /\ order[c].row = i
  BY <1>1 DEF Stands
<1> QED
  BY <1>1, <1>3, <1>4, WriteStep

LEMMA InsertStep ==
  ASSUME AggregatesInductive, NEW c \in Orders, Insert(c)
  PROVE  AggregatesInductive'
<1> DEFINE i == order[c].row
<1>1. /\ order[c].at = "write" /\ order[c].op = "create"
      /\ order[c].address = order[c].title
  BY DEF Insert, AggregatesInductive, Ordered
<1>2. DOMAIN aggregate \subseteq Nat \ {0} /\ i \in Nat
  BY AggregatesTypeParts DEF AggregatesInductive, OrderRecords
<1>3. CASE \E j \in Titled(order[c].title) : Replaced(c, j) /\ Writes(c, j)
  <2> PICK j \in Titled(order[c].title) : Replaced(c, j) /\ Writes(c, j)
    BY <1>3
  <2>1. j \in Nat \ {0} /\ aggregate[j].name = order[c].title
    BY <1>2 DEF Titled
  <2>2. \A x \in Orders : Stands(x) /\ order[x].row = j => order[c].address = order[x].title
    BY <1>1, <2>1 DEF Stands
  <2> QED
    BY <1>1, <2>1, <2>2, ReplacedStep
<1>4. CASE i \notin DOMAIN aggregate /\ Replaced(c, i) /\ Writes(c, i)
  <2>1. i # 0
    BY <1>1 DEF AggregatesInductive, Ordered
  <2>2. \A x \in Orders : Stands(x) => order[x].row # i
    BY <1>4 DEF Stands
  <2> QED
    BY <1>1, <1>2, <1>4, <2>1, <2>2, ReplacedStep
<1>5. CASE Fails(c)
  BY <1>1, <1>5, FailsStep
<1> QED
  BY <1>3, <1>4, <1>5 DEF Insert

LEMMA UpdateRowStep ==
  ASSUME AggregatesInductive, NEW c \in Orders, UpdateRow(c)
  PROVE  AggregatesInductive'
<1> DEFINE i == order[c].row
<1>1. order[c].at = "write" /\ order[c].op = "update"
  BY DEF UpdateRow
<1>2. CASE i \in DOMAIN aggregate /\ Replaced(c, i) /\ Writes(c, i)
  <2>1. i \in Nat \ {0}
    BY <1>2, AggregatesTypeParts DEF AggregatesInductive
  <2> QED
    BY <1>1, <1>2, <2>1, ReplacedStep
<1>3. CASE Fails(c)
  BY <1>1, <1>3, FailsStep
<1> QED
  BY <1>2, <1>3 DEF UpdateRow

LEMMA DeleteRowStep ==
  ASSUME AggregatesInductive, NEW c \in Orders, DeleteRow(c)
  PROVE  AggregatesInductive'
<1> DEFINE i == order[c].row
<1>1. /\ order[c].at = "write" /\ order[c].op = "delete" /\ Writes(c, i)
      /\ aggregate' = [j \in DOMAIN aggregate \ {i} |-> aggregate[j]]
  BY DEF DeleteRow
<1>2. /\ AggregatesTypeOK /\ i \in Nat
      /\ DOMAIN aggregate \subseteq Nat \ {0} /\ IsFiniteSet(DOMAIN aggregate)
      /\ aggregate \in [DOMAIN aggregate -> AggregateRows]
  BY AggregatesTypeParts DEF AggregatesInductive, OrderRecords
<1>3. order' \in [Orders -> OrderRecords] /\ written' \in Nat
  BY <1>1, <1>2, WritesOrder
<1>4. DOMAIN aggregate' = DOMAIN aggregate \ {i} /\ IsFiniteSet(DOMAIN aggregate')
  BY <1>1, <1>2, FS_RemoveElement
<1>5. aggregate' \in [DOMAIN aggregate' -> AggregateRows]
  BY <1>1, <1>2
<1>6. AggregatesTypeOK'
  BY <1>2, <1>3, <1>4, <1>5, AggregatesTypePartsNext
<1>7. \A x \in Orders : Confirmed(x) /\ Stands(x) =>
        \/ order[x].row \in DOMAIN aggregate' /\ aggregate'[order[x].row] = aggregate[order[x].row]
        \/ order[c].address \in {order[x].row, order[x].title}
        \/ order[c].op # "create" /\ i = order[x].row /\ order[c].row = i
  BY <1>1, <1>4 DEF Stands
<1> QED
  BY <1>1, <1>2, <1>6, <1>7, WriteStep

LEMMA AskSteps ==
  ASSUME AggregatesInductive, NEW c \in Orders, AskToCreate(c) \/ AskToUpdate(c) \/ AskToDelete(c)
  PROVE  AggregatesInductive'
<1>1. /\ order[c].at = "idle"
      /\ DOMAIN aggregate \subseteq Nat \ {0} /\ IsFiniteSet(DOMAIN aggregate)
      /\ \A i \in DOMAIN aggregate : aggregate[i].name \in Wordings
  BY AggregatesTypeParts DEF AskToCreate, AskToUpdate, AskToDelete, First, AggregatesInductive, AggregateRows
<1>2. Addressable \subseteq Wordings
  <2>1. \A r \in Orders : order[r].row \in Nat
    BY AggregatesTypeParts DEF AggregatesInductive, OrderRecords
  <2> QED
    BY <2>1, AggregatesAssumption DEF Addressable, Wordings
<1>3. CASE AskToCreate(c)
  <2> PICK title \in Titles : Reads(c, "create", title, NextNumber, title)
    BY <1>3 DEF AskToCreate
  <2>1. NextNumber \in Nat \ {0}
    <3>1. IsFiniteSet(DOMAIN aggregate \cup {0})
      BY <1>1, FS_AddElement
    <3>2. Max(DOMAIN aggregate \cup {0}) \in Nat
      BY <1>1, <3>1, MaxType
    <3> QED
      BY <3>2 DEF NextNumber
  <2>2. title \in Wordings
    BY DEF Wordings
  <2> QED
    BY <1>1, <2>1, <2>2, ReadsStep
<1>4. CASE AskToUpdate(c)
  <2> PICK address \in Addressable : \E i \in Found(address) :
             \E title \in Titles \cup {aggregate[i].name} : Reads(c, "update", address, i, title)
    BY <1>4 DEF AskToUpdate
  <2> PICK i \in Found(address) :
             \E title \in Titles \cup {aggregate[i].name} : Reads(c, "update", address, i, title)
    OBVIOUS
  <2> PICK title \in Titles \cup {aggregate[i].name} : Reads(c, "update", address, i, title)
    OBVIOUS
  <2>1. i \in DOMAIN aggregate /\ i \in Nat \ {0} /\ title \in Wordings /\ address \in Wordings
    BY <1>1, <1>2 DEF Found, Wordings
  <2> QED
    BY <1>1, <2>1, ReadsStep
<1>5. CASE AskToDelete(c)
  <2> PICK address \in Addressable : \E i \in Found(address) : Reads(c, "delete", address, i, 0)
    BY <1>5 DEF AskToDelete
  <2> PICK i \in Found(address) : Reads(c, "delete", address, i, 0)
    OBVIOUS
  <2>1. i \in DOMAIN aggregate /\ i \in Nat \ {0} /\ 0 \in Wordings /\ address \in Wordings
    BY <1>1, <1>2 DEF Found, Wordings
  <2> QED
    BY <1>1, <2>1, ReadsStep
<1> QED
  BY <1>3, <1>4, <1>5

LEMMA AggregatesStepInductive ==
  AggregatesInductive /\ [AggregatesNext]_aggregateVars => AggregatesInductive'
<1> SUFFICES ASSUME AggregatesInductive, [AggregatesNext]_aggregateVars PROVE AggregatesInductive'
  OBVIOUS
<1>1. CASE UNCHANGED aggregateVars
  <2> USE <1>1 DEF aggregateVars
  <2>1. AggregatesTypeOK'
    BY AggregatesTypeParts, AggregatesTypePartsNext DEF AggregatesInductive
  <2>2. \A x \in Orders : /\ Confirmed(x)' = Confirmed(x) /\ Stands(x)' = Stands(x)
                          /\ Excused(x)' = Excused(x)
    BY DEF Confirmed, Stands, Excused, Reaches
  <2>3. Ordered'
    BY DEF AggregatesInductive, Ordered
  <2>4. Guided'
    BY <2>2 DEF AggregatesInductive, Guided
  <2>5. AggregateKept'
    BY <2>2 DEF AggregatesInductive, AggregateKept, Excused
  <2> QED
    BY <2>1, <2>3, <2>4, <2>5 DEF AggregatesInductive
<1>2. ASSUME NEW c \in Orders,
             \/ AskToCreate(c) \/ Insert(c) \/ AskToUpdate(c) \/ UpdateRow(c)
             \/ AskToDelete(c) \/ DeleteRow(c) \/ OrderLost(c)
      PROVE  AggregatesInductive'
  <2>1. CASE OrderLost(c)
    BY <2>1, FailsStep DEF OrderLost
  <2> QED
    BY <1>2, <2>1, AskSteps, InsertStep, UpdateRowStep, DeleteRowStep
<1> QED
  BY <1>1, <1>2 DEF AggregatesNext

LEMMA AggregatesInductiveCorrect == AggregatesSpec => []AggregatesInductive
  BY AggregatesInitInductive, AggregatesStepInductive, PTL DEF AggregatesSpec

(* Aggregates and requests keep their types; above all, the next number    *)
(* is one (nova.py:959).                                                   *)
THEOREM AggregateTypes == AggregatesSpec => []AggregatesTypeOK
  BY AggregatesInductiveCorrect, PTL DEF AggregatesInductive

(* A confirmed aggregate changes only by a request that addressed it, or   *)
(* that had found its row before it was written (nova.py:949-1027).        *)
THEOREM AggregatesKept == AggregatesSpec => []AggregateKept
  BY AggregatesInductiveCorrect, PTL DEF AggregatesInductive

-----------------------------------------------------------------------------
(***************************************************************************)
(* Ports and router interfaces.                                            *)
(***************************************************************************)
WirePlaces == {"idle", "subnet", "port", "insert", "bind", "note", "find", "unnote", "unbind",
               "unnote all", "unbind all", "done"}

WirePurposes == {"none", "add", "remove", "port", "server", "network", "subnet", "router"}

Wires == [at : WirePlaces, op : WirePurposes, router : Routers \cup {0},
          subnet : Subnets \cup {0}, ports : SUBSET PortIds, readAt : Nat, storedAt : Nat]

PortRows == [network : Networks, device : Routers \cup Servers \cup {0}, owner : Owners,
             subnet : Subnets \cup {0}, by : NetworkCalls \cup {0}]

InterfaceRows == [router : Routers, subnet : Subnets \cup {0}, by : NetworkCalls]

LEMMA NetworkingTypeParts ==
  NetworkingTypeOK <=>
    /\ DOMAIN port \subseteq PortIds /\ port \in [DOMAIN port -> PortRows]
    /\ DOMAIN interface \subseteq PortIds /\ interface \in [DOMAIN interface -> InterfaceRows]
    /\ routers \subseteq Routers /\ subnets \subseteq Subnets /\ networks \subseteq Networks
    /\ wire \in [NetworkCalls -> Wires] /\ writes \in Nat
BY DEF NetworkingTypeOK, PortRows, InterfaceRows, Wires, WirePlaces, WirePurposes

LEMMA NetworkingTypePartsNext ==
  NetworkingTypeOK' <=>
    /\ DOMAIN port' \subseteq PortIds /\ port' \in [DOMAIN port' -> PortRows]
    /\ DOMAIN interface' \subseteq PortIds /\ interface' \in [DOMAIN interface' -> InterfaceRows]
    /\ routers' \subseteq Routers /\ subnets' \subseteq Subnets /\ networks' \subseteq Networks
    /\ wire' \in [NetworkCalls -> Wires] /\ writes' \in Nat
BY DEF NetworkingTypeOK, PortRows, InterfaceRows, Wires, WirePlaces, WirePurposes

LEMMA NetworkingInitType == NetworkingInit => NetworkingTypeOK
<1> SUFFICES ASSUME NetworkingInit PROVE NetworkingTypeOK
  OBVIOUS
<1>1. \A p \in SeedPorts : [network |-> NetworkOf[SeedSubnet[p]], device |-> SeedServer[p],
                            owner |-> "compute", subnet |-> SeedSubnet[p], by |-> 0] \in PortRows
  BY NetworkingAssumption DEF PortRows, Owners
<1>2. port \in [DOMAIN port -> PortRows] /\ DOMAIN port \subseteq PortIds
  BY <1>1 DEF NetworkingInit, PortIds
<1>3. Unwired \in Wires
  BY DEF Unwired, Wires, WirePlaces, WirePurposes
<1>4. interface \in [DOMAIN interface -> InterfaceRows] /\ DOMAIN interface = {}
  BY DEF NetworkingInit
<1> QED
  BY <1>2, <1>3, <1>4, NetworkingTypeParts DEF NetworkingInit

(* How the helpers of the actions treat the record of their call.          *)
LEMMA BeginsCall ==
  ASSUME NetworkingTypeOK, NEW c \in NetworkCalls, NEW at \in WirePlaces, NEW op \in WirePurposes,
         NEW r \in Routers \cup {0}, NEW s \in Subnets \cup {0}, NEW ps \in SUBSET PortIds,
         Begins(c, at, op, r, s, ps)
  PROVE  /\ wire' \in [NetworkCalls -> Wires] /\ wire[c].at = "idle"
         /\ wire'[c].at = at /\ wire'[c].op = op /\ wire'[c].router = r /\ wire'[c].subnet = s
         /\ wire'[c].ports = ps /\ wire'[c].readAt = writes /\ wire'[c].storedAt = 0
         /\ \A d \in NetworkCalls : d # c => wire'[d] = wire[d]
         /\ UNCHANGED <<port, interface, routers, subnets, networks, writes>>
<1> DEFINE new == [at |-> at, op |-> op, router |-> r, subnet |-> s, ports |-> ps,
                   readAt |-> writes, storedAt |-> 0]
<1>1. wire \in [NetworkCalls -> Wires] /\ writes \in Nat
  BY NetworkingTypeParts
<1>2. new \in Wires
  BY <1>1 DEF Wires
<1>3. wire' = [wire EXCEPT ![c] = new] /\ wire[c].at = "idle"
      /\ UNCHANGED <<port, interface, routers, subnets, networks, writes>>
  BY DEF Begins, Unbegun
<1> QED
  BY <1>1, <1>2, <1>3

LEMMA DoesCall ==
  ASSUME NetworkingTypeOK, NEW c \in NetworkCalls, NEW op \in WirePurposes,
         NEW ps \in SUBSET PortIds, Does(c, op, ps)
  PROVE  /\ wire' \in [NetworkCalls -> Wires] /\ wire[c].at = "idle"
         /\ wire'[c].at = "done" /\ wire'[c].op = op /\ wire'[c].ports = ps
         /\ wire'[c].readAt = writes /\ wire'[c].storedAt = writes + 1
         /\ \A d \in NetworkCalls : d # c => wire'[d] = wire[d]
         /\ writes \in Nat /\ writes' = writes + 1
<1> DEFINE new == [at |-> "done", op |-> op, router |-> 0, subnet |-> 0, ports |-> ps,
                   readAt |-> writes, storedAt |-> writes + 1]
<1>1. wire \in [NetworkCalls -> Wires] /\ writes \in Nat
  BY NetworkingTypeParts
<1>0. "done" \in WirePlaces /\ writes + 1 \in Nat
  BY <1>1 DEF WirePlaces
<1>2. new \in Wires
  BY <1>0, <1>1 DEF Wires
<1>3. wire' = [wire EXCEPT ![c] = new] /\ wire[c].at = "idle" /\ writes' = writes + 1
  BY DEF Does, Unbegun
<1> QED
  BY <1>1, <1>2, <1>3

LEMMA GoesCall ==
  ASSUME NetworkingTypeOK, NEW c \in NetworkCalls, NEW at \in WirePlaces,
         NEW ps \in SUBSET PortIds, Goes(c, at, ps)
  PROVE  /\ wire' \in [NetworkCalls -> Wires]
         /\ wire'[c].at = at /\ wire'[c].ports = ps
         /\ wire'[c].op = wire[c].op /\ wire'[c].router = wire[c].router
         /\ wire'[c].subnet = wire[c].subnet /\ wire'[c].readAt = wire[c].readAt
         /\ wire'[c].storedAt = wire[c].storedAt
         /\ \A d \in NetworkCalls : d # c => wire'[d] = wire[d]
         /\ UNCHANGED <<port, interface, routers, subnets, networks, writes>>
<1> DEFINE moved == [wire[c] EXCEPT !.at = at]
           new == [moved EXCEPT !.ports = ps]
<1>1. wire \in [NetworkCalls -> Wires] /\ wire[c] \in Wires
  BY NetworkingTypeParts
<1>2. /\ moved \in Wires /\ moved.at = at
      /\ moved.op = wire[c].op /\ moved.router = wire[c].router /\ moved.subnet = wire[c].subnet
      /\ moved.readAt = wire[c].readAt /\ moved.storedAt = wire[c].storedAt
  BY <1>1 DEF Wires
<1>3. wire' = [wire EXCEPT ![c] = new]
      /\ UNCHANGED <<port, interface, routers, subnets, networks, writes>>
  BY DEF Goes
<1> HIDE DEF moved
<1>4. /\ new \in Wires /\ new.at = moved.at /\ new.ports = ps
      /\ new.op = moved.op /\ new.router = moved.router /\ new.subnet = moved.subnet
      /\ new.readAt = moved.readAt /\ new.storedAt = moved.storedAt
  BY <1>2 DEF Wires
<1> HIDE DEF new
<1> QED
  BY <1>1, <1>2, <1>3, <1>4

LEMMA CommitsCall ==
  ASSUME NetworkingTypeOK, NEW c \in NetworkCalls, NEW at \in WirePlaces,
         NEW ps \in SUBSET PortIds, Commits(c, at, ps)
  PROVE  /\ wire' \in [NetworkCalls -> Wires]
         /\ wire'[c].at = at /\ wire'[c].ports = ps /\ wire'[c].storedAt = writes + 1
         /\ wire'[c].op = wire[c].op /\ wire'[c].router = wire[c].router
         /\ wire'[c].subnet = wire[c].subnet /\ wire'[c].readAt = wire[c].readAt
         /\ \A d \in NetworkCalls : d # c => wire'[d] = wire[d]
         /\ writes \in Nat /\ writes' = writes + 1
         /\ UNCHANGED <<routers, subnets, networks>>
<1> DEFINE moved == [wire[c] EXCEPT !.at = at]
           taken == [moved EXCEPT !.ports = ps]
           new == [taken EXCEPT !.storedAt = writes + 1]
<1>1. wire \in [NetworkCalls -> Wires] /\ wire[c] \in Wires /\ writes \in Nat
  BY NetworkingTypeParts
<1>2. /\ moved \in Wires /\ moved.at = at
      /\ moved.op = wire[c].op /\ moved.router = wire[c].router /\ moved.subnet = wire[c].subnet
      /\ moved.readAt = wire[c].readAt
  BY <1>1 DEF Wires
<1>3. wire' = [wire EXCEPT ![c] = new] /\ writes' = writes + 1
      /\ UNCHANGED <<routers, subnets, networks>>
  BY DEF Commits
<1> HIDE DEF moved
<1>4. /\ taken \in Wires /\ taken.at = moved.at /\ taken.ports = ps
      /\ taken.op = moved.op /\ taken.router = moved.router /\ taken.subnet = moved.subnet
      /\ taken.readAt = moved.readAt
  BY <1>2 DEF Wires
<1> HIDE DEF taken
<1>5. /\ new \in Wires /\ new.at = taken.at /\ new.ports = taken.ports
      /\ new.op = taken.op /\ new.router = taken.router /\ new.subnet = taken.subnet
      /\ new.readAt = taken.readAt /\ new.storedAt = writes + 1
  BY <1>1, <1>4 DEF Wires
<1> HIDE DEF new
<1> QED
  BY <1>1, <1>2, <1>3, <1>4, <1>5

-----------------------------------------------------------------------------
(* What a call is about at each of its stages, and the clock.              *)
Staged(c) ==
  /\ wire[c].readAt <= writes /\ wire[c].storedAt <= writes
  /\ wire[c].at \in {"subnet", "port", "insert", "bind", "note"} => wire[c].op = "add"
  /\ wire[c].at \in {"find", "unnote", "unbind", "unnote all", "unbind all"} =>
       wire[c].op = "remove"
  /\ wire[c].at \in {"idle", "subnet", "port", "insert", "bind", "find", "unnote",
                     "unnote all"} => wire[c].storedAt = 0
  /\ wire[c].at \in {"note", "unbind", "unbind all", "done"} =>
       wire[c].storedAt > wire[c].readAt
  /\ wire[c].at \in {"subnet", "insert", "find", "unnote all", "unbind all"} =>
       wire[c].subnet \in Subnets
  /\ wire[c].op = "add" => /\ wire[c].router \in Routers
                           /\ \A p, q \in wire[c].ports : p = q

Stages == \A c \in NetworkCalls : Staged(c)

(* Rows and documents carry what their writers asked for.                  *)
Binders ==
  \A p \in DOMAIN port : \A c \in NetworkCalls : port[p].by = c =>
    /\ p \in wire[c].ports /\ wire[c].storedAt > 0
    /\ wire[c].op = "add" => port[p].owner = "router" /\ port[p].device = wire[c].router

Noters ==
  \A p \in DOMAIN interface : \A c \in NetworkCalls : interface[p].by = c =>
    /\ wire[c].op = "add" /\ wire[c].at = "done" /\ p \in wire[c].ports
    /\ interface[p].router = wire[c].router /\ interface[p].subnet = wire[c].subnet

Added(c) == wire[c].op = "add" /\ wire[c].at = "done"

(* The last to write p wrote it after c, which has.                        *)
LastWriters ==
  \A c \in NetworkCalls : \A p \in wire[c].ports :
    /\ Added(c) /\ p \in DOMAIN interface =>
         wire[interface[p].by].storedAt >= wire[c].storedAt
    /\ (Added(c) \/ wire[c].at = "note") /\ p \in DOMAIN port =>
         port[p].by \in NetworkCalls /\ wire[port[p].by].storedAt > wire[c].readAt

(* A port that an addition has found and that has gone was taken since.    *)
Taken ==
  \A c \in NetworkCalls : \A p \in wire[c].ports :
    wire[c].at \in {"bind", "note"} /\ p \notin DOMAIN port =>
      \E d \in NetworkCalls : d # c /\ p \in wire[d].ports /\ wire[d].storedAt > wire[c].readAt

(* A document that a removal does not see, or has removed, is a later one. *)
Unseen(c, p) ==
  \/ wire[c].at \in {"unbind", "unbind all"} /\ p \in wire[c].ports
  \/ /\ wire[c].at \in {"unnote all", "unbind all"}
     /\ interface[p].router = wire[c].router /\ interface[p].subnet = wire[c].subnet

LateNotes ==
  \A c \in NetworkCalls : \A p \in DOMAIN interface :
    Unseen(c, p) => wire[interface[p].by].storedAt > wire[c].readAt

(* f writes p after c has begun and began before c had written.            *)
Crosses(f, c, p) ==
  /\ f # c /\ p \in wire[f].ports
  /\ wire[f].storedAt > wire[c].readAt /\ wire[f].readAt < wire[c].storedAt

(* If a removal by subnet takes the document of another's port, then that  *)
(* other one or a third has crossed.                                       *)
LateBindings ==
  \A e, c \in NetworkCalls : \A p \in DOMAIN port :
    wire[e].at = "unbind all" /\ p \in wire[e].ports /\ port[p].by = c /\ Added(c) =>
      \/ wire[c].storedAt > wire[e].readAt
      \/ \E f \in NetworkCalls : f # e /\ Crosses(f, c, p)

Upset(c, p) == \E d \in NetworkCalls : Disturbs(d, c, p)

Documents == \A p \in DOMAIN interface : Agree(p) \/ Upset(interface[p].by, p)

Bound == \A p \in DOMAIN port : \A c \in NetworkCalls :
           port[p].by = c /\ Added(c) => Agree(p) \/ Upset(c, p)

NetworkInvariant ==
  /\ NetworkingTypeOK /\ Stages /\ Binders /\ Noters /\ LastWriters /\ Taken /\ LateNotes
  /\ LateBindings /\ Documents /\ Bound

LEMMA WholeParts == NetworkInvariant => InterfacesWhole
BY DEF NetworkInvariant, InterfacesWhole, Documents, Bound, Upset, Added

LEMMA NetworkingInitInvariant == NetworkingInit => NetworkInvariant
<1> SUFFICES ASSUME NetworkingInit PROVE NetworkInvariant
  OBVIOUS
<1>1. \A c \in NetworkCalls : wire[c] = Unwired
  BY DEF NetworkingInit
<1>2. writes = 0 /\ DOMAIN interface = {} /\ \A p \in DOMAIN port : port[p].by = 0
  BY DEF NetworkingInit
<1>3. 0 \notin NetworkCalls
  BY NetworkingAssumption
<1>5. /\ Unwired.at = "idle" /\ Unwired.op = "none" /\ Unwired.ports = {}
      /\ Unwired.readAt = 0 /\ Unwired.storedAt = 0
  BY Zenon DEF Unwired
<1>6. \A c \in NetworkCalls : /\ wire[c].at = "idle" /\ wire[c].op = "none" /\ wire[c].ports = {}
                               /\ wire[c].readAt = 0 /\ wire[c].storedAt = 0
  BY <1>1, <1>5
<1>7. Stages
  <2> SUFFICES ASSUME NEW c \in NetworkCalls
               PROVE  /\ wire[c].readAt <= writes /\ wire[c].storedAt <= writes
                      /\ wire[c].at = "idle" /\ wire[c].op = "none" /\ wire[c].storedAt = 0
    BY DEF Stages, Staged
  <2> QED
    BY <1>2, <1>6
<1>8. Binders /\ Noters /\ LastWriters /\ Taken
  BY <1>2, <1>3, <1>6 DEF Binders, Noters, LastWriters, Taken, Added
<1>9. LateNotes /\ LateBindings /\ Documents /\ Bound
  BY <1>2, <1>3, <1>6 DEF LateNotes, LateBindings, Documents, Bound
<1> QED
  BY <1>7, <1>8, <1>9, NetworkingInitType DEF NetworkInvariant

(* What every step of call e does to the record of e.                      *)
Advances(e) ==
  /\ wire' \in [NetworkCalls -> Wires] /\ writes' \in Nat
  /\ \A d \in NetworkCalls : d # e => wire'[d] = wire[d]
  /\ wire[e].at # "done"
  /\ wire[e].storedAt > 0 => /\ wire'[e].op = wire[e].op /\ wire'[e].router = wire[e].router
                             /\ wire'[e].subnet = wire[e].subnet
                             /\ wire'[e].readAt = wire[e].readAt
                             /\ wire[e].ports \subseteq wire'[e].ports
  /\ writes' \in {writes, writes + 1}
  /\ wire'[e].storedAt \in {wire[e].storedAt, writes'} /\ wire'[e].storedAt >= wire[e].storedAt

LEMMA AdvancesKeeps ==
  ASSUME NetworkInvariant, NEW e \in NetworkCalls, Advances(e)
  PROVE  /\ \A c \in NetworkCalls : wire[c].readAt \in Nat /\ wire[c].storedAt \in Nat
         /\ \A c \in NetworkCalls : wire'[c].readAt \in Nat /\ wire'[c].storedAt \in Nat
         /\ writes \in Nat /\ writes' \in Nat /\ writes' >= writes
         /\ \A c \in NetworkCalls : Added(c) => c # e /\ wire'[c] = wire[c] /\ Added(c)'
         /\ \A c, d \in NetworkCalls : \A p : Crosses(d, c, p) /\ Added(c) => Crosses(d, c, p)'
         /\ \A c, d \in NetworkCalls : \A p :
              /\ Disturbs(d, c, p) /\ Added(c)
              /\ d # e \/ wire[e].at \notin Halfway \/ wire'[e].at \in Halfway
              => Disturbs(d, c, p)'
<1>1. /\ \A c \in NetworkCalls : wire[c].readAt \in Nat /\ wire[c].storedAt \in Nat
      /\ \A c \in NetworkCalls : wire'[c].readAt \in Nat /\ wire'[c].storedAt \in Nat
      /\ writes \in Nat /\ writes' \in Nat /\ writes' >= writes
  BY NetworkingTypeParts DEF NetworkInvariant, Advances, Wires
<1>2. \A c \in NetworkCalls : Added(c) => c # e /\ wire'[c] = wire[c] /\ Added(c)'
  BY DEF Advances, Added
<1>3. ASSUME NEW c \in NetworkCalls, NEW d \in NetworkCalls, NEW p, Crosses(d, c, p), Added(c)
      PROVE  Crosses(d, c, p)'
  BY <1>1, <1>2, <1>3 DEF Crosses, Advances
<1>4. ASSUME NEW c \in NetworkCalls, NEW d \in NetworkCalls, NEW p, Disturbs(d, c, p), Added(c),
             d # e \/ wire[e].at \notin Halfway \/ wire'[e].at \in Halfway
      PROVE  Disturbs(d, c, p)'
  <2>1. wire'[c] = wire[c]
    BY <1>2, <1>4
  <2>2. CASE d # e
    BY <1>4, <2>1, <2>2 DEF Disturbs, Advances
  <2>3. CASE d = e
    <3>1. wire[e].storedAt > 0 /\ p \in wire'[e].ports /\ wire'[e].storedAt >= wire[e].storedAt
      BY <1>1, <1>4, <2>3 DEF Disturbs, Advances
    <3>2. wire'[e].op = wire[e].op /\ wire'[e].subnet = wire[e].subnet /\ wire'[e].readAt = wire[e].readAt
      BY <3>1 DEF Advances
    <3> QED
      BY <1>1, <1>4, <2>1, <2>3, <3>1, <3>2 DEF Disturbs
  <2> QED
    BY <2>2, <2>3
<1> QED
  BY <1>1, <1>2, <1>3, <1>4

(* A step of call e that writes neither ports nor documents.               *)
Passes(e) ==
  /\ Advances(e) /\ UNCHANGED <<port, interface>>
  /\ wire[e].at \notin Halfway /\ wire'[e].at \notin {"note", "unbind", "unbind all"}
  /\ wire'[e].at = "done" => wire'[e].op # "add"
  /\ wire'[e].at = "bind" => wire'[e].ports \subseteq DOMAIN port
  /\ wire'[e].at = "unnote all" => Noted(wire'[e].router, wire'[e].subnet) = {}

LEMMA PassesStep ==
  ASSUME NetworkInvariant, NEW e \in NetworkCalls, Passes(e), NetworkingTypeOK', Stages'
  PROVE  NetworkInvariant'
<1>1. Advances(e) /\ UNCHANGED <<port, interface>>
  BY DEF Passes
<1>2. /\ \A c \in NetworkCalls : wire[c].readAt \in Nat /\ wire[c].storedAt \in Nat
      /\ \A c \in NetworkCalls : wire'[c].readAt \in Nat /\ wire'[c].storedAt \in Nat
      /\ \A c \in NetworkCalls : Added(c) => c # e /\ wire'[c] = wire[c] /\ Added(c)'
      /\ \A c, d \in NetworkCalls : \A p : Crosses(d, c, p) /\ Added(c) => Crosses(d, c, p)'
      /\ \A c, d \in NetworkCalls : \A p : Disturbs(d, c, p) /\ Added(c) => Disturbs(d, c, p)'
  BY <1>1, AdvancesKeeps DEF Passes
<1>3. \A c \in NetworkCalls : Added(c)' => c # e /\ Added(c) /\ wire'[c] = wire[c]
  BY DEF Passes, Advances, Added
<1>4. /\ \A p \in DOMAIN interface : interface[p].by \in NetworkCalls /\ Added(interface[p].by)
      /\ \A p \in DOMAIN port : port[p].by = e => wire[e].storedAt > 0
  BY NetworkingTypeParts DEF NetworkInvariant, InterfaceRows, Noters, Binders, Added
<1>5. Binders'
  BY <1>1, <1>2, <1>4 DEF NetworkInvariant, Binders, Advances
<1>6. Noters'
  BY <1>1, <1>2, <1>4 DEF NetworkInvariant, Noters, Added
<1>7. LastWriters'
  <2> SUFFICES ASSUME NEW c \in NetworkCalls, NEW p \in wire'[c].ports
               PROVE  /\ Added(c)' /\ p \in DOMAIN interface =>
                           wire'[interface[p].by].storedAt >= wire'[c].storedAt
                      /\ (Added(c)' \/ wire'[c].at = "note") /\ p \in DOMAIN port =>
                           /\ port[p].by \in NetworkCalls
                           /\ wire'[port[p].by].storedAt > wire'[c].readAt
    BY <1>1 DEF LastWriters
  <2>1. Added(c)' \/ wire'[c].at = "note" => c # e /\ wire'[c] = wire[c]
    BY <1>3 DEF Passes, Advances
  <2>2. \A d \in NetworkCalls : wire'[d].storedAt >= wire[d].storedAt
    BY <1>1, <1>2 DEF Advances
  <2> QED
    BY <1>2, <1>3, <1>4, <2>1, <2>2 DEF NetworkInvariant, LastWriters
<1>8. Taken'
  <2> SUFFICES ASSUME NEW c \in NetworkCalls, NEW p \in wire'[c].ports,
                      wire'[c].at \in {"bind", "note"}, p \notin DOMAIN port
               PROVE  \E d \in NetworkCalls : d # c /\ p \in wire'[d].ports
                                             /\ wire'[d].storedAt > wire'[c].readAt
    BY <1>1 DEF Taken
  <2>1. c # e /\ wire'[c] = wire[c]
    BY DEF Passes, Advances
  <2>2. PICK d \in NetworkCalls : d # c /\ p \in wire[d].ports /\ wire[d].storedAt > wire[c].readAt
    BY <2>1 DEF NetworkInvariant, Taken
  <2> QED
    BY <1>1, <1>2, <2>1, <2>2 DEF Advances
<1>9. LateNotes'
  <2> SUFFICES ASSUME NEW c \in NetworkCalls, NEW p \in DOMAIN interface, Unseen(c, p)'
               PROVE  wire'[interface[p].by].storedAt > wire'[c].readAt
    BY <1>1 DEF LateNotes
  <2>1. c # e
    BY <1>1 DEF Passes, Unseen, Noted
  <2>2. Unseen(c, p) /\ wire'[c] = wire[c]
    BY <1>1, <2>1 DEF Advances, Unseen
  <2> QED
    BY <1>2, <1>4, <2>2 DEF NetworkInvariant, LateNotes
<1>10. LateBindings'
  <2> SUFFICES ASSUME NEW d \in NetworkCalls, NEW c \in NetworkCalls, NEW p \in DOMAIN port,
                      wire'[d].at = "unbind all", p \in wire'[d].ports, port[p].by = c, Added(c)'
               PROVE  \/ wire'[c].storedAt > wire'[d].readAt
                      \/ \E f \in NetworkCalls : f # d /\ Crosses(f, c, p)'
    BY <1>1 DEF LateBindings
  <2>1. wire'[d] = wire[d] /\ wire'[c] = wire[c] /\ Added(c)
    BY <1>3 DEF Passes, Advances
  <2>2. \/ wire[c].storedAt > wire[d].readAt
        \/ \E f \in NetworkCalls : f # d /\ Crosses(f, c, p)
    BY <2>1 DEF NetworkInvariant, LateBindings
  <2> QED
    BY <1>2, <2>1, <2>2
<1>11. \A p : Agree(p)' = Agree(p)
  BY <1>1 DEF Agree
<1>12. Documents'
  BY <1>1, <1>2, <1>4, <1>11 DEF NetworkInvariant, Documents, Upset
<1>13. Bound'
  BY <1>1, <1>2, <1>3, <1>11 DEF NetworkInvariant, Bound, Upset
<1> QED
  BY <1>5, <1>6, <1>7, <1>8, <1>9, <1>10, <1>12, <1>13 DEF NetworkInvariant

(* A step of call e that writes or takes ports.                            *)
WritesPorts(e) ==
  /\ Advances(e) /\ UNCHANGED interface
  /\ wire'[e].storedAt = writes + 1 /\ wire'[e].at \in {"note", "done"}
  /\ wire'[e].op = "add" => /\ wire'[e].at = "note"
                            /\ \A p \in wire'[e].ports :
                                 \/ p \in DOMAIN port' /\ port'[p].by = e
                                 \/ \E d \in NetworkCalls :
                                      /\ d # e /\ p \in wire[d].ports
                                      /\ wire[d].storedAt > wire'[e].readAt
                                      /\ p \notin DOMAIN port'
  /\ wire'[e].at = "note" => wire'[e].op = "add"
  /\ \A p \in DOMAIN port' :
       \/ p \in DOMAIN port /\ port'[p] = port[p]
       \/ /\ p \in wire'[e].ports /\ port'[p].by = e
          /\ wire'[e].op = "add" => /\ port'[p].owner = "router"
                                    /\ port'[p].device = wire'[e].router
  /\ \A p \in DOMAIN port \ DOMAIN port' : p \in wire'[e].ports

LEMMA NextIsLater ==
  \A m, n \in Nat : m <= n => /\ n + 1 \in Nat /\ n + 1 > m /\ n + 1 >= m
                              /\ m <= n + 1 /\ n + 1 <= n + 1
OBVIOUS

LEMMA ZeroIsLeast == 0 >= 0 /\ ~(0 > 0)
OBVIOUS

LEMMA WritesPortsParts ==
  ASSUME NetworkInvariant, NEW e \in NetworkCalls, WritesPorts(e), Stages'
  PROVE  Binders' /\ Noters' /\ LastWriters' /\ Taken' /\ LateNotes' /\ LateBindings'
<1>1. Advances(e) /\ UNCHANGED interface
  BY DEF WritesPorts
<1>2. /\ \A c \in NetworkCalls : wire[c].readAt \in Nat /\ wire[c].storedAt \in Nat
      /\ \A c \in NetworkCalls : wire'[c].readAt \in Nat /\ wire'[c].storedAt \in Nat
      /\ writes \in Nat
      /\ \A c \in NetworkCalls : Added(c) => c # e /\ wire'[c] = wire[c] /\ Added(c)'
      /\ \A c, d \in NetworkCalls : \A p : Crosses(d, c, p) /\ Added(c) => Crosses(d, c, p)'
  BY <1>1, AdvancesKeeps
<1>3. \A c \in NetworkCalls : Added(c)' => c # e /\ Added(c) /\ wire'[c] = wire[c]
  BY DEF WritesPorts, Advances, Added
<1>4. /\ \A p \in DOMAIN interface : interface[p].by \in NetworkCalls /\ Added(interface[p].by)
      /\ \A p \in DOMAIN port : port[p].by = e => wire[e].storedAt > 0
  BY NetworkingTypeParts DEF NetworkInvariant, InterfaceRows, Noters, Binders, Added
<1>5. \A c \in NetworkCalls : wire'[c].storedAt >= wire[c].storedAt
  BY <1>1, <1>2 DEF Advances
<1>6. \A c \in NetworkCalls : c # e => wire'[c] = wire[c]
  BY <1>1 DEF Advances
<1>7. Binders'
  <2> SUFFICES ASSUME NEW p \in DOMAIN port', NEW c \in NetworkCalls, port'[p].by = c
               PROVE  /\ p \in wire'[c].ports /\ wire'[c].storedAt > 0
                      /\ wire'[c].op = "add" => /\ port'[p].owner = "router"
                                                /\ port'[p].device = wire'[c].router
    BY DEF Binders
  <2>1. CASE p \in DOMAIN port /\ port'[p] = port[p]
    <3>1. /\ p \in wire[c].ports /\ wire[c].storedAt > 0
          /\ wire[c].op = "add" => port[p].owner = "router" /\ port[p].device = wire[c].router
      BY <2>1 DEF NetworkInvariant, Binders
    <3> QED
      BY <1>1, <1>2, <2>1, <3>1 DEF Advances
  <2>2. CASE /\ p \in wire'[e].ports /\ port'[p].by = e
             /\ wire'[e].op = "add" => port'[p].owner = "router" /\ port'[p].device = wire'[e].router
    BY <1>2, <2>2 DEF WritesPorts
  <2> QED
    BY <2>1, <2>2 DEF WritesPorts
<1>8. Noters'
  BY <1>1, <1>2, <1>4 DEF NetworkInvariant, Noters, Added
<1>9. LastWriters'
  <2> SUFFICES ASSUME NEW c \in NetworkCalls, NEW p \in wire'[c].ports
               PROVE  /\ Added(c)' /\ p \in DOMAIN interface =>
                           wire'[interface[p].by].storedAt >= wire'[c].storedAt
                      /\ (Added(c)' \/ wire'[c].at = "note") /\ p \in DOMAIN port' =>
                           /\ port'[p].by \in NetworkCalls
                           /\ wire'[port'[p].by].storedAt > wire'[c].readAt
    BY <1>1 DEF LastWriters
  <2>1. Added(c)' /\ p \in DOMAIN interface =>
          wire'[interface[p].by].storedAt >= wire'[c].storedAt
    BY <1>2, <1>3, <1>4 DEF NetworkInvariant, LastWriters
  <2>2. ASSUME p \in DOMAIN port', port'[p].by = e, wire'[c].at \in {"done", "note"}
        PROVE  wire'[e].storedAt > wire'[c].readAt
    <3>1. wire'[e].storedAt = writes + 1
      BY DEF WritesPorts
    <3>2. c # e => wire[c].readAt <= writes
      BY DEF NetworkInvariant, Stages, Staged
    <3>3. c = e => wire'[c].storedAt > wire'[c].readAt
      BY <2>2 DEF Stages, Staged
    <3> QED
      BY <1>2, <1>6, <3>1, <3>2, <3>3
  <2>3. ASSUME Added(c)' \/ wire'[c].at = "note", p \in DOMAIN port'
        PROVE  /\ port'[p].by \in NetworkCalls
               /\ wire'[port'[p].by].storedAt > wire'[c].readAt
    <3>1. wire'[c].at \in {"done", "note"}
      BY <2>3 DEF Added
    <3>2. CASE port'[p].by = e
      BY <2>2, <2>3, <3>1, <3>2
    <3>3. CASE port'[p].by # e
      <4>1. p \in DOMAIN port /\ port'[p] = port[p]
        BY <2>3, <3>3 DEF WritesPorts
      <4>2. c # e
        BY <2>3, <3>3, <1>3 DEF WritesPorts
      <4>3. wire'[c] = wire[c] /\ (Added(c) \/ wire[c].at = "note")
        BY <1>3, <1>6, <2>3, <4>2
      <4>4. port[p].by \in NetworkCalls /\ wire[port[p].by].storedAt > wire[c].readAt
        BY <4>1, <4>3 DEF NetworkInvariant, LastWriters
      <4> QED
        BY <1>2, <1>5, <4>1, <4>3, <4>4
    <3> QED
      BY <3>2, <3>3
  <2> QED
    BY <2>1, <2>3
<1>10. Taken'
  <2> SUFFICES ASSUME NEW c \in NetworkCalls, NEW p \in wire'[c].ports,
                      wire'[c].at \in {"bind", "note"}, p \notin DOMAIN port'
               PROVE  \E d \in NetworkCalls : d # c /\ p \in wire'[d].ports
                                             /\ wire'[d].storedAt > wire'[c].readAt
    BY DEF Taken
  <2>1. CASE c = e
    <3>1. wire'[e].op = "add"
      BY <2>1 DEF WritesPorts
    <3>2. PICK d \in NetworkCalls : d # e /\ p \in wire[d].ports /\ wire[d].storedAt > wire'[e].readAt
      BY <2>1, <3>1 DEF WritesPorts
    <3> QED
      BY <1>6, <2>1, <3>2
  <2>2. CASE c # e /\ p \in DOMAIN port
    <3>1. p \in wire'[e].ports /\ wire'[e].storedAt = writes + 1
      BY <2>2 DEF WritesPorts
    <3>2. wire'[c].readAt <= writes
      BY <1>6, <2>2 DEF NetworkInvariant, Stages, Staged
    <3> QED
      BY <1>2, <2>2, <3>1, <3>2
  <2>3. CASE c # e /\ p \notin DOMAIN port
    <3>1. wire'[c] = wire[c]
      BY <1>6, <2>3
    <3>2. PICK d \in NetworkCalls : d # c /\ p \in wire[d].ports /\ wire[d].storedAt > wire[c].readAt
      BY <2>3, <3>1 DEF NetworkInvariant, Taken
    <3>3. wire[d].storedAt > 0
      BY <1>2, <3>2
    <3> QED
      BY <1>1, <1>2, <1>5, <3>1, <3>2, <3>3 DEF Advances
  <2> QED
    BY <2>1, <2>2, <2>3
<1>11. LateNotes'
  <2> SUFFICES ASSUME NEW c \in NetworkCalls, NEW p \in DOMAIN interface, Unseen(c, p)'
               PROVE  wire'[interface[p].by].storedAt > wire'[c].readAt
    BY <1>1 DEF LateNotes
  <2>1. c # e
    BY DEF WritesPorts, Unseen
  <2>2. Unseen(c, p) /\ wire'[c] = wire[c]
    BY <1>1, <1>6, <2>1 DEF Unseen
  <2> QED
    BY <1>2, <1>4, <2>2 DEF NetworkInvariant, LateNotes
<1>12. LateBindings'
  <2> SUFFICES ASSUME NEW d \in NetworkCalls, NEW c \in NetworkCalls, NEW p \in DOMAIN port',
                      wire'[d].at = "unbind all", p \in wire'[d].ports, port'[p].by = c, Added(c)'
               PROVE  \/ wire'[c].storedAt > wire'[d].readAt
                      \/ \E f \in NetworkCalls : f # d /\ Crosses(f, c, p)'
    BY DEF LateBindings
  <2>1. d # e /\ wire'[d] = wire[d] /\ c # e /\ wire'[c] = wire[c] /\ Added(c)
    BY <1>3, <1>6 DEF WritesPorts
  <2>2. p \in DOMAIN port /\ port'[p] = port[p]
    BY <2>1 DEF WritesPorts
  <2>3. \/ wire[c].storedAt > wire[d].readAt
        \/ \E f \in NetworkCalls : f # d /\ Crosses(f, c, p)
    BY <2>1, <2>2 DEF NetworkInvariant, LateBindings
  <2> QED
    BY <1>2, <2>1, <2>3
<1> QED
  BY <1>7, <1>8, <1>9, <1>10, <1>11, <1>12

WroteTo(e, p) == wire[e].storedAt > 0 /\ p \in wire[e].ports

LEMMA WritesPortsWhole ==
  ASSUME NetworkInvariant, NEW e \in NetworkCalls, WritesPorts(e),
         \A p \in DOMAIN interface : p \in wire'[e].ports => Upset(interface[p].by, p)',
         \A p \in DOMAIN port : \A c \in NetworkCalls :
           p \in DOMAIN port' /\ WroteTo(e, p) /\ port[p].by = c /\ Added(c) => Upset(c, p)'
  PROVE  Documents' /\ Bound'
<1>1. Advances(e) /\ UNCHANGED interface
  BY DEF WritesPorts
<1>2. /\ \A c \in NetworkCalls : wire[c].readAt \in Nat /\ wire[c].storedAt \in Nat
      /\ \A c \in NetworkCalls : Added(c) => c # e /\ wire'[c] = wire[c] /\ Added(c)'
      /\ \A c, d \in NetworkCalls : \A p : d # e /\ Disturbs(d, c, p) /\ Added(c) => Disturbs(d, c, p)'
  BY <1>1, AdvancesKeeps
<1>3. \A c \in NetworkCalls : Added(c)' => c # e /\ Added(c)
  BY DEF WritesPorts, Advances, Added
<1>4. \A p \in DOMAIN interface : interface[p].by \in NetworkCalls /\ Added(interface[p].by)
  BY NetworkingTypeParts DEF NetworkInvariant, InterfaceRows, Noters, Added
<1>5. \A c \in NetworkCalls : \A p : Disturbs(e, c, p) =>
       WroteTo(e, p) /\ p \in wire'[e].ports
  BY <1>1, <1>2 DEF Advances, Disturbs, WroteTo
<1>6. Documents'
  <2> SUFFICES ASSUME NEW p \in DOMAIN interface, p \notin wire'[e].ports
               PROVE  Agree(p)' \/ Upset(interface[p].by, p)'
    BY <1>1 DEF Documents
  <2>1. CASE Agree(p)
    BY <1>1, <2>1 DEF Agree, WritesPorts
  <2>2. ASSUME NEW d \in NetworkCalls, Disturbs(d, interface[p].by, p)
        PROVE  Upset(interface[p].by, p)'
    BY <1>1, <1>2, <1>4, <1>5, <2>2 DEF Upset
  <2> QED
    BY <2>1, <2>2 DEF NetworkInvariant, Documents, Upset
<1>7. Bound'
  <2> SUFFICES ASSUME NEW p \in DOMAIN port', NEW c \in NetworkCalls, port'[p].by = c, Added(c)'
               PROVE  Agree(p)' \/ Upset(c, p)'
    BY DEF Bound
  <2>1. c # e /\ Added(c)
    BY <1>3
  <2>2. p \in DOMAIN port /\ port'[p] = port[p]
    BY <2>1 DEF WritesPorts
  <2>3. CASE WroteTo(e, p)
    BY <2>1, <2>2, <2>3
  <2>4. CASE ~WroteTo(e, p) /\ Agree(p)
    BY <1>1, <2>2, <2>4 DEF Agree
  <2>5. ASSUME ~WroteTo(e, p), NEW d \in NetworkCalls, Disturbs(d, c, p)
        PROVE  Upset(c, p)'
    BY <1>2, <1>5, <2>1, <2>5 DEF Upset
  <2> QED
    BY <2>1, <2>2, <2>3, <2>4, <2>5 DEF NetworkInvariant, Bound, Upset
<1> QED
  BY <1>6, <1>7

(* Every writer of ports but a removal of interfaces disturbs what it      *)
(* writes.                                                                 *)
LEMMA WritesPortsStep ==
  ASSUME NetworkInvariant, NEW e \in NetworkCalls, WritesPorts(e), NetworkingTypeOK', Stages',
         wire'[e].op # "remove"
  PROVE  NetworkInvariant'
<1>1. Advances(e) /\ UNCHANGED interface
  BY DEF WritesPorts
<1>2. /\ \A c \in NetworkCalls : wire[c].readAt \in Nat /\ wire[c].storedAt \in Nat
      /\ \A c \in NetworkCalls : wire[c].readAt <= writes
      /\ writes \in Nat
      /\ \A c \in NetworkCalls : Added(c) => c # e /\ wire'[c] = wire[c]
  BY <1>1, AdvancesKeeps DEF NetworkInvariant, Stages, Staged
<1>3. ASSUME NEW c \in NetworkCalls, Added(c), NEW p \in wire'[e].ports
      PROVE  Disturbs(e, c, p)'
  <2>1. e # c /\ wire'[c].readAt <= writes /\ wire'[e].storedAt = writes + 1
    BY <1>2, <1>3 DEF WritesPorts
  <2>2. wire'[e].storedAt > wire'[c].readAt
    BY <1>2, <1>3, <2>1
  <2>3. wire'[e].op \notin {"add", "remove"} \/ wire'[e].at \in Halfway
    BY DEF WritesPorts, Halfway
  <2> QED
    BY <2>1, <2>2, <2>3 DEF Disturbs
<1>4. \A p \in DOMAIN interface : interface[p].by \in NetworkCalls /\ Added(interface[p].by)
  BY NetworkingTypeParts DEF NetworkInvariant, InterfaceRows, Noters, Added
<1>5. \A p \in DOMAIN interface : p \in wire'[e].ports => Upset(interface[p].by, p)'
  BY <1>1, <1>3, <1>4 DEF Upset
<1>6. ASSUME NEW p \in DOMAIN port, NEW c \in NetworkCalls,
             p \in DOMAIN port', WroteTo(e, p), port[p].by = c, Added(c)
      PROVE  Upset(c, p)'
  BY <1>1, <1>3, <1>6 DEF Upset, Advances, WroteTo
<1> QED
  BY <1>5, <1>6, WritesPortsParts, WritesPortsWhole DEF NetworkInvariant

(* A removal takes the ports of the documents it has removed, or all that  *)
(* are bound to its router and have its subnet.                            *)
LEMMA RemovePortStep ==
  ASSUME NetworkInvariant, NEW e \in NetworkCalls, WritesPorts(e), NetworkingTypeOK', Stages',
         wire[e].at = "unbind", wire'[e].at = "done", wire'[e].ports = wire[e].ports,
         wire'[e].readAt = wire[e].readAt, DOMAIN port' \cap wire[e].ports = {}
  PROVE  NetworkInvariant'
<1>1. Advances(e) /\ UNCHANGED interface /\ wire'[e].storedAt = writes + 1
  BY DEF WritesPorts
<1>2. /\ \A c \in NetworkCalls : wire[c].readAt \in Nat /\ wire[c].storedAt \in Nat
      /\ \A c \in NetworkCalls : wire[c].readAt <= writes
      /\ writes \in Nat
      /\ \A c \in NetworkCalls : Added(c) => c # e /\ wire'[c] = wire[c]
  BY <1>1, AdvancesKeeps DEF NetworkInvariant, Stages, Staged
<1>3. \A p \in DOMAIN interface : interface[p].by \in NetworkCalls /\ Added(interface[p].by)
  BY NetworkingTypeParts DEF NetworkInvariant, InterfaceRows, Noters, Added
<1>4. ASSUME NEW p \in DOMAIN interface, p \in wire'[e].ports
      PROVE  Upset(interface[p].by, p)'
  <2> DEFINE c == interface[p].by
  <2>1. c \in NetworkCalls /\ Added(c) /\ c # e /\ wire'[c] = wire[c]
    BY <1>2, <1>3
  <2>2. wire[c].storedAt > wire[e].readAt
    BY <1>4 DEF NetworkInvariant, LateNotes, Unseen
  <2>3. wire'[e].storedAt > wire'[c].readAt
    BY <1>1, <1>2, <2>1
  <2>4. Disturbs(e, c, p)'
    BY <1>1, <1>4, <2>1, <2>2, <2>3 DEF Disturbs
  <2> QED
    BY <1>1, <2>4 DEF Upset
<1>5. \A p \in DOMAIN port' : ~WroteTo(e, p)
  BY DEF WroteTo
<1> QED
  BY <1>4, <1>5, WritesPortsParts, WritesPortsWhole DEF NetworkInvariant

LEMMA RemovePortsStep ==
  ASSUME NetworkInvariant, NEW e \in NetworkCalls, WritesPorts(e), NetworkingTypeOK', Stages',
         wire[e].at = "unbind all", wire'[e].op = "remove",
         wire'[e].ports = wire[e].ports \cup BoundTo(wire[e].router, wire[e].subnet),
         wire'[e].subnet = wire[e].subnet, wire'[e].readAt = wire[e].readAt
  PROVE  NetworkInvariant'
<1>1. Advances(e) /\ UNCHANGED interface /\ wire'[e].storedAt = writes + 1
  BY DEF WritesPorts
<1>2. /\ \A c \in NetworkCalls : wire[c].readAt \in Nat /\ wire[c].storedAt \in Nat
      /\ \A c \in NetworkCalls : wire[c].readAt <= writes
      /\ writes \in Nat
      /\ \A c \in NetworkCalls : Added(c) => c # e /\ wire'[c] = wire[c]
      /\ \A c, d \in NetworkCalls : \A p : d # e /\ Disturbs(d, c, p) /\ Added(c) => Disturbs(d, c, p)'
      /\ \A c, d \in NetworkCalls : \A p : Crosses(d, c, p) /\ Added(c) => Crosses(d, c, p)'
  BY <1>1, AdvancesKeeps DEF NetworkInvariant, Stages, Staged
<1>3. \A p \in DOMAIN interface : interface[p].by \in NetworkCalls /\ Added(interface[p].by)
  BY NetworkingTypeParts DEF NetworkInvariant, InterfaceRows, Noters, Added
<1>4. ASSUME NEW c \in NetworkCalls, Added(c), NEW p \in wire'[e].ports,
             \/ wire[c].storedAt > wire[e].readAt
             \/ wire[e].subnet \notin {0, wire[c].subnet}
      PROVE  Upset(c, p)'
  <2>1. /\ c # e /\ wire'[c] = wire[c]
        /\ wire[c].readAt \in Nat /\ wire[c].readAt <= writes /\ writes \in Nat
    BY <1>2, <1>4
  <2>2. wire'[e].storedAt > wire'[c].readAt
    <3>1. writes + 1 > wire[c].readAt
      BY <2>1, NextIsLater
    <3>2. wire'[e].storedAt = writes + 1 /\ wire'[c].readAt = wire[c].readAt
      BY <1>1, <2>1
    <3> QED
      BY <3>1, <3>2
  <2>3. Disturbs(e, c, p)'
    BY <1>4, <2>1, <2>2 DEF Disturbs
  <2> QED
    BY <2>3 DEF Upset
<1>5. ASSUME NEW p \in DOMAIN interface, p \in wire'[e].ports
      PROVE  Upset(interface[p].by, p)'
  <2> DEFINE c == interface[p].by
  <2>1. c \in NetworkCalls /\ Added(c)
    BY <1>3
  <2>2. CASE Unseen(e, p)
    <3>1. wire[c].storedAt > wire[e].readAt
      BY <2>2 DEF NetworkInvariant, LateNotes
    <3> QED
      BY <1>1, <1>4, <1>5, <2>1, <3>1
  <2>3. CASE interface[p].router = wire[e].router /\ interface[p].subnet # wire[e].subnet
    <3>1. wire[c].subnet = interface[p].subnet
      BY <2>1 DEF NetworkInvariant, Noters
    <3>2. wire[e].subnet \in Subnets /\ 0 \notin Subnets
      BY NetworkingAssumption DEF NetworkInvariant, Stages, Staged
    <3> QED
      BY <1>1, <1>4, <1>5, <2>1, <2>3, <3>1, <3>2
  <2>4. CASE ~Unseen(e, p) /\ interface[p].router # wire[e].router
    <3>1. p \notin wire[e].ports /\ p \in BoundTo(wire[e].router, wire[e].subnet)
      BY <1>5, <2>4 DEF Unseen
    <3>2. ~Agree(p)
      BY <2>4, <3>1 DEF Agree, BoundTo
    <3>3. PICK d \in NetworkCalls : Disturbs(d, c, p)
      BY <1>5, <3>2 DEF NetworkInvariant, Documents, Upset
    <3>4. d # e
      BY <3>1, <3>3 DEF Disturbs
    <3> QED
      BY <1>1, <1>2, <2>1, <3>3, <3>4 DEF Upset
  <2> QED
    BY <2>2, <2>3, <2>4 DEF Unseen
<1>6. ASSUME NEW p \in DOMAIN port, NEW c \in NetworkCalls,
             p \in DOMAIN port', WroteTo(e, p), port[p].by = c, Added(c)
      PROVE  Upset(c, p)'
  <2>1. CASE wire[c].storedAt > wire[e].readAt
    BY <1>4, <1>6, <2>1 DEF WroteTo
  <2>2. ASSUME NEW f \in NetworkCalls, f # e, Crosses(f, c, p)
        PROVE  Upset(c, p)'
    <3>1. Disturbs(f, c, p)
      BY <2>2 DEF Crosses, Disturbs
    <3> QED
      BY <1>2, <1>6, <2>2, <3>1 DEF Upset
  <2> QED
    BY <1>6, <2>1, <2>2 DEF NetworkInvariant, LateBindings, WroteTo
<1> QED
  BY <1>5, <1>6, WritesPortsParts, WritesPortsWhole DEF NetworkInvariant

(* An addition notes the port it has bound.                                *)
Notes(e, p) ==
  /\ Advances(e) /\ UNCHANGED port
  /\ p \in wire[e].ports /\ wire[e].at = "note" /\ wire'[e].at = "done"
  /\ wire'[e].op = wire[e].op /\ wire'[e].router = wire[e].router
  /\ wire'[e].subnet = wire[e].subnet /\ wire'[e].ports = wire[e].ports
  /\ wire'[e].readAt = wire[e].readAt /\ wire'[e].storedAt = writes + 1
  /\ interface' = With(interface, p, [router |-> wire[e].router, subnet |-> wire[e].subnet,
                                      by |-> e])

LEMMA NotesStep ==
  ASSUME NetworkInvariant, NEW e \in NetworkCalls, NEW p, Notes(e, p), NetworkingTypeOK', Stages'
  PROVE  NetworkInvariant'
<1>1. Advances(e) /\ UNCHANGED port /\ wire[e].op = "add" /\ wire'[e].storedAt = writes + 1
  BY DEF Notes, NetworkInvariant, Stages, Staged
<1>2. /\ \A c \in NetworkCalls : wire[c].readAt \in Nat /\ wire[c].storedAt \in Nat
      /\ \A c \in NetworkCalls : wire[c].readAt <= writes /\ wire[c].storedAt <= writes
      /\ \A c \in NetworkCalls : wire'[c].readAt \in Nat /\ wire'[c].storedAt \in Nat
      /\ writes \in Nat
  BY <1>1, AdvancesKeeps DEF NetworkInvariant, Stages, Staged
<1>3. /\ \A c \in NetworkCalls : Added(c) => c # e /\ wire'[c] = wire[c] /\ Added(c)'
      /\ \A c, d \in NetworkCalls : \A q : d # e /\ Disturbs(d, c, q) /\ Added(c) => Disturbs(d, c, q)'
      /\ \A c, d \in NetworkCalls : \A q : Crosses(d, c, q) /\ Added(c) => Crosses(d, c, q)'
  BY <1>1, AdvancesKeeps
<1>4. /\ \A c \in NetworkCalls : c # e => wire'[c] = wire[c] /\ Added(c)' = Added(c)
      /\ \A c \in NetworkCalls : wire'[c].storedAt >= wire[c].storedAt
      /\ \A c \in NetworkCalls : wire'[c].ports = wire[c].ports /\ wire'[c].op = wire[c].op
                                 /\ wire'[c].router = wire[c].router /\ wire'[c].readAt = wire[c].readAt
  BY <1>1, <1>2 DEF Advances, Added, Notes
<1>5. p \in wire[e].ports /\ wire'[e].ports = wire[e].ports /\ \A q \in wire[e].ports : q = p
  BY <1>1 DEF Notes, NetworkInvariant, Stages, Staged
<1>6. /\ p \in DOMAIN interface' /\ interface'[p].by = e
      /\ interface'[p].router = wire[e].router /\ interface'[p].subnet = wire[e].subnet
      /\ \A q \in DOMAIN interface' : q # p => q \in DOMAIN interface /\ interface'[q] = interface[q]
      /\ \A q \in DOMAIN interface : q \in DOMAIN interface'
  BY DEF Notes, With
<1>7. \A q \in DOMAIN interface : interface[q].by \in NetworkCalls /\ Added(interface[q].by)
  BY NetworkingTypeParts DEF NetworkInvariant, InterfaceRows, Noters, Added
<1>8. Binders'
  <2> SUFFICES ASSUME NEW q \in DOMAIN port, NEW c \in NetworkCalls, port[q].by = c
               PROVE  /\ q \in wire'[c].ports /\ wire'[c].storedAt > 0
                      /\ wire'[c].op = "add" => /\ port[q].owner = "router"
                                                /\ port[q].device = wire'[c].router
    BY <1>1 DEF Binders
  <2>1. /\ q \in wire[c].ports /\ wire[c].storedAt > 0
        /\ wire[c].op = "add" => port[q].owner = "router" /\ port[q].device = wire[c].router
    BY DEF NetworkInvariant, Binders
  <2> QED
    BY <1>2, <1>4, <2>1
<1>9. Noters'
  <2> SUFFICES ASSUME NEW q \in DOMAIN interface', NEW c \in NetworkCalls, interface'[q].by = c
               PROVE  /\ wire'[c].op = "add" /\ wire'[c].at = "done" /\ q \in wire'[c].ports
                      /\ interface'[q].router = wire'[c].router
                      /\ interface'[q].subnet = wire'[c].subnet
    BY DEF Noters
  <2>1. CASE q = p
    BY <1>1, <1>5, <1>6, <2>1 DEF Notes
  <2>2. CASE q # p
    <3>1. q \in DOMAIN interface /\ interface'[q] = interface[q]
      BY <1>6, <2>2
    <3>2. wire'[c] = wire[c]
      BY <1>3, <1>7, <3>1
    <3> QED
      BY <3>1, <3>2 DEF NetworkInvariant, Noters
  <2> QED
    BY <2>1, <2>2
<1>10. LastWriters'
  <2> SUFFICES ASSUME NEW c \in NetworkCalls, NEW q \in wire'[c].ports
               PROVE  /\ Added(c)' /\ q \in DOMAIN interface' =>
                           wire'[interface'[q].by].storedAt >= wire'[c].storedAt
                      /\ (Added(c)' \/ wire'[c].at = "note") /\ q \in DOMAIN port =>
                           /\ port[q].by \in NetworkCalls
                           /\ wire'[port[q].by].storedAt > wire'[c].readAt
    BY <1>1 DEF LastWriters
  <2>1. ASSUME Added(c)', q \in DOMAIN interface', q = p
        PROVE  wire'[interface'[q].by].storedAt >= wire'[c].storedAt
    <3>1. c # e => wire'[c].storedAt <= writes
      BY <1>2, <1>4
    <3> QED
      BY <1>1, <1>2, <1>6, <2>1, <3>1
  <2>2. ASSUME Added(c)', q \in DOMAIN interface', q # p
        PROVE  wire'[interface'[q].by].storedAt >= wire'[c].storedAt
    <3>1. c # e /\ q \in wire[c].ports
      BY <1>4, <1>5, <2>2
    <3>2. Added(c) /\ wire'[c] = wire[c] /\ q \in DOMAIN interface /\ interface'[q] = interface[q]
      BY <1>4, <1>6, <2>2, <3>1
    <3> QED
      BY <1>3, <1>7, <3>1, <3>2 DEF NetworkInvariant, LastWriters
  <2>3. ASSUME Added(c)' \/ wire'[c].at = "note", q \in DOMAIN port
        PROVE  port[q].by \in NetworkCalls /\ wire'[port[q].by].storedAt > wire'[c].readAt
    <3>1. (Added(c) \/ wire[c].at = "note") /\ q \in wire[c].ports
      BY <1>4, <2>3 DEF Notes
    <3>2. port[q].by \in NetworkCalls /\ wire[port[q].by].storedAt > wire[c].readAt
      BY <2>3, <3>1 DEF NetworkInvariant, LastWriters
    <3> QED
      BY <1>2, <1>4, <3>2
  <2> QED
    BY <2>1, <2>2, <2>3
<1>11. Taken'
  <2> SUFFICES ASSUME NEW c \in NetworkCalls, NEW q \in wire'[c].ports,
                      wire'[c].at \in {"bind", "note"}, q \notin DOMAIN port
               PROVE  \E d \in NetworkCalls : d # c /\ q \in wire'[d].ports
                                             /\ wire'[d].storedAt > wire'[c].readAt
    BY <1>1 DEF Taken
  <2>1. c # e
    BY DEF Notes
  <2>2. PICK d \in NetworkCalls : d # c /\ q \in wire[d].ports /\ wire[d].storedAt > wire[c].readAt
    BY <1>4, <2>1 DEF NetworkInvariant, Taken
  <2> QED
    BY <1>2, <1>4, <2>2
<1>12. LateNotes'
  <2> SUFFICES ASSUME NEW c \in NetworkCalls, NEW q \in DOMAIN interface', Unseen(c, q)'
               PROVE  wire'[interface'[q].by].storedAt > wire'[c].readAt
    BY DEF LateNotes
  <2>1. c # e
    BY DEF Notes, Unseen
  <2>2. CASE q = p
    BY <1>1, <1>2, <1>4, <1>6, <2>2
  <2>3. CASE q # p
    <3>1. q \in DOMAIN interface /\ interface'[q] = interface[q]
      BY <1>6, <2>3
    <3>2. Unseen(c, q)
      BY <1>4, <2>1, <3>1 DEF Unseen
    <3> QED
      BY <1>3, <1>4, <1>7, <3>1, <3>2 DEF NetworkInvariant, LateNotes
  <2> QED
    BY <2>2, <2>3
<1>13. LateBindings'
  <2> SUFFICES ASSUME NEW d \in NetworkCalls, NEW c \in NetworkCalls, NEW q \in DOMAIN port,
                      wire'[d].at = "unbind all", q \in wire'[d].ports, port[q].by = c, Added(c)'
               PROVE  \/ wire'[c].storedAt > wire'[d].readAt
                      \/ \E f \in NetworkCalls : f # d /\ Crosses(f, c, q)'
    BY <1>1 DEF LateBindings
  <2>1. d # e /\ wire'[d] = wire[d]
    BY <1>4 DEF Notes
  <2>2. CASE c = e
    <3>1. wire'[d].readAt <= writes /\ wire'[d].readAt \in Nat /\ writes \in Nat
      BY <1>2, <2>1
    <3> QED
      BY <1>1, <2>2, <3>1, NextIsLater
  <2>3. CASE c # e
    <3>1. Added(c)
      BY <1>4, <2>3
    <3>2. \/ wire[c].storedAt > wire[d].readAt
          \/ \E f \in NetworkCalls : f # d /\ Crosses(f, c, q)
      BY <2>1, <3>1 DEF NetworkInvariant, LateBindings
    <3> QED
      BY <1>3, <2>1, <3>1, <3>2
  <2> QED
    BY <2>2, <2>3
<1>14. ASSUME p \in DOMAIN port, port[p].by = e PROVE Agree(p)'
  <2>1. port[p].owner = "router" /\ port[p].device = wire[e].router
    BY <1>1, <1>14 DEF NetworkInvariant, Binders
  <2> QED
    BY <1>1, <1>6, <1>14, <2>1 DEF Agree
<1>15. ASSUME NEW d \in NetworkCalls, d # e, p \in wire[d].ports, wire[d].storedAt > wire[e].readAt
       PROVE  Upset(e, p)'
  <2>1. wire'[d] = wire[d] /\ wire'[e].readAt = wire[e].readAt /\ wire[d].readAt < wire'[e].storedAt
    BY <1>1, <1>2, <1>4, <1>15
  <2>2. Disturbs(d, e, p)'
    BY <1>15, <2>1 DEF Disturbs
  <2> QED
    BY <2>2 DEF Upset
<1>16. Agree(p)' \/ Upset(e, p)'
  <2>1. CASE p \in DOMAIN port
    <3>1. port[p].by \in NetworkCalls /\ wire[port[p].by].storedAt > wire[e].readAt
      BY <1>5, <2>1 DEF NetworkInvariant, LastWriters, Notes
    <3>2. p \in wire[port[p].by].ports
      BY <2>1, <3>1 DEF NetworkInvariant, Binders
    <3> QED
      BY <1>14, <1>15, <2>1, <3>1, <3>2
  <2>2. CASE p \notin DOMAIN port
    <3>1. PICK d \in NetworkCalls : d # e /\ p \in wire[d].ports /\ wire[d].storedAt > wire[e].readAt
      BY <1>5, <2>2 DEF NetworkInvariant, Taken, Notes
    <3> QED
      BY <1>15, <3>1
  <2> QED
    BY <2>1, <2>2
<1>17. ASSUME NEW c \in NetworkCalls, Added(c), NEW q, q # p, Agree(q) \/ Upset(c, q)
       PROVE  Agree(q)' \/ Upset(c, q)'
  <2>1. CASE Agree(q)
    <3>1. interface'[q] = interface[q] /\ q \in DOMAIN interface'
      BY <1>6, <1>17, <2>1 DEF Agree
    <3> QED
      BY <1>1, <2>1, <3>1 DEF Agree
  <2>2. ASSUME NEW d \in NetworkCalls, Disturbs(d, c, q) PROVE Upset(c, q)'
    <3>1. d # e
      BY <1>5, <1>17, <2>2 DEF Disturbs
    <3> QED
      BY <1>3, <1>17, <2>2, <3>1 DEF Upset
  <2> QED
    BY <1>17, <2>1, <2>2 DEF Upset
<1>18. ASSUME NEW q \in DOMAIN interface', NEW c \in NetworkCalls, interface'[q].by = c
       PROVE  Agree(q)' \/ Upset(c, q)'
  <2>1. CASE q = p
    BY <1>6, <1>16, <1>18, <2>1
  <2>2. CASE q # p
    <3>1. q \in DOMAIN interface /\ interface'[q] = interface[q] /\ interface[q].by = c
      BY <1>6, <1>18, <2>2
    <3>2. Agree(q) \/ Upset(c, q)
      BY <3>1 DEF NetworkInvariant, Documents, Upset
    <3>3. Added(c)
      BY <1>7, <3>1
    <3> QED
      BY <1>17, <2>2, <3>2, <3>3
  <2> QED
    BY <2>1, <2>2
<1>20. Documents'
  <2>1. \A q \in DOMAIN interface' : interface'[q].by \in NetworkCalls
    BY <1>6, <1>7
  <2> QED
    BY <1>18, <2>1 DEF Documents, Upset, Disturbs
<1>19. Bound'
  <2> SUFFICES ASSUME NEW q \in DOMAIN port, NEW c \in NetworkCalls, port[q].by = c, Added(c)'
               PROVE  Agree(q)' \/ Upset(c, q)'
    BY <1>1 DEF Bound
  <2>1. q \in wire[c].ports
    BY DEF NetworkInvariant, Binders
  <2>2. CASE c = e
    BY <1>5, <1>14, <2>1, <2>2
  <2>3. CASE c # e /\ q # p
    <3>1. Added(c)
      BY <1>4, <2>3
    <3>2. Agree(q) \/ Upset(c, q)
      BY <3>1 DEF NetworkInvariant, Bound
    <3> QED
      BY <1>17, <2>3, <3>1, <3>2
  <2>4. CASE c # e /\ q = p
    <3>1. wire[c].storedAt > wire[e].readAt
      BY <1>5, <2>4 DEF NetworkInvariant, LastWriters, Notes
    <3>2. wire'[c] = wire[c] /\ wire'[e].readAt = wire[e].readAt
      BY <1>4, <2>4
    <3>3. wire'[e].storedAt > wire'[c].readAt
      BY <1>1, <1>2, <3>2
    <3>4. Disturbs(e, c, p)'
      BY <1>5, <2>4, <3>1, <3>2, <3>3 DEF Disturbs
    <3> QED
      BY <2>4, <3>4 DEF Upset
  <2> QED
    BY <2>2, <2>3, <2>4
<1> QED
  BY <1>8, <1>9, <1>10, <1>11, <1>12, <1>13, <1>19, <1>20 DEF NetworkInvariant

(* A removal takes documents: one, or all that say its router and subnet.  *)
Unnotes(e) ==
  /\ Advances(e) /\ UNCHANGED port
  /\ wire[e].at \in {"unnote", "unnote all"} /\ wire'[e].at \in {"unbind", "unbind all"}
  /\ wire'[e].readAt = wire[e].readAt /\ wire'[e].storedAt = writes + 1
  /\ wire'[e].router = wire[e].router /\ wire'[e].subnet = wire[e].subnet
  /\ wire'[e].at = "unbind all" => /\ wire[e].at = "unnote all"
                                   /\ wire'[e].ports = Noted(wire[e].router, wire[e].subnet)
  /\ interface' = Without(interface, wire'[e].ports)

LEMMA UnnotesStep ==
  ASSUME NetworkInvariant, NEW e \in NetworkCalls, Unnotes(e), NetworkingTypeOK', Stages'
  PROVE  NetworkInvariant'
<1>1. Advances(e) /\ UNCHANGED port /\ wire[e].storedAt = 0 /\ wire'[e].storedAt = writes + 1
  BY DEF Unnotes, NetworkInvariant, Stages, Staged
<1>2. /\ \A c \in NetworkCalls : wire[c].readAt \in Nat /\ wire[c].storedAt \in Nat
      /\ \A c \in NetworkCalls : wire[c].readAt <= writes
      /\ \A c \in NetworkCalls : wire'[c].readAt \in Nat /\ wire'[c].storedAt \in Nat
      /\ writes \in Nat
  BY <1>1, AdvancesKeeps DEF NetworkInvariant, Stages, Staged
<1>3. /\ \A c \in NetworkCalls : Added(c) => c # e /\ wire'[c] = wire[c] /\ Added(c)'
      /\ \A c, d \in NetworkCalls : \A q : d # e /\ Disturbs(d, c, q) /\ Added(c) => Disturbs(d, c, q)'
      /\ \A c, d \in NetworkCalls : \A q : Crosses(d, c, q) /\ Added(c) => Crosses(d, c, q)'
  BY <1>1, AdvancesKeeps
<1>4. /\ \A c \in NetworkCalls : c # e => wire'[c] = wire[c]
      /\ \A c \in NetworkCalls : wire[c].storedAt > 0 => c # e
      /\ \A c \in NetworkCalls : Added(c)' => c # e /\ Added(c)
  <2>1. \A c \in NetworkCalls : c # e => wire'[c] = wire[c]
    BY <1>1 DEF Advances
  <2>2. \A c \in NetworkCalls : wire[c].storedAt > 0 => c # e
    BY <1>1
  <2>3. \A c \in NetworkCalls : Added(c)' => c # e
    BY DEF Added, Unnotes
  <2> QED
    BY <2>1, <2>2, <2>3 DEF Added
<1>5. \A q : q \in DOMAIN interface' <=> q \in DOMAIN interface /\ q \notin wire'[e].ports
  BY DEF Unnotes, Without
<1>6. \A q \in DOMAIN interface' : interface'[q] = interface[q]
  BY DEF Unnotes, Without
<1>7. \A q \in DOMAIN interface : interface[q].by \in NetworkCalls /\ Added(interface[q].by)
  BY NetworkingTypeParts DEF NetworkInvariant, InterfaceRows, Noters, Added
<1>8. Binders'
  <2> SUFFICES ASSUME NEW q \in DOMAIN port, NEW c \in NetworkCalls, port[q].by = c
               PROVE  /\ q \in wire'[c].ports /\ wire'[c].storedAt > 0
                      /\ wire'[c].op = "add" => /\ port[q].owner = "router"
                                                /\ port[q].device = wire'[c].router
    BY <1>1 DEF Binders
  <2>1. /\ q \in wire[c].ports /\ wire[c].storedAt > 0
        /\ wire[c].op = "add" => port[q].owner = "router" /\ port[q].device = wire[c].router
    BY DEF NetworkInvariant, Binders
  <2> QED
    BY <1>4, <2>1
<1>9. Noters'
  <2> SUFFICES ASSUME NEW q \in DOMAIN interface', NEW c \in NetworkCalls, interface'[q].by = c
               PROVE  /\ wire'[c].op = "add" /\ wire'[c].at = "done" /\ q \in wire'[c].ports
                      /\ interface'[q].router = wire'[c].router
                      /\ interface'[q].subnet = wire'[c].subnet
    BY DEF Noters
  <2>1. q \in DOMAIN interface /\ interface'[q] = interface[q]
    BY <1>5, <1>6
  <2>2. wire'[c] = wire[c]
    BY <1>3, <1>7, <2>1
  <2> QED
    BY <2>1, <2>2 DEF NetworkInvariant, Noters
<1>10. LastWriters'
  <2> SUFFICES ASSUME NEW c \in NetworkCalls, NEW q \in wire'[c].ports
               PROVE  /\ Added(c)' /\ q \in DOMAIN interface' =>
                           wire'[interface'[q].by].storedAt >= wire'[c].storedAt
                      /\ (Added(c)' \/ wire'[c].at = "note") /\ q \in DOMAIN port =>
                           /\ port[q].by \in NetworkCalls
                           /\ wire'[port[q].by].storedAt > wire'[c].readAt
    BY <1>1 DEF LastWriters
  <2>1. ASSUME Added(c)', q \in DOMAIN interface'
        PROVE  wire'[interface'[q].by].storedAt >= wire'[c].storedAt
    <3>1. c # e /\ Added(c) /\ wire'[c] = wire[c] /\ q \in DOMAIN interface /\ interface'[q] = interface[q]
      BY <1>4, <1>5, <1>6, <2>1
    <3> QED
      BY <1>3, <1>7, <3>1 DEF NetworkInvariant, LastWriters
  <2>2. ASSUME Added(c)' \/ wire'[c].at = "note", q \in DOMAIN port
        PROVE  port[q].by \in NetworkCalls /\ wire'[port[q].by].storedAt > wire'[c].readAt
    <3>1. c # e /\ wire'[c] = wire[c] /\ (Added(c) \/ wire[c].at = "note")
      BY <1>4, <2>2 DEF Unnotes
    <3>2. port[q].by \in NetworkCalls /\ wire[port[q].by].storedAt > wire[c].readAt
      BY <2>2, <3>1 DEF NetworkInvariant, LastWriters
    <3> QED
      BY <1>2, <1>4, <3>1, <3>2
  <2> QED
    BY <2>1, <2>2
<1>11. Taken'
  <2> SUFFICES ASSUME NEW c \in NetworkCalls, NEW q \in wire'[c].ports,
                      wire'[c].at \in {"bind", "note"}, q \notin DOMAIN port
               PROVE  \E d \in NetworkCalls : d # c /\ q \in wire'[d].ports
                                             /\ wire'[d].storedAt > wire'[c].readAt
    BY <1>1 DEF Taken
  <2>1. c # e /\ wire'[c] = wire[c]
    BY <1>4 DEF Unnotes
  <2>2. PICK d \in NetworkCalls : d # c /\ q \in wire[d].ports /\ wire[d].storedAt > wire[c].readAt
    BY <2>1 DEF NetworkInvariant, Taken
  <2> QED
    BY <1>2, <1>4, <2>1, <2>2
<1>12. LateNotes'
  <2> SUFFICES ASSUME NEW c \in NetworkCalls, NEW q \in DOMAIN interface', Unseen(c, q)'
               PROVE  wire'[interface'[q].by].storedAt > wire'[c].readAt
    BY DEF LateNotes
  <2>1. q \in DOMAIN interface /\ q \notin wire'[e].ports /\ interface'[q] = interface[q]
    BY <1>5, <1>6
  <2>2. c # e
    <3> SUFFICES ASSUME c = e PROVE FALSE
      OBVIOUS
    <3>1. /\ wire'[e].at = "unbind all"
          /\ interface[q].router = wire[e].router /\ interface[q].subnet = wire[e].subnet
      BY <2>1 DEF Unnotes, Unseen
    <3>2. q \in Noted(wire[e].router, wire[e].subnet)
      BY <2>1, <3>1 DEF Noted
    <3> QED
      BY <2>1, <3>1, <3>2 DEF Unnotes
  <2>3. Unseen(c, q)
    BY <1>4, <2>1, <2>2 DEF Unseen
  <2> QED
    BY <1>3, <1>4, <1>7, <2>1, <2>2, <2>3 DEF NetworkInvariant, LateNotes
<1>13. ASSUME NEW c \in NetworkCalls, NEW q \in DOMAIN port, wire'[e].at = "unbind all",
              q \in wire'[e].ports, port[q].by = c, Added(c)
       PROVE  \/ wire'[c].storedAt > wire'[e].readAt
              \/ \E f \in NetworkCalls : f # e /\ Crosses(f, c, q)'
  <2>1. q \in DOMAIN interface /\ Unseen(e, q)
    BY <1>13 DEF Unnotes, Unseen, Noted
  <2>2. PICK f \in NetworkCalls : f = interface[q].by /\ Added(f) /\ f # e /\ wire'[f] = wire[f]
    BY <1>3, <1>7, <2>1
  <2>3. wire[f].storedAt > wire[e].readAt /\ q \in wire[f].ports
    BY <2>1, <2>2 DEF NetworkInvariant, LateNotes, Noters
  <2>4. CASE f = c
    BY <1>3, <1>13, <2>3, <2>4 DEF Unnotes
  <2>5. CASE f # c
    <3>1. q \in wire[c].ports
      BY <1>13 DEF NetworkInvariant, Binders
    <3>2. wire[f].storedAt >= wire[c].storedAt
      BY <1>13, <2>1, <2>2, <3>1 DEF NetworkInvariant, LastWriters
    <3>3. wire[c].storedAt > wire[f].readAt
      BY <1>13, <2>2, <2>3 DEF NetworkInvariant, LastWriters
    <3>4. wire[c].storedAt > wire[c].readAt
      BY <1>13 DEF NetworkInvariant, Stages, Staged, Added
    <3>5. wire[f].storedAt > wire[c].readAt
      BY <1>2, <3>2, <3>4
    <3>6. Crosses(f, c, q)
      BY <2>3, <2>5, <3>3, <3>5 DEF Crosses
    <3> QED
      BY <1>3, <1>13, <2>2, <3>6
  <2> QED
    BY <2>4, <2>5
<1>14. LateBindings'
  <2> SUFFICES ASSUME NEW d \in NetworkCalls, NEW c \in NetworkCalls, NEW q \in DOMAIN port,
                      wire'[d].at = "unbind all", q \in wire'[d].ports, port[q].by = c, Added(c)'
               PROVE  \/ wire'[c].storedAt > wire'[d].readAt
                      \/ \E f \in NetworkCalls : f # d /\ Crosses(f, c, q)'
    BY <1>1 DEF LateBindings
  <2>1. Added(c)
    BY <1>4
  <2>2. CASE d = e
    BY <1>13, <2>1, <2>2
  <2>3. CASE d # e
    <3>1. wire'[d] = wire[d]
      BY <1>4, <2>3
    <3>2. \/ wire[c].storedAt > wire[d].readAt
          \/ \E f \in NetworkCalls : f # d /\ Crosses(f, c, q)
      BY <2>1, <3>1 DEF NetworkInvariant, LateBindings
    <3> QED
      BY <1>3, <2>1, <3>1, <3>2
  <2> QED
    BY <2>2, <2>3
<1>15. ASSUME NEW c \in NetworkCalls, Added(c), NEW q, q \notin wire'[e].ports,
              Agree(q) \/ Upset(c, q)
       PROVE  Agree(q)' \/ Upset(c, q)'
  <2>1. CASE Agree(q)
    <3>1. q \in DOMAIN interface' /\ interface'[q] = interface[q]
      BY <1>5, <1>6, <1>15, <2>1 DEF Agree
    <3> QED
      BY <1>1, <2>1, <3>1 DEF Agree
  <2>2. ASSUME NEW d \in NetworkCalls, Disturbs(d, c, q) PROVE Upset(c, q)'
    <3>1. d # e
      BY <1>2, <1>4, <2>2 DEF Disturbs
    <3> QED
      BY <1>3, <1>15, <2>2, <3>1 DEF Upset
  <2> QED
    BY <1>15, <2>1, <2>2 DEF Upset
<1>16. Documents'
  <2>1. ASSUME NEW q \in DOMAIN interface', NEW c \in NetworkCalls, interface'[q].by = c
        PROVE  Agree(q)' \/ Upset(c, q)'
    <3>1. q \in DOMAIN interface /\ q \notin wire'[e].ports /\ interface[q].by = c
      BY <1>5, <1>6, <2>1
    <3>2. Agree(q) \/ Upset(c, q)
      BY <3>1 DEF NetworkInvariant, Documents, Upset
    <3> QED
      BY <1>7, <1>15, <3>1, <3>2
  <2>2. \A q \in DOMAIN interface' : interface'[q].by \in NetworkCalls
    BY <1>5, <1>6, <1>7
  <2> QED
    BY <2>1, <2>2 DEF Documents, Upset, Disturbs
<1>17. Bound'
  <2> SUFFICES ASSUME NEW q \in DOMAIN port, NEW c \in NetworkCalls, port[q].by = c, Added(c)'
               PROVE  Agree(q)' \/ Upset(c, q)'
    BY <1>1 DEF Bound
  <2>1. c # e /\ Added(c) /\ wire'[c] = wire[c] /\ wire[c].readAt \in Nat /\ wire[c].readAt <= writes
    BY <1>2, <1>4
  <2>2. CASE q \in wire'[e].ports
    <3>1. wire'[e].storedAt > wire'[c].readAt
      BY <1>1, <1>2, <2>1, NextIsLater
    <3>2. Disturbs(e, c, q)'
      BY <2>1, <2>2, <3>1 DEF Disturbs, Halfway, Unnotes
    <3> QED
      BY <3>2 DEF Upset
  <2>3. CASE q \notin wire'[e].ports
    <3>1. Agree(q) \/ Upset(c, q)
      BY <2>1 DEF NetworkInvariant, Bound
    <3> QED
      BY <1>15, <2>1, <2>3, <3>1
  <2> QED
    BY <2>2, <2>3
<1> QED
  BY <1>8, <1>9, <1>10, <1>11, <1>12, <1>14, <1>16, <1>17 DEF NetworkInvariant

-----------------------------------------------------------------------------
(* Each action is a step of one of these kinds.                            *)
Kind(e) ==
  \/ Passes(e)
  \/ WritesPorts(e) /\ wire'[e].op # "remove"
  \/ /\ WritesPorts(e) /\ wire[e].at = "unbind" /\ wire'[e].at = "done"
     /\ wire'[e].ports = wire[e].ports /\ wire'[e].readAt = wire[e].readAt
     /\ DOMAIN port' \cap wire[e].ports = {}
  \/ /\ WritesPorts(e) /\ wire[e].at = "unbind all" /\ wire'[e].op = "remove"
     /\ wire'[e].ports = wire[e].ports \cup BoundTo(wire[e].router, wire[e].subnet)
     /\ wire'[e].subnet = wire[e].subnet /\ wire'[e].readAt = wire[e].readAt
  \/ \E p : Notes(e, p)
  \/ Unnotes(e)

LEMMA KindStep ==
  ASSUME NetworkInvariant, NEW e \in NetworkCalls, Kind(e), NetworkingTypeOK', Stages'
  PROVE  NetworkInvariant'
BY PassesStep, WritesPortsStep, RemovePortStep, RemovePortsStep, NotesStep, UnnotesStep DEF Kind

(* What an action owes beside its kind.                                    *)
Sound(e) == Kind(e) /\ NetworkingTypeOK' /\ Stages'

LEMMA StagesStep ==
  ASSUME NetworkInvariant, NEW e \in NetworkCalls, Advances(e), Staged(e)'
  PROVE  Stages'
<1> SUFFICES ASSUME NEW c \in NetworkCalls, c # e PROVE Staged(c)'
  BY DEF Stages
<1>1. wire[c].readAt \in Nat /\ wire[c].storedAt \in Nat /\ writes \in Nat /\ writes' >= writes
      /\ writes' \in Nat
  BY AdvancesKeeps
<1>2. Staged(c) /\ wire'[c] = wire[c]
  BY DEF NetworkInvariant, Stages, Advances
<1>3. wire[c].readAt <= writes' /\ wire[c].storedAt <= writes'
  <2>1. wire[c].readAt <= writes /\ wire[c].storedAt <= writes
    BY <1>2 DEF Staged
  <2> QED
    BY <1>1, <2>1
<1>4. /\ wire'[c].at = wire[c].at /\ wire'[c].op = wire[c].op
      /\ wire'[c].router = wire[c].router /\ wire'[c].subnet = wire[c].subnet
      /\ wire'[c].ports = wire[c].ports
      /\ wire'[c].readAt = wire[c].readAt /\ wire'[c].storedAt = wire[c].storedAt
  BY <1>2
<1> QED
  BY <1>2, <1>3, <1>4 DEF Staged

LEMMA SoundStep ==
  ASSUME NetworkInvariant, NEW e \in NetworkCalls, Sound(e)
  PROVE  NetworkInvariant'
BY KindStep DEF Sound

(* Beginnings, and steps that write nothing.                               *)
LEMMA BeginsSound ==
  ASSUME NetworkInvariant, NEW e \in NetworkCalls, NEW at \in {"subnet", "port", "find", "unnote"},
         NEW op \in {"add", "remove"}, NEW r \in Routers, NEW s \in Subnets \cup {0},
         NEW ps \in SUBSET PortIds, Begins(e, at, op, r, s, ps),
         at \in {"subnet", "port"} => op = "add", at \in {"find", "unnote"} => op = "remove",
         op = "add" => \A p, q \in ps : p = q, at \in {"subnet", "find"} => s \in Subnets
  PROVE  Sound(e)
<1>1. at \in WirePlaces /\ op \in WirePurposes /\ NetworkingTypeOK /\ r \in Routers \cup {0}
  BY DEF WirePlaces, WirePurposes, NetworkInvariant
<1>2. /\ wire' \in [NetworkCalls -> Wires] /\ wire[e].at = "idle"
      /\ wire'[e].at = at /\ wire'[e].op = op /\ wire'[e].router = r /\ wire'[e].subnet = s
      /\ wire'[e].ports = ps /\ wire'[e].readAt = writes /\ wire'[e].storedAt = 0
      /\ \A d \in NetworkCalls : d # e => wire'[d] = wire[d]
      /\ UNCHANGED <<port, interface, routers, subnets, networks, writes>>
  BY <1>1, BeginsCall
<1>3. writes \in Nat /\ wire[e].storedAt = 0
  BY <1>1, <1>2, NetworkingTypeParts DEF NetworkInvariant, Stages, Staged
<1>4. Advances(e)
  BY <1>2, <1>3 DEF Advances
<1>5. Passes(e)
  BY <1>2, <1>4 DEF Passes, Halfway
<1>6. Staged(e)'
  <2>1. wire'[e].readAt <= writes' /\ wire'[e].storedAt <= writes'
    BY <1>2, <1>3
  <2>2. wire'[e].at \in {"subnet", "port"} \/ wire'[e].at \in {"find", "unnote"}
    BY <1>2
  <2>3. /\ wire'[e].at \in {"subnet", "port"} => wire'[e].op = "add"
        /\ wire'[e].at \in {"find", "unnote"} => wire'[e].op = "remove"
        /\ wire'[e].at \in {"subnet", "find"} => wire'[e].subnet \in Subnets
        /\ wire'[e].op = "add" => wire'[e].router \in Routers
                                  /\ \A p, q \in wire'[e].ports : p = q
        /\ wire'[e].storedAt = 0
    BY <1>2
  <2> QED
    BY <2>1, <2>2, <2>3 DEF Staged
<1>7. NetworkingTypeOK'
  BY <1>1, <1>2, <1>3, NetworkingTypeParts, NetworkingTypePartsNext
<1> QED
  BY <1>4, <1>5, <1>6, <1>7, StagesStep DEF Sound, Kind

LEMMA GoesSound ==
  ASSUME NetworkInvariant, NEW e \in NetworkCalls, wire[e].at \in {"subnet", "port", "find"},
         NEW at \in {"insert", "port", "bind", "unnote", "unnote all"},
         NEW ps \in SUBSET PortIds, Goes(e, at, ps),
         at \in {"insert", "port", "bind"} <=> wire[e].at \in {"subnet", "port"},
         at \in {"insert", "unnote all"} => wire[e].at \in {"subnet", "find"},
         wire[e].op = "add" => ps = wire[e].ports, at = "bind" => ps \subseteq DOMAIN port,
         at = "unnote all" => Noted(wire[e].router, wire[e].subnet) = {}
  PROVE  Sound(e)
<1>1. at \in WirePlaces /\ NetworkingTypeOK
  BY DEF WirePlaces, NetworkInvariant
<1>2. /\ wire' \in [NetworkCalls -> Wires]
      /\ wire'[e].at = at /\ wire'[e].ports = ps
      /\ wire'[e].op = wire[e].op /\ wire'[e].router = wire[e].router
      /\ wire'[e].subnet = wire[e].subnet /\ wire'[e].readAt = wire[e].readAt
      /\ wire'[e].storedAt = wire[e].storedAt
      /\ \A d \in NetworkCalls : d # e => wire'[d] = wire[d]
      /\ UNCHANGED <<port, interface, routers, subnets, networks, writes>>
  BY <1>1, GoesCall
<1>3. Staged(e)
  BY DEF NetworkInvariant, Stages
<1>4. /\ wire[e].storedAt = 0 /\ wire[e].readAt <= writes /\ wire[e].storedAt <= writes
      /\ wire[e].at \in {"subnet", "port"} => wire[e].op = "add"
      /\ wire[e].at = "find" => wire[e].op = "remove"
      /\ wire[e].at \in {"subnet", "find"} => wire[e].subnet \in Subnets
      /\ wire[e].op = "add" => wire[e].router \in Routers /\ \A p, q \in wire[e].ports : p = q
  BY <1>3 DEF Staged
<1>5. writes \in Nat
  BY <1>1, NetworkingTypeParts
<1>6. Advances(e)
  <2>1. writes' = writes /\ wire'[e].storedAt = 0 /\ wire[e].storedAt = 0
    BY <1>2, <1>4
  <2>2. wire[e].at # "done"
    OBVIOUS
  <2>3. wire'[e].storedAt >= wire[e].storedAt /\ ~(wire[e].storedAt > 0)
    BY <2>1, ZeroIsLeast
  <2> QED
    BY <1>2, <1>5, <2>1, <2>2, <2>3 DEF Advances
<1>7. Passes(e)
  BY <1>2, <1>4, <1>6 DEF Passes, Halfway, Noted
<1>8. Staged(e)'
  BY <1>2, <1>4 DEF Staged
<1>9. NetworkingTypeOK'
  BY <1>1, <1>2, <1>5, NetworkingTypeParts, NetworkingTypePartsNext
<1> QED
  BY <1>6, <1>7, <1>8, <1>9, StagesStep DEF Sound, Kind

(* What call e does to rows of ports, all among ps.                        *)
Touches(e, ps) ==
  /\ DOMAIN port' \subseteq PortIds /\ port' \in [DOMAIN port' -> PortRows]
  /\ \A p \in DOMAIN port' : \/ p \in DOMAIN port /\ port'[p] = port[p]
                             \/ p \in ps /\ port'[p].by = e
  /\ \A p \in DOMAIN port \ DOMAIN port' : p \in ps

LEMMA InsertsTouches ==
  ASSUME NetworkingTypeOK, NEW e \in NetworkCalls, NEW row \in PortRows, row.by = e,
         port' = With(port, e, row)
  PROVE  Touches(e, {e}) /\ DOMAIN port' = DOMAIN port \cup {e} /\ port'[e] = row
BY NetworkingTypeParts DEF With, Touches, PortIds

LEMMA RebindsTouches ==
  ASSUME NetworkingTypeOK, NEW e \in NetworkCalls, NEW p \in DOMAIN port,
         NEW device \in Routers \cup Servers \cup {0}, NEW owner \in Owners,
         NEW s \in Subnets \cup {0}, Rebinds(e, p, device, owner, s)
  PROVE  /\ Touches(e, {p}) /\ DOMAIN port' = DOMAIN port
         /\ port'[p].device = device /\ port'[p].owner = owner /\ port'[p].by = e
<1> DEFINE row == [network |-> port[p].network, device |-> device, owner |-> owner,
                   subnet |-> s, by |-> e]
<1>1. /\ DOMAIN port \subseteq PortIds /\ port \in [DOMAIN port -> PortRows]
  BY NetworkingTypeParts
<1>2. row \in PortRows /\ row.device = device /\ row.owner = owner /\ row.by = e
  BY <1>1 DEF PortRows
<1>3. port' = [q \in DOMAIN port |-> IF q = p THEN row ELSE port[q]]
  BY DEF Rebinds
<1> HIDE DEF row
<1> QED
  BY <1>1, <1>2, <1>3 DEF Touches

LEMMA WithoutTouches ==
  ASSUME NetworkingTypeOK, NEW e \in NetworkCalls, NEW ps, port' = Without(port, ps)
  PROVE  Touches(e, ps) /\ DOMAIN port' = DOMAIN port \ ps
BY NetworkingTypeParts DEF Without, Touches

LEMMA SameTouches ==
  ASSUME NetworkingTypeOK, NEW e \in NetworkCalls, NEW ps, UNCHANGED port
  PROVE  Touches(e, ps) /\ DOMAIN port' = DOMAIN port
BY NetworkingTypeParts DEF Touches

LEMMA DoesSound ==
  ASSUME NetworkInvariant, NEW e \in NetworkCalls,
         NEW op \in {"port", "server", "network", "subnet", "router"},
         NEW ps \in SUBSET PortIds, Does(e, op, ps), Touches(e, ps), UNCHANGED interface,
         routers' \subseteq routers, subnets' \subseteq subnets, networks' \subseteq networks
  PROVE  Sound(e)
<1>1. op \in WirePurposes /\ NetworkingTypeOK
  BY DEF WirePurposes, NetworkInvariant
<1>2. /\ wire' \in [NetworkCalls -> Wires] /\ wire[e].at = "idle"
      /\ wire'[e].at = "done" /\ wire'[e].op = op /\ wire'[e].ports = ps
      /\ wire'[e].readAt = writes /\ wire'[e].storedAt = writes + 1
      /\ \A d \in NetworkCalls : d # e => wire'[d] = wire[d]
      /\ writes \in Nat /\ writes' = writes + 1
  BY <1>1, DoesCall
<1>3. wire[e].storedAt = 0
  BY <1>2 DEF NetworkInvariant, Stages, Staged
<1>4. Advances(e)
  BY <1>2, <1>3 DEF Advances
<1>5. WritesPorts(e) /\ wire'[e].op # "remove"
  BY <1>2, <1>4 DEF WritesPorts, Touches
<1>6. Staged(e)'
  BY <1>2 DEF Staged
<1>7. NetworkingTypeOK'
  BY <1>1, <1>2, NetworkingTypeParts, NetworkingTypePartsNext DEF Touches
<1> QED
  BY <1>4, <1>5, <1>6, <1>7, StagesStep DEF Sound, Kind

(* What the statements of additions and removals have in common.           *)
Fits(e, at, ps) ==
  /\ wire[e].storedAt = 0 \/ wire[e].ports \subseteq ps
  /\ at = "note" => wire[e].op = "add"
  /\ at \in {"unbind", "unbind all"} => wire[e].op = "remove"
  /\ at = "unbind all" => wire[e].subnet \in Subnets
  /\ wire[e].op = "add" => \A p, q \in ps : p = q

Committed(e, at, ps) ==
  /\ wire' \in [NetworkCalls -> Wires]
  /\ wire'[e].at = at /\ wire'[e].ports = ps /\ wire'[e].storedAt = writes + 1
  /\ wire'[e].op = wire[e].op /\ wire'[e].router = wire[e].router
  /\ wire'[e].subnet = wire[e].subnet /\ wire'[e].readAt = wire[e].readAt
  /\ writes \in Nat /\ writes' = writes + 1 /\ UNCHANGED <<routers, subnets, networks>>

LEMMA CommitsSound ==
  ASSUME NetworkInvariant, NEW e \in NetworkCalls, NEW at \in {"note", "done", "unbind", "unbind all"},
         NEW ps \in SUBSET PortIds, Commits(e, at, ps), wire[e].at # "done", Fits(e, at, ps)
  PROVE  Committed(e, at, ps) /\ Advances(e) /\ Staged(e)'
<1>1. at \in WirePlaces /\ NetworkingTypeOK /\ Staged(e)
  BY DEF WirePlaces, NetworkInvariant, Stages
<1>2. /\ wire' \in [NetworkCalls -> Wires]
      /\ wire'[e].at = at /\ wire'[e].ports = ps /\ wire'[e].storedAt = writes + 1
      /\ wire'[e].op = wire[e].op /\ wire'[e].router = wire[e].router
      /\ wire'[e].subnet = wire[e].subnet /\ wire'[e].readAt = wire[e].readAt
      /\ \A d \in NetworkCalls : d # e => wire'[d] = wire[d]
      /\ writes \in Nat /\ writes' = writes + 1
      /\ UNCHANGED <<routers, subnets, networks>>
  BY <1>1, CommitsCall
<1>3. /\ wire[e].readAt \in Nat /\ wire[e].storedAt \in Nat
      /\ wire[e].readAt <= writes /\ wire[e].storedAt <= writes
      /\ wire[e].op = "add" => wire[e].router \in Routers
  BY <1>1, NetworkingTypeParts DEF Staged, Wires
<1>5. wire'[e].storedAt >= wire[e].storedAt /\ writes' \in Nat /\ wire'[e].storedAt = writes'
  BY <1>2, <1>3, NextIsLater
<1>6. Advances(e)
  <2>1. wire[e].storedAt > 0 => wire[e].ports \subseteq wire'[e].ports
    BY <1>2, ZeroIsLeast DEF Fits
  <2> QED
    BY <1>2, <1>5, <2>1 DEF Advances
<1>7. Staged(e)'
  <2>1. /\ wire'[e].readAt <= writes' /\ wire'[e].storedAt <= writes'
        /\ wire'[e].storedAt > wire'[e].readAt
    BY <1>2, <1>3, NextIsLater
  <2>2. wire'[e].at \in {"note", "done", "unbind", "unbind all"}
    BY <1>2
  <2>3. /\ wire'[e].at = "note" => wire'[e].op = "add"
        /\ wire'[e].at \in {"unbind", "unbind all"} => wire'[e].op = "remove"
        /\ wire'[e].at = "unbind all" => wire'[e].subnet \in Subnets
        /\ wire'[e].op = "add" => /\ wire'[e].router \in Routers
                                  /\ \A p, q \in wire'[e].ports : p = q
    BY <1>2, <1>3 DEF Fits
  <2> QED
    BY <2>1, <2>2, <2>3 DEF Staged
<1> QED
  BY <1>2, <1>6, <1>7 DEF Committed

LEMMA InsertPortSound ==
  ASSUME NetworkInvariant, NEW e \in NetworkCalls, InsertPort(e)
  PROVE  Sound(e)
<1> DEFINE row == [network |-> NetworkOf[wire[e].subnet], device |-> wire[e].router,
                   owner |-> "router", subnet |-> wire[e].subnet, by |-> e]
<1>1. wire[e].at = "insert" /\ Commits(e, "note", {e}) /\ UNCHANGED interface
      /\ port' = With(port, e, row) /\ NetworkOf[wire[e].subnet] \in networks
  BY DEF InsertPort
<1>2. NetworkingTypeOK /\ Staged(e)
  BY DEF NetworkInvariant, Stages
<1>3. wire[e].op = "add" /\ wire[e].subnet \in Subnets /\ wire[e].router \in Routers
      /\ wire[e].storedAt = 0
  BY <1>1, <1>2 DEF Staged
<1>4. row \in PortRows /\ row.by = e /\ row.owner = "router" /\ row.device = wire[e].router
  BY <1>1, <1>2, <1>3, NetworkingTypeParts DEF PortRows, Owners
<1> HIDE DEF row
<1>5. Touches(e, {e}) /\ DOMAIN port' = DOMAIN port \cup {e} /\ port'[e] = row
  BY <1>1, <1>2, <1>4, InsertsTouches
<1>6. {e} \in SUBSET PortIds /\ Fits(e, "note", {e})
  BY <1>3 DEF PortIds, Fits
<1>7a. Committed(e, "note", {e}) /\ Advances(e) /\ Staged(e)'
  BY <1>1, <1>3, <1>6, CommitsSound
<1>7. /\ wire' \in [NetworkCalls -> Wires]
      /\ wire'[e].at = "note" /\ wire'[e].ports = {e} /\ wire'[e].storedAt = writes + 1
      /\ wire'[e].op = "add" /\ wire'[e].router = wire[e].router
      /\ writes \in Nat /\ writes' = writes + 1 /\ UNCHANGED <<routers, subnets, networks>>
  BY <1>7a, <1>3 DEF Committed
<1>8. WritesPorts(e) /\ wire'[e].op # "remove"
  BY <1>1, <1>4, <1>5, <1>7, <1>7a DEF WritesPorts, Touches
<1>9. NetworkingTypeOK'
  BY <1>1, <1>2, <1>5, <1>7, <1>7a, NetworkingTypeParts, NetworkingTypePartsNext DEF Touches
<1> QED
  BY <1>7, <1>7a, <1>8, <1>9, StagesStep DEF Sound, Kind

LEMMA BindPortSound ==
  ASSUME NetworkInvariant, NEW e \in NetworkCalls, BindPort(e)
  PROVE  Sound(e)
<1>1. wire[e].at = "bind" /\ Commits(e, "note", wire[e].ports) /\ UNCHANGED interface
  BY DEF BindPort
<1>2. NetworkingTypeOK /\ Staged(e) /\ wire[e].ports \in SUBSET PortIds
  BY NetworkingTypeParts DEF NetworkInvariant, Stages, Wires
<1>3. wire[e].op = "add" /\ wire[e].router \in Routers /\ wire[e].storedAt = 0
      /\ \A p, q \in wire[e].ports : p = q
  BY <1>1, <1>2 DEF Staged
<1>0. Fits(e, "note", wire[e].ports)
  BY <1>3 DEF Fits
<1>4a. Committed(e, "note", wire[e].ports) /\ Advances(e) /\ Staged(e)'
  BY <1>0, <1>1, <1>2, <1>3, CommitsSound
<1>4. /\ wire' \in [NetworkCalls -> Wires]
      /\ wire'[e].at = "note" /\ wire'[e].ports = wire[e].ports /\ wire'[e].storedAt = writes + 1
      /\ wire'[e].op = "add" /\ wire'[e].router = wire[e].router /\ wire'[e].readAt = wire[e].readAt
      /\ writes \in Nat /\ writes' = writes + 1 /\ UNCHANGED <<routers, subnets, networks>>
  BY <1>4a, <1>3 DEF Committed
<1>5. PICK p \in wire[e].ports :
        IF p \in DOMAIN port THEN Rebinds(e, p, wire[e].router, "router", port[p].subnet)
                             ELSE UNCHANGED port
  BY DEF BindPort
<1>6. /\ Touches(e, wire[e].ports)
      /\ p \in DOMAIN port => /\ p \in DOMAIN port' /\ port'[p].by = e
                              /\ port'[p].owner = "router" /\ port'[p].device = wire[e].router
      /\ p \notin DOMAIN port => UNCHANGED port
  <2>1. CASE p \in DOMAIN port
    <3>1. port[p].subnet \in Subnets \cup {0} /\ wire[e].router \in Routers \cup Servers \cup {0}
          /\ "router" \in Owners
      BY <1>2, <1>3, <2>1, NetworkingTypeParts DEF PortRows, Owners
    <3>2. /\ Touches(e, {p}) /\ DOMAIN port' = DOMAIN port
          /\ port'[p].device = wire[e].router /\ port'[p].owner = "router" /\ port'[p].by = e
      <4> DEFINE device == wire[e].router
                 s == port[p].subnet
      <4>1. Rebinds(e, p, device, "router", s)
        BY <1>5, <2>1
      <4>2. device \in Routers \cup Servers \cup {0} /\ s \in Subnets \cup {0}
        BY <3>1
      <4> HIDE DEF device, s
      <4>3. /\ Touches(e, {p}) /\ DOMAIN port' = DOMAIN port
            /\ port'[p].device = device /\ port'[p].owner = "router" /\ port'[p].by = e
        BY <1>2, <2>1, <3>1, <4>1, <4>2, RebindsTouches
      <4> QED
        BY <4>3 DEF device
    <3> QED
      BY <1>5, <2>1, <3>2 DEF Touches
  <2>2. CASE p \notin DOMAIN port
    BY <1>2, <1>5, <2>2, SameTouches
  <2> QED
    BY <2>1, <2>2
<1>7. \A q \in wire'[e].ports :
        \/ q \in DOMAIN port' /\ port'[q].by = e
        \/ \E d \in NetworkCalls : /\ d # e /\ q \in wire[d].ports
                                   /\ wire[d].storedAt > wire'[e].readAt /\ q \notin DOMAIN port'
  <2>1. CASE p \in DOMAIN port
    BY <1>3, <1>4, <1>4a, <1>6, <2>1
  <2>2. CASE p \notin DOMAIN port
    <3>1. \E d \in NetworkCalls : d # e /\ p \in wire[d].ports /\ wire[d].storedAt > wire[e].readAt
      BY <1>1, <1>5, <2>2 DEF NetworkInvariant, Taken
    <3>2. p \notin DOMAIN port'
      BY <1>6, <2>2
    <3>3. \A q \in wire'[e].ports : q = p
      BY <1>3, <1>4, <1>4a
    <3> QED
      BY <1>4, <1>4a, <3>1, <3>2, <3>3
  <2> QED
    BY <2>1, <2>2
<1>8. \A q \in DOMAIN port' :
        \/ q \in DOMAIN port /\ port'[q] = port[q]
        \/ /\ q \in wire'[e].ports /\ port'[q].by = e
           /\ port'[q].owner = "router" /\ port'[q].device = wire'[e].router
  BY <1>3, <1>4, <1>4a, <1>5, <1>6 DEF Touches
<1>9. WritesPorts(e) /\ wire'[e].op # "remove"
  BY <1>1, <1>4, <1>4a, <1>6, <1>7, <1>8 DEF WritesPorts, Touches
<1>10. NetworkingTypeOK'
  BY <1>1, <1>2, <1>4, <1>4a, <1>6, NetworkingTypeParts, NetworkingTypePartsNext DEF Touches
<1> QED
  BY <1>4, <1>4a, <1>9, <1>10, StagesStep DEF Sound, Kind

LEMMA NoteInterfaceSound ==
  ASSUME NetworkInvariant, NEW e \in NetworkCalls, NoteInterface(e)
  PROVE  Sound(e)
<1>1. wire[e].at = "note" /\ Commits(e, "done", wire[e].ports) /\ UNCHANGED port
  BY DEF NoteInterface
<1>2. NetworkingTypeOK /\ Staged(e) /\ wire[e].ports \in SUBSET PortIds
      /\ wire[e].subnet \in Subnets \cup {0}
  BY NetworkingTypeParts DEF NetworkInvariant, Stages, Wires
<1>3. wire[e].op = "add" /\ wire[e].router \in Routers /\ \A p, q \in wire[e].ports : p = q
  BY <1>1, <1>2 DEF Staged
<1>4. Fits(e, "done", wire[e].ports)
  BY <1>3 DEF Fits
<1>5a. Committed(e, "done", wire[e].ports) /\ Advances(e) /\ Staged(e)'
  BY <1>1, <1>2, <1>4, CommitsSound
<1>5. /\ wire' \in [NetworkCalls -> Wires]
      /\ wire'[e].at = "done" /\ wire'[e].ports = wire[e].ports /\ wire'[e].storedAt = writes + 1
      /\ wire'[e].op = wire[e].op /\ wire'[e].router = wire[e].router
      /\ wire'[e].subnet = wire[e].subnet /\ wire'[e].readAt = wire[e].readAt
      /\ writes \in Nat /\ writes' = writes + 1 /\ UNCHANGED <<routers, subnets, networks>>
  BY <1>5a DEF Committed
<1> DEFINE note == [router |-> wire[e].router, subnet |-> wire[e].subnet, by |-> e]
<1>6. PICK p \in wire[e].ports : interface' = With(interface, p, note)
  BY DEF NoteInterface
<1>7. Notes(e, p)
  BY <1>1, <1>5, <1>5a, <1>6 DEF Notes
<1>8. note \in InterfaceRows
  BY <1>2, <1>3 DEF InterfaceRows
<1> HIDE DEF note
<1>9. DOMAIN interface' \subseteq PortIds /\ interface' \in [DOMAIN interface' -> InterfaceRows]
  BY <1>2, <1>6, <1>8, NetworkingTypeParts DEF With
<1>10. NetworkingTypeOK'
  BY <1>1, <1>2, <1>5, <1>5a, <1>9, NetworkingTypeParts, NetworkingTypePartsNext
<1> QED
  BY <1>5, <1>5a, <1>7, <1>10, StagesStep DEF Sound, Kind

LEMMA UnnotesSound ==
  ASSUME NetworkInvariant, NEW e \in NetworkCalls, RemoveNote(e) \/ RemoveNotes(e)
  PROVE  Sound(e)
<1> DEFINE all == Noted(wire[e].router, wire[e].subnet)
<1>1. /\ wire[e].at \in {"unnote", "unnote all"} /\ UNCHANGED port
      /\ \E at \in {"unbind", "unbind all"}, ps \in {wire[e].ports, all} :
           /\ Commits(e, at, ps) /\ interface' = Without(interface, ps)
           /\ at = "unbind all" => wire[e].at = "unnote all" /\ ps = all
  <2>1. CASE RemoveNote(e)
    BY <2>1 DEF RemoveNote
  <2>2. CASE RemoveNotes(e)
    BY <2>2 DEF RemoveNotes
  <2> QED
    BY <2>1, <2>2
<1>2. NetworkingTypeOK /\ Staged(e) /\ wire[e].ports \in SUBSET PortIds /\ all \in SUBSET PortIds
  BY NetworkingTypeParts DEF NetworkInvariant, Stages, Wires, Noted
<1> HIDE DEF all
<1>3. PICK at \in {"unbind", "unbind all"}, ps \in {wire[e].ports, all} :
        /\ Commits(e, at, ps) /\ interface' = Without(interface, ps)
        /\ at = "unbind all" => wire[e].at = "unnote all" /\ ps = all
  BY <1>1
<1>4. ps \in SUBSET PortIds /\ at \in {"note", "done", "unbind", "unbind all"}
  BY <1>2
<1>5. /\ wire[e].op = "remove" /\ wire[e].storedAt = 0
      /\ wire[e].at = "unnote all" => wire[e].subnet \in Subnets
  BY <1>1, <1>2 DEF Staged
<1>6. Fits(e, at, ps)
  BY <1>3, <1>5 DEF Fits
<1>7. wire[e].at # "done"
  BY <1>1
<1>8a. Committed(e, at, ps) /\ Advances(e) /\ Staged(e)'
  BY <1>3, <1>4, <1>6, <1>7, CommitsSound
<1>8. /\ wire' \in [NetworkCalls -> Wires]
      /\ wire'[e].at = at /\ wire'[e].ports = ps /\ wire'[e].storedAt = writes + 1
      /\ wire'[e].router = wire[e].router /\ wire'[e].subnet = wire[e].subnet
      /\ wire'[e].readAt = wire[e].readAt
      /\ writes \in Nat /\ writes' = writes + 1 /\ UNCHANGED <<routers, subnets, networks>>
  BY <1>8a DEF Committed
<1>9. Unnotes(e)
  BY <1>1, <1>3, <1>8, <1>8a DEF Unnotes, all
<1>10. DOMAIN interface' \subseteq PortIds /\ interface' \in [DOMAIN interface' -> InterfaceRows]
  BY <1>2, <1>3, NetworkingTypeParts DEF Without
<1>11. NetworkingTypeOK'
  <2>1. /\ DOMAIN port \subseteq PortIds /\ port \in [DOMAIN port -> PortRows]
        /\ routers \subseteq Routers /\ subnets \subseteq Subnets /\ networks \subseteq Networks
    BY <1>2, NetworkingTypeParts
  <2>2. /\ DOMAIN port' \subseteq PortIds /\ port' \in [DOMAIN port' -> PortRows]
        /\ routers' \subseteq Routers /\ subnets' \subseteq Subnets /\ networks' \subseteq Networks
    BY <1>1, <1>8, <2>1
  <2>3. writes' \in Nat
    BY <1>8a DEF Advances
  <2> QED
    BY <1>8, <1>10, <2>2, <2>3, NetworkingTypePartsNext
<1> QED
  BY <1>8, <1>8a, <1>9, <1>11, StagesStep DEF Sound, Kind

LEMMA RemovePortSound ==
  ASSUME NetworkInvariant, NEW e \in NetworkCalls, RemovePort(e)
  PROVE  Sound(e)
<1>1. /\ wire[e].at = "unbind" /\ Commits(e, "done", wire[e].ports) /\ UNCHANGED interface
      /\ port' = Without(port, wire[e].ports)
  BY DEF RemovePort
<1>2. NetworkingTypeOK /\ Staged(e) /\ wire[e].ports \in SUBSET PortIds
  BY NetworkingTypeParts DEF NetworkInvariant, Stages, Wires
<1>3. wire[e].op = "remove" /\ Fits(e, "done", wire[e].ports)
  BY <1>1, <1>2 DEF Staged, Fits
<1>4a. Committed(e, "done", wire[e].ports) /\ Advances(e) /\ Staged(e)'
  BY <1>1, <1>2, <1>3, CommitsSound
<1>4. /\ wire' \in [NetworkCalls -> Wires]
      /\ wire'[e].at = "done" /\ wire'[e].ports = wire[e].ports /\ wire'[e].storedAt = writes + 1
      /\ wire'[e].op = "remove" /\ wire'[e].readAt = wire[e].readAt
      /\ writes \in Nat /\ writes' = writes + 1 /\ UNCHANGED <<routers, subnets, networks>>
  BY <1>4a, <1>3 DEF Committed
<1>5. Touches(e, wire[e].ports) /\ DOMAIN port' \cap wire[e].ports = {}
  BY <1>1, <1>2, WithoutTouches
<1>6. WritesPorts(e)
  BY <1>1, <1>4, <1>4a, <1>5 DEF WritesPorts, Touches
<1>7. NetworkingTypeOK'
  BY <1>1, <1>2, <1>4, <1>4a, <1>5, NetworkingTypeParts, NetworkingTypePartsNext DEF Touches
<1> QED
  BY <1>1, <1>4, <1>4a, <1>5, <1>6, <1>7, StagesStep DEF Sound, Kind

LEMMA RemovePortsSound ==
  ASSUME NetworkInvariant, NEW e \in NetworkCalls, RemovePorts(e)
  PROVE  Sound(e)
<1> DEFINE bound == BoundTo(wire[e].router, wire[e].subnet)
           ps == wire[e].ports \cup bound
<1>1. /\ wire[e].at = "unbind all" /\ Commits(e, "done", ps) /\ UNCHANGED interface
      /\ port' = Without(port, bound)
  BY DEF RemovePorts
<1>2. NetworkingTypeOK /\ Staged(e) /\ wire[e].ports \in SUBSET PortIds /\ bound \in SUBSET PortIds
  BY NetworkingTypeParts DEF NetworkInvariant, Stages, Wires, BoundTo
<1> HIDE DEF bound
<1>3. ps \in SUBSET PortIds /\ wire[e].ports \subseteq ps /\ bound \subseteq ps
  BY <1>2
<1>4. wire[e].op = "remove"
  BY <1>1, <1>2 DEF Staged
<1> HIDE DEF ps
<1>5. Fits(e, "done", ps)
  BY <1>3, <1>4 DEF Fits
<1>6a. Committed(e, "done", ps) /\ Advances(e) /\ Staged(e)'
  BY <1>1, <1>3, <1>4, <1>5, CommitsSound
<1>6. /\ wire' \in [NetworkCalls -> Wires]
      /\ wire'[e].at = "done" /\ wire'[e].ports = ps /\ wire'[e].storedAt = writes + 1
      /\ wire'[e].op = "remove" /\ wire'[e].readAt = wire[e].readAt
      /\ wire'[e].subnet = wire[e].subnet
      /\ writes \in Nat /\ writes' = writes + 1 /\ UNCHANGED <<routers, subnets, networks>>
  BY <1>6a, <1>4 DEF Committed
<1>7. Touches(e, bound)
  BY <1>1, <1>2, WithoutTouches
<1>8. WritesPorts(e)
  BY <1>1, <1>3, <1>6, <1>6a, <1>7 DEF WritesPorts, Touches
<1>9. NetworkingTypeOK'
  <2>1. /\ DOMAIN interface \subseteq PortIds /\ interface \in [DOMAIN interface -> InterfaceRows]
        /\ routers \subseteq Routers /\ subnets \subseteq Subnets /\ networks \subseteq Networks
    BY <1>2, NetworkingTypeParts
  <2>2. /\ DOMAIN interface' \subseteq PortIds /\ interface' \in [DOMAIN interface' -> InterfaceRows]
        /\ routers' \subseteq Routers /\ subnets' \subseteq Subnets /\ networks' \subseteq Networks
    BY <1>1, <1>6, <2>1
  <2>3. writes' \in Nat
    BY <1>6
  <2> QED
    BY <1>6, <1>7, <2>2, <2>3, NetworkingTypePartsNext DEF Touches
<1> QED
  BY <1>1, <1>6, <1>6a, <1>8, <1>9, StagesStep DEF Sound, Kind, ps, bound

-----------------------------------------------------------------------------
LEMMA NetworkCallSound ==
  ASSUME NetworkInvariant, NEW e \in NetworkCalls, NetworkCall(e)
  PROVE  Sound(e)
<1>1. NetworkingTypeOK /\ Staged(e)
  BY DEF NetworkInvariant, Stages
<1>2. /\ DOMAIN port \subseteq PortIds /\ port \in [DOMAIN port -> PortRows]
      /\ DOMAIN interface \subseteq PortIds
      /\ routers \subseteq Routers /\ subnets \subseteq Subnets /\ networks \subseteq Networks
      /\ wire[e].ports \in SUBSET PortIds
  BY <1>1, NetworkingTypeParts DEF Wires
<1>3. \A n \in networks, b \in Binding :
        LET row == [network |-> n, device |-> b.device, owner |-> b.owner,
                    subnet |-> b.subnet, by |-> e]
        IN  row \in PortRows /\ row.by = e
  BY <1>2 DEF PortRows, Binding
<1>4. \A n \in networks, s \in Servers :
        LET row == [network |-> n, device |-> s, owner |-> "compute", subnet |-> 0, by |-> e]
        IN  row \in PortRows /\ row.by = e
  BY <1>2 DEF PortRows, Owners
<1>5. Bindings \subseteq Binding
  BY NetworkingAssumption
<1>6. ASSUME AskToAdd(e) PROVE Sound(e)
  <2>1. PICK r \in routers, s \in Subnets \cup {0}, p \in DOMAIN port \cup {0} :
          /\ s # 0 \/ p # 0
          /\ Begins(e, IF s # 0 THEN "subnet" ELSE "port", "add", r, s, {p} \ {0})
    BY <1>6 DEF AskToAdd
  <2>2. {p} \ {0} \in SUBSET PortIds /\ r \in Routers /\ \A p1, q1 \in {p} \ {0} : p1 = q1
    BY <1>2
  <2>3. CASE s # 0
    <3>1. Begins(e, "subnet", "add", r, s, {p} \ {0}) /\ s \in Subnets
      BY <2>1, <2>3
    <3> QED
      BY <2>2, <3>1, BeginsSound
  <2>4. CASE s = 0
    <3>1. Begins(e, "port", "add", r, s, {p} \ {0})
      BY <2>1, <2>4
    <3> QED
      BY <2>2, <3>1, BeginsSound
  <2> QED
    BY <2>3, <2>4
<1>7. ASSUME FindSubnet(e) PROVE Sound(e)
  <2>1. wire[e].at = "subnet"
    BY <1>7 DEF FindSubnet
  <2>2. CASE Goes(e, "insert", wire[e].ports)
    BY <1>2, <2>1, <2>2, GoesSound
  <2>3. CASE Goes(e, "port", wire[e].ports)
    BY <1>2, <2>1, <2>3, GoesSound
  <2> QED
    BY <1>7, <2>2, <2>3 DEF FindSubnet
<1>8. ASSUME FindPort(e) PROVE Sound(e)
  <2>1. wire[e].at = "port" /\ wire[e].ports \subseteq DOMAIN port /\ Goes(e, "bind", wire[e].ports)
    BY <1>8 DEF FindPort
  <2> QED
    BY <1>2, <2>1, GoesSound
<1>9. ASSUME FindInterface(e) PROVE Sound(e)
  <2> DEFINE found == Noted(wire[e].router, wire[e].subnet)
  <2>1. /\ wire[e].at = "find" /\ found \subseteq PortIds
        /\ (\E p \in found : Goes(e, "unnote", {p})) \/ (found = {} /\ Goes(e, "unnote all", {}))
    BY <1>2, <1>9 DEF FindInterface, Noted
  <2>2. wire[e].op = "remove"
    BY <1>1, <2>1 DEF Staged
  <2>3. ASSUME NEW p \in found, Goes(e, "unnote", {p}) PROVE Sound(e)
    <3>1. {p} \in SUBSET PortIds
      BY <2>1
    <3> QED
      BY <2>1, <2>2, <2>3, <3>1, GoesSound
  <2>4. CASE found = {} /\ Goes(e, "unnote all", {})
    BY <2>1, <2>2, <2>4, GoesSound
  <2> QED
    BY <2>1, <2>3, <2>4
<1>10. ASSUME AskToRemove(e) PROVE Sound(e)
  <2>1. PICK r \in routers :
          \/ \E p \in Nameable : Begins(e, "unnote", "remove", r, 0, {p})
          \/ \E s \in Subnets : Begins(e, "find", "remove", r, s, {})
    BY <1>10 DEF AskToRemove
  <2>2. r \in Routers
    BY <1>2
  <2>3. ASSUME NEW p \in Nameable, Begins(e, "unnote", "remove", r, 0, {p})
        PROVE  Sound(e)
    <3>1. {p} \in SUBSET PortIds /\ 0 \in Subnets \cup {0}
      BY DEF Nameable, PortIds
    <3> QED
      BY <2>2, <2>3, <3>1, BeginsSound
  <2>4. ASSUME NEW s \in Subnets, Begins(e, "find", "remove", r, s, {})
        PROVE  Sound(e)
    <3>1. {} \in SUBSET PortIds /\ s \in Subnets \cup {0}
      OBVIOUS
    <3> QED
      BY <2>2, <2>4, <3>1, BeginsSound
  <2> QED
    BY <2>1, <2>3, <2>4
<1>11. ASSUME CreatePort(e) PROVE Sound(e)
  <2>1. PICK n \in networks, b \in Bindings :
          port' = With(port, e, [network |-> n, device |-> b.device, owner |-> b.owner,
                                 subnet |-> b.subnet, by |-> e])
    BY <1>11 DEF CreatePort
  <2>2. Touches(e, {e})
    BY <1>1, <1>3, <1>5, <2>1, InsertsTouches
  <2>3. Does(e, "port", {e}) /\ UNCHANGED <<interface, routers, subnets, networks>>
    BY <1>11 DEF CreatePort
  <2> QED
    BY <2>2, <2>3, DoesSound DEF PortIds
<1>12. ASSUME UpdatePort(e) PROVE Sound(e)
  <2>1. PICK p \in DOMAIN port, b \in Bindings :
          \E device \in {b.device, port[p].device}, owner \in {b.owner, port[p].owner},
             s \in {b.subnet, port[p].subnet} :
            Rebinds(e, p, device, owner, s) /\ Does(e, "port", {p})
    BY <1>12 DEF UpdatePort
  <2>2. port[p] \in PortRows /\ b \in Binding /\ {p} \in SUBSET PortIds
    BY <1>2, <1>5
  <2>3. PICK device \in Routers \cup Servers \cup {0}, owner \in Owners, s \in Subnets \cup {0} :
          Rebinds(e, p, device, owner, s) /\ Does(e, "port", {p})
    BY <2>1, <2>2 DEF Binding, PortRows
  <2>4. Touches(e, {p})
    BY <1>1, <2>3, RebindsTouches
  <2>5. UNCHANGED <<interface, routers, subnets, networks>>
    BY <1>12 DEF UpdatePort
  <2> QED
    BY <2>2, <2>3, <2>4, <2>5, DoesSound
<1>13. ASSUME DeletePort(e) PROVE Sound(e)
  <2>1. PICK p \in DOMAIN port : port' = Without(port, {p}) /\ Does(e, "port", {p})
    BY <1>13 DEF DeletePort
  <2>2. {p} \in SUBSET PortIds
    BY <1>2
  <2>4. Touches(e, {p})
    BY <1>1, <2>1, WithoutTouches
  <2>3. UNCHANGED <<interface, routers, subnets, networks>>
    BY <1>13 DEF DeletePort
  <2> QED
    BY <2>1, <2>2, <2>3, <2>4, DoesSound
<1>14. ASSUME AttachToServer(e) PROVE Sound(e)
  <2>1. UNCHANGED <<interface, routers, subnets, networks>>
    BY <1>14 DEF AttachToServer
  <2>2. PICK s \in Servers :
          \/ \E p \in DOMAIN port :
               Rebinds(e, p, s, "compute", port[p].subnet) /\ Does(e, "server", {p})
          \/ \E n \in networks :
               /\ port' = With(port, e, [network |-> n, device |-> s, owner |-> "compute",
                                         subnet |-> 0, by |-> e])
               /\ Does(e, "server", {e})
    BY <1>14 DEF AttachToServer
  <2>3. ASSUME NEW p \in DOMAIN port, Rebinds(e, p, s, "compute", port[p].subnet),
               Does(e, "server", {p})
        PROVE  Sound(e)
    <3>1. port[p].subnet \in Subnets \cup {0} /\ "compute" \in Owners /\ {p} \in SUBSET PortIds
      BY <1>2 DEF PortRows, Owners
    <3>2. Touches(e, {p})
      BY <1>1, <2>3, <3>1, RebindsTouches
    <3> QED
      BY <2>1, <2>3, <3>1, <3>2, DoesSound
  <2>4. ASSUME NEW n \in networks,
               port' = With(port, e, [network |-> n, device |-> s, owner |-> "compute",
                                      subnet |-> 0, by |-> e]),
               Does(e, "server", {e})
        PROVE  Sound(e)
    <3>1. Touches(e, {e}) /\ {e} \in SUBSET PortIds
      BY <1>1, <1>4, <2>4, InsertsTouches DEF PortIds
    <3> QED
      BY <2>1, <2>4, <3>1, DoesSound
  <2> QED
    BY <2>2, <2>3, <2>4
<1>15. ASSUME DetachFromServer(e) PROVE Sound(e)
  <2>1. PICK p \in DOMAIN port :
          Rebinds(e, p, 0, "nobody", port[p].subnet) /\ Does(e, "server", {p})
    BY <1>15 DEF DetachFromServer
  <2>2. port[p].subnet \in Subnets \cup {0} /\ "nobody" \in Owners /\ {p} \in SUBSET PortIds
    BY <1>2 DEF PortRows, Owners
  <2>3. Touches(e, {p})
    BY <1>1, <2>1, <2>2, RebindsTouches
  <2>4. UNCHANGED <<interface, routers, subnets, networks>>
    BY <1>15 DEF DetachFromServer
  <2> QED
    BY <2>1, <2>2, <2>3, <2>4, DoesSound
<1>16. ASSUME DeleteNetwork(e) PROVE Sound(e)
  <2>1. PICK n \in networks :
          LET gone == {p \in DOMAIN port : port[p].network = n} IN
          /\ networks' = networks \ {n}
          /\ subnets' = {s \in subnets : NetworkOf[s] # n}
          /\ port' = Without(port, gone)
          /\ Does(e, "network", gone)
          /\ UNCHANGED <<interface, routers>>
    BY <1>16 DEF DeleteNetwork
  <2> DEFINE gone == {p \in DOMAIN port : port[p].network = n}
  <2>2. gone \in SUBSET PortIds
    BY <1>2
  <2>3. /\ networks' \subseteq networks /\ subnets' \subseteq subnets /\ routers' \subseteq routers
        /\ port' = Without(port, gone) /\ Does(e, "network", gone) /\ UNCHANGED interface
    BY <2>1
  <2> HIDE DEF gone
  <2>4. Touches(e, gone)
    BY <1>1, <2>3, WithoutTouches
  <2> QED
    BY <2>2, <2>3, <2>4, DoesSound
<1>17. ASSUME DeleteSubnet(e) \/ DeleteRouter(e) PROVE Sound(e)
  <2>1. /\ \E op \in {"subnet", "router"} : Does(e, op, {})
        /\ UNCHANGED <<port, interface, networks>>
        /\ routers' \subseteq routers /\ subnets' \subseteq subnets
    BY <1>17 DEF DeleteSubnet, DeleteRouter
  <2>2. Touches(e, {}) /\ {} \in SUBSET PortIds
    BY <1>1, <2>1, SameTouches
  <2> QED
    BY <2>1, <2>2, DoesSound
<1> QED
  BY <1>6, <1>7, <1>8, <1>9, <1>10, <1>11, <1>12, <1>13, <1>14, <1>15, <1>16, <1>17,
     InsertPortSound, BindPortSound, NoteInterfaceSound, UnnotesSound, RemovePortSound,
     RemovePortsSound
  DEF NetworkCall

LEMMA NetworkingKeepsInvariant ==
  NetworkInvariant /\ [NetworkingNext]_networkVars => NetworkInvariant'
<1> SUFFICES ASSUME NetworkInvariant, [NetworkingNext]_networkVars PROVE NetworkInvariant'
  OBVIOUS
<1>1. CASE NetworkingNext
  BY <1>1, NetworkCallSound, SoundStep DEF NetworkingNext
<1>2. CASE UNCHANGED networkVars
  <2>1. UNCHANGED <<port, interface, routers, subnets, networks, wire, writes>>
    BY <1>2 DEF networkVars
  <2>2. NetworkingTypeOK'
    BY <2>1, NetworkingTypeParts, NetworkingTypePartsNext DEF NetworkInvariant
  <2>3. Stages' /\ Binders' /\ Noters'
    BY <2>1 DEF NetworkInvariant, Stages, Staged, Binders, Noters
  <2>4. LastWriters' /\ Taken'
    BY <2>1 DEF NetworkInvariant, LastWriters, Taken, Added
  <2>5. LateNotes' /\ LateBindings'
    BY <2>1 DEF NetworkInvariant, LateNotes, Unseen, LateBindings, Crosses, Added
  <2>6. Documents' /\ Bound'
    BY <2>1 DEF NetworkInvariant, Documents, Bound, Agree, Upset, Disturbs, Added
  <2> QED
    BY <2>2, <2>3, <2>4, <2>5, <2>6 DEF NetworkInvariant
<1> QED
  BY <1>1, <1>2

(* Ports, interfaces and calls have their types (neutron.py, nova.py).     *)
THEOREM NetworkTypes == NetworkingSpec => []NetworkingTypeOK
<1>1. NetworkInvariant => NetworkingTypeOK
  BY DEF NetworkInvariant
<1> QED
  BY <1>1, NetworkingInitInvariant, NetworkingKeepsInvariant, PTL DEF NetworkingSpec

(* However additions, removals and the other writers of ports interleave,  *)
(* and wherever one is lost, row and document of a router interface come   *)
(* apart only by the causes that Disturbs names (neutron.py, 1149 to 1309).*)
THEOREM InterfacesAreWhole == NetworkingSpec => []InterfacesWhole
BY WholeParts, NetworkingInitInvariant, NetworkingKeepsInvariant, PTL DEF NetworkingSpec
================================================================================
