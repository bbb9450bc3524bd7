------------------------------ MODULE Volumes ------------------------------
(***************************************************************************)
(* Block storage volumes and their attachments to servers                  *)
(* (app/openstack/routes/cinder.py and nova.py).  A volume is a row of     *)
(* os_volumes with its status; an attachment is a document of its own in   *)
(* os_api_objects, which PUT and PATCH of the schema engine                *)
(* (schema_engine.py) rewrite as any other.  Nothing ties the two but the  *)
(* calls that write both, and every statement commits by itself.           *)
(*                                                                         *)
(* One project calls.  Calls are numbered in the order they begin, and a   *)
(* fresh uuid is the number of the call that makes it.  Of a volume its    *)
(* status and size are kept; the names, types and devices are left out,    *)
(* and so is the record a volume action leaves of itself.                  *)
(***************************************************************************)
EXTENDS Naturals

CONSTANTS VolumeCalls,    \* the calls, 1..n
          SeedVolumes,    \* the seeded volumes
          SeedStatus,     \* SeedStatus[v]: the status a volume is seeded with
          SeedAttachments,\* the seeded attachments
          SeedTarget,     \* SeedTarget[a]: the volume a seeded attachment is of
          SeedServers,    \* the seeded servers
          Statuses,       \* bound: statuses a reset may ask for
          Sizes           \* bound: sizes of volumes; seeded ones have the least

VolumeIds == SeedVolumes \cup VolumeCalls
AttachmentIds == SeedAttachments \cup VolumeCalls
Least == CHOOSE s \in Sizes : \A z \in Sizes : s <= z

ASSUME VolumesAssumption ==
  /\ VolumeCalls \subseteq Nat \ {0}
  /\ Sizes \subseteq Nat /\ \E s \in Sizes : \A z \in Sizes : s <= z
  /\ {"available", "in-use"} \subseteq Statuses
  /\ SeedStatus \in [SeedVolumes -> Statuses]
  /\ SeedTarget \in [SeedAttachments -> SeedVolumes]
  /\ (SeedVolumes \cup SeedAttachments) \cap (VolumeCalls \cup {0}) = {}

VARIABLES volume,     \* volume[v]: status and size of a volume that exists
          attachment, \* attachment[a]: the volume of an attachment that exists
          hosting,    \* the servers that exist
          demand,     \* demand[c]: what call c has read and decided so far
          stores      \* statements that have written a volume or an attachment

volumeVars == <<volume, attachment, hosting, demand, stores>>

Unused == [at |-> "idle", op |-> "none", volume |-> 0, attachment |-> 0, seen |-> "available",
           size |-> 0, readAt |-> 0, storedAt |-> 0, left |-> 0]

VolumesInit ==
  /\ volume = [v \in SeedVolumes |-> [status |-> SeedStatus[v], size |-> Least]]
  /\ attachment = SeedTarget
  /\ hosting = SeedServers
  /\ demand = [c \in VolumeCalls |-> Unused]
  /\ stores = 0

-----------------------------------------------------------------------------
Fresh(c) ==
  /\ demand[c].at = "idle"
  /\ \A b \in VolumeCalls : b < c => demand[b].at # "idle"

(* What call c asks of volume v (attachment a), as its first SELECTs read it. *)
Asks(c, at, op, v, a, seen, size) ==
  /\ demand' = [demand EXCEPT ![c] =
       [at |-> at, op |-> op, volume |-> v, attachment |-> a, seen |-> seen, size |-> size,
        readAt |-> stores, storedAt |-> 0, left |-> 0]]
  /\ UNCHANGED <<volume, attachment, hosting, stores>>

Moves(c, at) == demand' = [demand EXCEPT ![c].at = at]

(* The statement of call c that writes; the call goes on to `at`.  `left`  *)
(* is the volume whose attachment it gives to another (0: none).           *)
StoresOver(c, at, left) ==
  /\ stores' = stores + 1
  /\ demand' = [demand EXCEPT ![c].at = at, ![c].storedAt = stores + 1, ![c].left = left]

Stores(c, at) == StoresOver(c, at, 0)

(* UPDATE os_volumes ... WHERE id: nothing if the row has gone. *)
Sets(v, row) == volume' = [w \in DOMAIN volume |-> IF w = v THEN row ELSE volume[w]]

Marked(v, status) ==
  IF v \in DOMAIN volume THEN Sets(v, [status |-> status, size |-> volume[v].size])
                         ELSE UNCHANGED volume

-----------------------------------------------------------------------------
(* The volume itself (cinder.py).                                           *)

VolumeCreate(c) ==
  /\ Fresh(c)
  /\ \E size \in Sizes :
       volume' = [v \in DOMAIN volume \cup {c} |->
                    IF v = c THEN [status |-> "available", size |-> size] ELSE volume[v]]
  /\ Moves(c, "done")
  /\ UNCHANGED <<attachment, hosting, stores>>

(* The attachments of a deleted volume stay. *)
VolumeDelete(c) ==
  /\ Fresh(c)
  /\ \E v \in DOMAIN volume : volume' = [w \in DOMAIN volume \ {v} |-> volume[w]]
  /\ Moves(c, "done")
  /\ UNCHANGED <<attachment, hosting, stores>>

(* Mutant: the new size is compared with nothing. *)
AskToExtendAnyway(c) ==
  /\ Fresh(c)
  /\ \E v \in DOMAIN volume, size \in Sizes :
       Asks(c, "extend", "extend", v, 0, volume[v].status, size)

(* os-extend: only a size greater than the one read is accepted ... *)
AskToExtend(c) ==
  /\ Fresh(c)
  /\ \E v \in DOMAIN volume, size \in Sizes :
       size > volume[v].size /\ Asks(c, "extend", "extend", v, 0, volume[v].status, size)

(* ... and it is written without comparing again.  The answer is 202 even  *)
(* if the row has gone.                                                    *)
Extend(c) ==
  LET v == demand[c].volume IN
  /\ demand[c].at = "extend"
  /\ IF v \in DOMAIN volume
       THEN Sets(v, [status |-> volume[v].status, size |-> demand[c].size])
       ELSE UNCHANGED volume
  /\ Stores(c, "done")
  /\ UNCHANGED <<attachment, hosting>>

(* The other actions: they write "in-use" or "available", the status that  *)
(* a reset asks for, or the one they have read.                            *)
AskForAction(c) ==
  /\ Fresh(c)
  /\ \E v \in DOMAIN volume : \E status \in Statuses \cup {volume[v].status} :
       Asks(c, "act", "action", v, 0, status, 0)

Act(c) ==
  /\ demand[c].at = "act"
  /\ Marked(demand[c].volume, demand[c].seen)
  /\ Stores(c, "done")
  /\ UNCHANGED <<attachment, hosting>>

-----------------------------------------------------------------------------
(* Attaching and detaching (nova.py).                                       *)

(* The attachments of a deleted server stay, and its volumes in use. *)
ServerDelete(c) ==
  /\ Fresh(c)
  /\ \E s \in hosting : hosting' = hosting \ {s}
  /\ Moves(c, "done")
  /\ UNCHANGED <<volume, attachment, stores>>

(* The server exists.  Without a volumeId the call takes a volume that is  *)
(* available: the first one made, here any.                                *)
AskToAttach(c) ==
  /\ Fresh(c)
  /\ hosting # {}
  /\ \/ \E v \in VolumeIds : Asks(c, "attach", "attach", v, 0, "available", 0)
     \/ \E v \in DOMAIN volume :
          volume[v].status = "available" /\ Asks(c, "attach", "attach", v, 0, "available", 0)

(* SELECT id, status: the volume exists; its status is read, not tested. *)
FindVolume(c) ==
  LET v == demand[c].volume IN
  /\ demand[c].at = "attach"
  /\ IF v \in DOMAIN volume
       THEN Asks(c, "insert", "attach", v, c, volume[v].status, 0)
       ELSE Moves(c, "failed") /\ UNCHANGED <<volume, attachment, hosting, stores>>

InsertAttachment(c) ==
  /\ demand[c].at = "insert"
  /\ attachment' = [a \in DOMAIN attachment \cup {c} |->
                      IF a = c THEN demand[c].volume ELSE attachment[a]]
  /\ Stores(c, "mark")
  /\ UNCHANGED <<volume, hosting>>

MarkInUse(c) ==
  /\ demand[c].at = "mark"
  /\ Marked(demand[c].volume, "in-use")
  /\ Stores(c, "done")
  /\ UNCHANGED <<attachment, hosting>>

(* The attachment, by its uuid or by its volume's. *)
FindAttachment(c) ==
  /\ Fresh(c)
  /\ \E a \in DOMAIN attachment : Asks(c, "remove", "detach", attachment[a], a, "in-use", 0)

RemoveAttachment(c) ==
  /\ demand[c].at = "remove"
  /\ attachment' = [a \in DOMAIN attachment \ {demand[c].attachment} |-> attachment[a]]
  /\ Stores(c, "free")
  /\ UNCHANGED <<volume, hosting>>

(* Mutant: the volume keeps its status. *)
FreeNothing(c) ==
  /\ demand[c].at = "free"
  /\ Stores(c, "done")
  /\ UNCHANGED <<volume, attachment, hosting>>

FreeVolume(c) ==
  /\ demand[c].at = "free"
  /\ Marked(demand[c].volume, "available")
  /\ Stores(c, "done")
  /\ UNCHANGED <<attachment, hosting>>

-----------------------------------------------------------------------------
(* PUT and PATCH of an attachment have no handler in nova.py and reach the *)
(* schema engine, which knows nothing of volumes (_handle_update).         *)

(* The volumes a body may name: any, also one that has gone or never was   *)
(* (its own number stands for that, and for a body that names none of an   *)
(* attachment not found); bound: not one that is still to be made.         *)
BodyVolumes(c) == SeedVolumes \cup {b \in VolumeCalls : b = c \/ demand[b].at # "idle"}

(* The uuids of attachments, of those that have gone too, and a fresh one. *)
Uuids(c) == SeedAttachments \cup {b \in VolumeCalls : b = c \/ demand[b].storedAt > 0}

(* SELECT the attachment by its uuid or name.  A body that names no volume *)
(* writes back the one that is read, which is nameable too.  Nothing is    *)
(* found at a uuid that no attachment has, nor for a PUT to the path of    *)
(* another type, and both lead to the upsert.                              *)
AskToRewrite(c) ==
  /\ Fresh(c)
  /\ \E v \in BodyVolumes(c) :
       \/ \E a \in DOMAIN attachment : Asks(c, "rewrite", "rewrite", v, a, "in-use", 0)
       \/ \E a \in Uuids(c) : Asks(c, "upsert", "rewrite", v, a, "in-use", 0)

Displaced(a) == IF a \in DOMAIN attachment THEN attachment[a] ELSE 0

(* UPDATE ... RETURNING: if the row has gone, the answer cannot be built.  *)
RewriteAttachment(c) ==
  LET a == demand[c].attachment IN
  /\ demand[c].at = "rewrite"
  /\ \/ /\ a \in DOMAIN attachment
        /\ attachment' = [attachment EXCEPT ![a] = demand[c].volume]
        /\ StoresOver(c, "done", Displaced(a))
     \/ a \notin DOMAIN attachment /\ Moves(c, "failed") /\ UNCHANGED <<attachment, stores>>
  /\ UNCHANGED <<volume, hosting>>

(* INSERT ... ON CONFLICT (id) DO UPDATE. *)
UpsertAttachment(c) ==
  LET a == demand[c].attachment IN
  /\ demand[c].at = "upsert"
  /\ attachment' = [b \in DOMAIN attachment \cup {a} |->
                      IF b = a THEN demand[c].volume ELSE attachment[b]]
  /\ StoresOver(c, "done", Displaced(a))
  /\ UNCHANGED <<volume, hosting>>

-----------------------------------------------------------------------------
(* A call is lost before one of its statements: the client has gone, the   *)
(* process or the database connection has.                                 *)
VolumeCallLost(c) ==
  /\ demand[c].at \in {"extend", "act", "attach", "insert", "mark", "remove", "free",
                       "rewrite", "upsert"}
  /\ Moves(c, IF demand[c].at \in {"mark", "free"} THEN "half done" ELSE "failed")
  /\ UNCHANGED <<volume, attachment, hosting, stores>>

-----------------------------------------------------------------------------
VolumeCall(c) ==
  \/ VolumeCreate(c) \/ VolumeDelete(c) \/ AskToExtend(c) \/ Extend(c)
  \/ AskForAction(c) \/ Act(c) \/ ServerDelete(c)
  \/ AskToAttach(c) \/ FindVolume(c) \/ InsertAttachment(c) \/ MarkInUse(c)
  \/ FindAttachment(c) \/ RemoveAttachment(c) \/ FreeVolume(c)
  \/ AskToRewrite(c) \/ RewriteAttachment(c) \/ UpsertAttachment(c) \/ VolumeCallLost(c)

VolumesNext == \E c \in VolumeCalls : VolumeCall(c)

VolumesSpec == VolumesInit /\ [][VolumesNext]_volumeVars
=============================================================================
