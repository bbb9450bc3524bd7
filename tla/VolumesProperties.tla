-------------------------- MODULE VolumesProperties --------------------------
(* What the volumes promise to the calls that attach and extend them.      *)
EXTENDS Volumes

(* Type invariant of the volumes, the attachments and the calls            *)
(* (cinder.py, nova.py, schema_engine.py).                                 *)
VolumesTypeOK ==
  /\ DOMAIN volume \subseteq VolumeIds
  /\ volume \in [DOMAIN volume -> [status : Statuses, size : Sizes]]
  /\ DOMAIN attachment \subseteq AttachmentIds
  /\ attachment \in [DOMAIN attachment -> VolumeIds]
  /\ hosting \subseteq SeedServers
  /\ stores \in Nat
  /\ demand \in [VolumeCalls ->
       [at : {"idle", "extend", "act", "attach", "insert", "mark", "remove", "free",
              "rewrite", "upsert", "done", "half done", "failed"},
        op : {"none", "extend", "action", "attach", "detach", "rewrite"},
        volume : VolumeIds \cup {0}, attachment : AttachmentIds \cup {0}, seen : Statuses,
        size : Sizes \cup {0}, readAt : Nat, storedAt : Nat, left : VolumeIds \cup {0}]]

Answered(c, op) == demand[c].at = "done" /\ demand[c].op = op

(* d has read before c wrote and has written after it. *)
WrittenOver(d, c) ==
  demand[d].readAt < demand[c].storedAt /\ demand[c].storedAt < demand[d].storedAt

(* A confirmed extension is never taken back: the volume has the size      *)
(* asked for or a greater one, unless it was deleted or another extension  *)
(* of it had read the older size.  The comparison of volume_action is with *)
(* a size read earlier, so it is only worth what the reading was.          *)
ExtensionKept ==
  \A c \in VolumeCalls : Answered(c, "extend") =>
    LET v == demand[c].volume IN
    \/ v \notin DOMAIN volume
    \/ volume[v].size >= demand[c].size
    \/ \E d \in VolumeCalls : /\ Answered(d, "extend")
                              /\ demand[d].volume = v
                              /\ WrittenOver(d, c)

Attached(v) == \E a \in DOMAIN attachment : attachment[a] = v

SharesVolume(c, v) == demand[c].op \in {"attach", "detach"} /\ demand[c].volume = v

(* Everything that sets status and attachments of v apart: a call between  *)
(* its two statements or lost there, an attachment of a volume that was    *)
(* not available, an action, an attachment of it given to another volume   *)
(* or taken from one by PUT or PATCH, and two calls at once.               *)
SetsApart(c, v) ==
  \/ SharesVolume(c, v) /\ demand[c].at \in {"mark", "free", "half done"}
  \/ SharesVolume(c, v) /\ Answered(c, "attach") /\ demand[c].seen # "available"
  \/ Answered(c, "action") /\ demand[c].volume = v
  \/ /\ Answered(c, "rewrite") /\ demand[c].volume # demand[c].left
     /\ v \in {demand[c].volume, demand[c].left}
  \/ /\ SharesVolume(c, v) /\ demand[c].storedAt > 0
     /\ \E d \in VolumeCalls \ {c} :
          /\ SharesVolume(d, v)
          /\ demand[d].readAt < demand[c].storedAt
          /\ demand[c].readAt < demand[d].storedAt

(* Volumes that a seed has set apart from the start: in use without an     *)
(* attachment, attached and available, or attached several times, as those *)
(* of the demonstration cloud are (demo_cloud.py).                         *)
SeededApart(v) ==
  LET seeds == {a \in SeedAttachments : SeedTarget[a] = v} IN
  /\ v \in SeedVolumes
  /\ \/ (SeedStatus[v] = "in-use") <=> (seeds = {})
     \/ \E a, b \in seeds : a # b

(* A volume is in use exactly as long as it is attached, for a row of one  *)
(* table and a document of another that nothing ties together: the two     *)
(* agree unless one of the causes above has set them apart                 *)
(* (create_volume_attachment, delete_volume_attachment, volume_action, and *)
(* _handle_update of the schema engine, which knows no volume).            *)
InUseMeansAttached ==
  \A v \in DOMAIN volume :
    \/ (volume[v].status = "in-use") <=> Attached(v)
    \/ SeededApart(v)
    \/ \E c \in VolumeCalls : SetsApart(c, v)
=============================================================================
