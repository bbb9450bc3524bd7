---------------------- MODULE HighAvailabilityProperties ----------------------
(* What an HA resource promises about the place of its guest.              *)
EXTENDS HighAvailability

(* Type invariant of the two rows and the calls (ha.py). *)
HaTypeOK ==
  /\ guestNode \in HaNodes \cup {Missing}
  /\ haNode \in HaNodes \cup {Missing}
  /\ haNote \in HaNodes \cup {Missing}
  /\ placings \in Nat
  /\ haCall \in [HaCalls ->
       [at : {"idle", "guest", "insert", "state", "resource", "guest row", "note",
              "done", "failed", "half done"},
        op : {"none", "create", "update", "relocate", "move"},
        node : HaNodes \cup {Missing}, note : HaNodes \cup {Missing},
        readAt : Nat, placedAt : Nat]]

HasPlaced(c) == haCall[c].placedAt > 0

(* A relocation or a creation that began after all that c did.             *)
SettledSince(c) ==
  \E r \in HaCalls : /\ haCall[r].at = "done" /\ haCall[r].op \in {"create", "relocate"}
                     /\ haCall[r].readAt >= haCall[c].placedAt

AtOnce(c, d) ==
  /\ c # d /\ HasPlaced(c) /\ HasPlaced(d)
  /\ haCall[c].readAt < haCall[d].placedAt /\ haCall[d].readAt < haCall[c].placedAt

(* What sets the places apart, until a relocation or a creation that       *)
(* began later has settled it: a relocation that is not over, a guest      *)
(* moved by others, and two calls at once.                                 *)
Unsettles(c) ==
  /\ HasPlaced(c) /\ ~SettledSince(c)
  /\ \/ haCall[c].op = "relocate" /\ haCall[c].at # "done"
     \/ haCall[c].op = "move"
     \/ \E d \in HaCalls : AtOnce(c, d)

(* The HA resource is where its guest is, and its note says so, though     *)
(* three statements without a lock place them, other calls write back the  *)
(* note they have read, and a resource made again has the old key: they    *)
(* differ only as long as one of the causes above is not settled           *)
(* (ha_relocate, ha_resource_create, ha_resource_update).                  *)
PlacesAgree ==
  haNode # Missing /\ guestNode # Missing =>
    \/ haNode = guestNode /\ haNote \in {guestNode, Missing}
    \/ \E c \in HaCalls : Unsettles(c)
=============================================================================
