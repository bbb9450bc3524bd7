---------------------- MODULE ClusterDocumentProperties ----------------------
(* What the cluster document promises to the calls that edit it.           *)
EXTENDS ClusterDocument

(* Type invariant of the document, the rows and the calls                  *)
(* (common.py, cluster_metadata and save_cluster_metadata).                *)
DocumentTypeOK ==
  /\ document \in [Paths -> Entries]
  /\ hostRow \in [Hosts -> RowStates]
  /\ saves \in Nat
  /\ edit \in [Editors ->
       [at : {"idle", "done", "failed"} \cup BetweenStatements, host : Hosts \cup {Absent},
        writes : SUBSET Paths, forced : BOOLEAN, copy : [Paths -> Entries],
        readAt : Nat, savedAt : Nat]]

(* The stored document never has a node of a fabric it does not have,      *)
(* whatever calls interleave and wherever one is lost: fabric_node_create  *)
(* looks for the fabric in the copy it saves whole, and fabric_delete      *)
(* takes the nodes along.                                                  *)
FabricNodesHaveFabric ==
  \A f \in Fabrics, x \in FabricNodes : Has(FabricNode(f, x)) => Has(Fabric(f))

(* Every host the document lists as added or joined has its row in nodes,  *)
(* through races of two joins and losses between the statements of         *)
(* cluster_config.py: the row is found or inserted before the document is  *)
(* saved, and is never taken away.                                         *)
MembersHaveRows ==
  \A h \in Hosts : Has(Added(h)) \/ Has(Joined(h)) => hostRow[h] # "none"

(* Both: nothing the document refers to is missing, in the document itself *)
(* or in the table beside it.                                              *)
DocumentWhole == FabricNodesHaveFabric /\ MembersHaveRows

IsSaved(c) == edit[c].savedAt > 0

(* d has saved after c, from a document older than c's save. *)
Overlapped(d, c) ==
  edit[d].readAt < edit[c].savedAt /\ edit[c].savedAt < edit[d].savedAt

(* d has saved after c and changed the path itself. *)
Superseded(d, c, path) == edit[c].savedAt < edit[d].savedAt /\ path \in edit[d].writes

(* What a confirmed call wrote is still in the document, be it an entry,   *)
(* the SDN lock or the flag for pending changes, unless a later call       *)
(* changed that very entry or overlapped the first one: lost updates have  *)
(* no other cause, and calls to unrelated settings that do not overlap     *)
(* never disturb each other (all handlers over save_cluster_metadata).     *)
ConfirmedChangeKept ==
  \A c \in Editors : IsSaved(c) => \A p \in edit[c].writes :
    \/ document[p] = edit[c].copy[p]
    \/ \E d \in Editors : Superseded(d, c, p) \/ Overlapped(d, c)

(* The SDN lock is granted to a second call only if the second one said    *)
(* allow-pending, overlapped the first, or came after a call that released *)
(* the lock or overwrote it by overlapping the first (sdn.py, lock_create: *)
(* the test and the write are two statements).                             *)
LockGrantedOnce ==
  \A c, d \in Granted \ {Earlier} :
    edit[c].savedAt < edit[d].savedAt /\ ~edit[d].forced =>
      \/ Overlapped(d, c)
      \/ \E e \in Editors \ {d} :
           /\ edit[e].savedAt <= edit[d].readAt
           /\ Superseded(e, c, Lock) \/ Overlapped(e, c)
=============================================================================
