-------------------------- MODULE HighAvailability --------------------------
(***************************************************************************)
(* A guest and its HA resource (app/handlers/ha.py).  The resource is a    *)
(* row of the same table as the guest, with a node of its own and a state  *)
(* document in which a relocation notes the node once more; nothing ties   *)
(* the two rows or the note together.  The handlers take no lock and       *)
(* commit every statement; the guest is moved, deleted and made again by   *)
(* tasks and by the bulk migration, which do not look at the HA resource.  *)
(*                                                                         *)
(* Statements name one guest, so one is enough.  Its row and that of its   *)
(* resource have keys computed from their names: a row made again has the  *)
(* key it had before.  Nodes are never deleted.  Of the state document the *)
(* noted node is kept.  Calls are numbered in the order they begin.        *)
(***************************************************************************)
EXTENDS Naturals

CONSTANTS HaCalls,   \* the calls, 1..n
          HaNodes,   \* the nodes
          HomeNode,  \* where the guest and its resource are seeded
          Missing    \* no row, or no note

ASSUME HighAvailabilityAssumption ==
  HaCalls \subseteq Nat \ {0} /\ HomeNode \in HaNodes /\ Missing \notin HaNodes

VARIABLES guestNode,  \* the node of the guest
          haNode,     \* the node of its HA resource
          haNote,     \* the node its state document notes
          haCall,     \* haCall[c]: what call c has read and decided so far
          placings    \* statements that have placed the guest or its resource

haVars == <<guestNode, haNode, haNote, haCall, placings>>

NoHaCall == [at |-> "idle", op |-> "none", node |-> Missing, note |-> Missing,
             readAt |-> 0, placedAt |-> 0]

HaInit ==
  /\ guestNode = HomeNode /\ haNode = HomeNode /\ haNote = Missing
  /\ haCall = [c \in HaCalls |-> NoHaCall]
  /\ placings = 0

-----------------------------------------------------------------------------
Unbegun(c) ==
  /\ haCall[c].at = "idle"
  /\ \A b \in HaCalls : b < c => haCall[b].at # "idle"

(* The first SELECT of call c, which goes on to `at`. *)
Opens(c, at, op, node, note) ==
  /\ haCall' = [haCall EXCEPT ![c] = [at |-> at, op |-> op, node |-> node, note |-> note,
                                      readAt |-> placings, placedAt |-> 0]]
  /\ UNCHANGED <<guestNode, haNode, haNote, placings>>

(* A statement of call c that places something; the call goes on to `at`. *)
Placed(c, at) ==
  /\ placings' = placings + 1
  /\ haCall' = [haCall EXCEPT ![c].at = at, ![c].placedAt = placings + 1]

(* UPDATE: nothing if there is no row. *)
Updated(old, new) == IF old = Missing THEN Missing ELSE new

GivesUp(c, at) ==
  /\ haCall' = [haCall EXCEPT ![c].at = at]
  /\ UNCHANGED <<guestNode, haNode, haNote, placings>>

-----------------------------------------------------------------------------
(* ha_resource_create: SELECT EXISTS, the guest with its node, INSERT.      *)
AskToProtect(c) == Unbegun(c) /\ haNode = Missing /\ Opens(c, "guest", "create", Missing, Missing)

FindGuest(c) ==
  /\ haCall[c].at = "guest"
  /\ IF guestNode = Missing THEN GivesUp(c, "failed")
                            ELSE Opens(c, "insert", "create", guestNode, Missing)

InsertResource(c) ==
  /\ haCall[c].at = "insert"
  /\ IF haNode # Missing
       THEN GivesUp(c, "failed")
       ELSE /\ haNode' = haCall[c].node /\ haNote' = Missing
            /\ Placed(c, "done")
            /\ UNCHANGED guestNode

(* ha_resource_update: the state document read, merged and written back.   *)
ReadState(c) == Unbegun(c) /\ haNode # Missing /\ Opens(c, "state", "update", Missing, haNote)

WriteState(c) ==
  /\ haCall[c].at = "state"
  /\ haNote' = IF haNode = Missing THEN Missing ELSE haCall[c].note
  /\ Placed(c, "done")
  /\ UNCHANGED <<guestNode, haNode>>

(* ha_resource_delete. *)
DeleteResource(c) ==
  /\ Unbegun(c) /\ haNode # Missing
  /\ haNode' = Missing /\ haNote' = Missing
  /\ haCall' = [haCall EXCEPT ![c].at = "done"]
  /\ UNCHANGED <<guestNode, placings>>

(* ha_relocate and ha_migrate: the resource, the guest, the note.          *)
AskToRelocate(c) ==
  /\ Unbegun(c) /\ haNode # Missing
  /\ \E target \in HaNodes : Opens(c, "resource", "relocate", target, haNote)

RelocateResource(c) ==
  /\ haCall[c].at = "resource"
  /\ haNode' = Updated(haNode, haCall[c].node)
  /\ Placed(c, "guest row")
  /\ UNCHANGED <<guestNode, haNote>>

(* Mutant: the guest stays where it is. *)
RelocateNothing(c) ==
  /\ haCall[c].at = "guest row"
  /\ Placed(c, "note")
  /\ UNCHANGED <<guestNode, haNode, haNote>>

RelocateGuest(c) ==
  /\ haCall[c].at = "guest row"
  /\ guestNode' = Updated(guestNode, haCall[c].node)
  /\ Placed(c, "note")
  /\ UNCHANGED <<haNode, haNote>>

NoteNode(c) ==
  /\ haCall[c].at = "note"
  /\ haNote' = IF haNode = Missing THEN Missing ELSE haCall[c].node
  /\ Placed(c, "done")
  /\ UNCHANGED <<guestNode, haNode>>

(* A call is lost between two statements. *)
HaCallLost(c) ==
  \/ haCall[c].at \in {"guest", "insert", "state", "resource"} /\ GivesUp(c, "failed")
  \/ haCall[c].at \in {"guest row", "note"} /\ GivesUp(c, "half done")

(* The others: the last statement of a migration task or one of the bulk   *)
(* migration, the creation of the guest and its deletion.                  *)
MoveGuest(c) ==
  /\ Unbegun(c)
  /\ guestNode' \in (HaNodes \cup {Missing}) \ {guestNode}
  /\ placings' = placings + 1
  /\ haCall' = [haCall EXCEPT ![c] = [at |-> "done", op |-> "move", node |-> Missing,
                  note |-> Missing, readAt |-> placings, placedAt |-> placings + 1]]
  /\ UNCHANGED <<haNode, haNote>>

-----------------------------------------------------------------------------
HaNext ==
  \E c \in HaCalls :
    \/ AskToProtect(c) \/ FindGuest(c) \/ InsertResource(c)
    \/ ReadState(c) \/ WriteState(c) \/ DeleteResource(c)
    \/ AskToRelocate(c) \/ RelocateResource(c) \/ RelocateGuest(c) \/ NoteNode(c)
    \/ HaCallLost(c) \/ MoveGuest(c)

HaSpec == HaInit /\ [][HaNext]_haVars
=============================================================================
