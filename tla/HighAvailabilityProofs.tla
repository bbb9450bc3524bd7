------------------------ MODULE HighAvailabilityProofs ------------------------
(***************************************************************************)
(* Proofs about a guest and its HA resource, for any number of calls and   *)
(* nodes.                                                                  *)
(***************************************************************************)
EXTENDS HighAvailabilityProperties, TLAPS

Stages == {"idle", "guest", "insert", "state", "resource", "guest row", "note",
           "done", "failed", "half done"}

Purposes == {"none", "create", "update", "relocate", "move"}

Somewhere == HaNodes \cup {Missing}

HaRecords == [at : Stages, op : Purposes, node : Somewhere, note : Somewhere,
              readAt : Nat, placedAt : Nat]

LEMMA TypeParts ==
  HaTypeOK <=> /\ guestNode \in Somewhere /\ haNode \in Somewhere /\ haNote \in Somewhere
               /\ placings \in Nat /\ haCall \in [HaCalls -> HaRecords]
BY DEF HaTypeOK, HaRecords, Stages, Purposes, Somewhere

LEMMA TypePartsNext ==
  HaTypeOK' <=> /\ guestNode' \in Somewhere /\ haNode' \in Somewhere /\ haNote' \in Somewhere
                /\ placings' \in Nat /\ haCall' \in [HaCalls -> HaRecords]
BY DEF HaTypeOK, HaRecords, Stages, Purposes, Somewhere

Alone(c) == \A d \in HaCalls : d # c => haCall[d].placedAt <= haCall[c].readAt

(* The clock of placings: nobody is ahead of it, and the last one is there.*)
Clocks ==
  /\ \A c \in HaCalls : haCall[c].readAt <= placings /\ haCall[c].placedAt <= placings
  /\ placings > 0 => \E c \in HaCalls : haCall[c].placedAt = placings

(* What a call is for at each of its stages; who has placed something.     *)
Stage(c) ==
  /\ haCall[c].at \in {"idle", "guest", "insert", "state", "resource", "failed"} =>
       haCall[c].placedAt = 0
  /\ haCall[c].at \in {"guest", "insert"} => haCall[c].op = "create"
  /\ haCall[c].at = "state" => haCall[c].op = "update"
  /\ haCall[c].at \in {"resource", "guest row", "note", "half done"} => haCall[c].op = "relocate"
  /\ haCall[c].at = "idle" => haCall[c].op = "none"

(* What a call has read is still so until something is placed, and what a  *)
(* relocation has placed until another call places something.              *)
Fresh(c) ==
  /\ haCall[c].at = "insert" /\ haCall[c].readAt = placings => haCall[c].node = guestNode
  /\ haCall[c].at = "state" /\ haCall[c].readAt = placings /\ haNode # Missing =>
       haCall[c].note = haNote
  /\ haCall[c].at \in {"guest row", "note"} /\ Alone(c) => haNode \in {Missing, haCall[c].node}
  /\ haCall[c].at = "note" /\ Alone(c) => guestNode \in {Missing, haCall[c].node}

Inductive ==
  HaTypeOK /\ Clocks /\ (\A c \in HaCalls : Stage(c) /\ Fresh(c)) /\ PlacesAgree

LEMMA PlacedNotZero ==
  ASSUME NEW c \in HaCalls, HasPlaced(c), haCall[c].placedAt \in Nat
  PROVE  haCall[c].placedAt # 0
<1> DEFINE at == haCall[c].placedAt
<1>1. at > 0 /\ at \in Nat
  BY DEF HasPlaced
<1> HIDE DEF at
<1>2. at # 0
  BY <1>1
<1> QED
  BY <1>2 DEF at

LEMMA InitInductive == HaInit => Inductive
<1> SUFFICES ASSUME HaInit PROVE Inductive
  OBVIOUS
<1>1. \A c \in HaCalls : haCall[c] = NoHaCall
  BY DEF HaInit
<1>2. HaTypeOK
  BY HighAvailabilityAssumption, TypeParts
     DEF HaInit, NoHaCall, HaRecords, Stages, Purposes, Somewhere
<1>3. Clocks
  BY <1>1 DEF HaInit, NoHaCall, Clocks
<1>4. ASSUME NEW c \in HaCalls PROVE Stage(c) /\ Fresh(c)
  <2>1. haCall[c].at = "idle" /\ haCall[c].op = "none" /\ haCall[c].placedAt = 0
    BY <1>1 DEF NoHaCall
  <2> QED
    BY <2>1 DEF Stage, Fresh
<1>5. PlacesAgree
  BY DEF HaInit, PlacesAgree
<1> QED
  BY <1>2, <1>3, <1>4, <1>5 DEF Inductive

-----------------------------------------------------------------------------
(* A step of call c that places nothing: what set the places apart still   *)
(* does, unless the resource is gone.                                      *)
LEMMA QuietStep ==
  ASSUME Inductive, HaTypeOK', NEW c \in HaCalls,
         \A d \in HaCalls : d # c => haCall'[d] = haCall[d],
         placings' = placings, guestNode' = guestNode,
         \/ haNode' = haNode /\ haNote' = haNote
         \/ haNode' = Missing,
         haCall[c].at \notin {"done", "half done", "failed"},
         haCall'[c].placedAt = haCall[c].placedAt, haCall'[c].readAt <= placings,
         haCall[c].placedAt # 0 => /\ haCall'[c].at = "half done" /\ haCall'[c].op = haCall[c].op
                                   /\ haCall'[c].readAt = haCall[c].readAt,
         haCall'[c].at = "done" => haCall'[c].op = "none",
         Stage(c)', Fresh(c)'
  PROVE  Inductive'
<1>1. \A d \in HaCalls : /\ haCall[d].readAt \in Nat /\ haCall[d].placedAt \in Nat
                         /\ haCall'[d].readAt \in Nat /\ haCall'[d].placedAt \in Nat
  BY TypeParts, TypePartsNext DEF Inductive, HaRecords
<1>2. \A d \in HaCalls : haCall'[d].placedAt = haCall[d].placedAt
  OBVIOUS
<1>3. Clocks'
  BY <1>1, <1>2 DEF Inductive, Clocks
<1>4. ASSUME NEW d \in HaCalls, d # c
      PROVE  Stage(d)' /\ Fresh(d)'
  <2>1. Alone(d)' => Alone(d)
    BY <1>2, <1>4 DEF Alone
  <2>2. Stage(d) /\ Fresh(d) /\ haCall'[d] = haCall[d]
    BY <1>4 DEF Inductive
  <2> QED
    BY <2>1, <2>2 DEF Stage, Fresh
<1>5. PlacesAgree'
  <2> SUFFICES ASSUME haNode' # Missing, guestNode' # Missing,
                      ~(haNode = guestNode /\ haNote \in {guestNode, Missing}),
                      haNode' = haNode, haNote' = haNote
               PROVE  \E d \in HaCalls : Unsettles(d)'
    BY DEF PlacesAgree
  <2> PICK d \in HaCalls : Unsettles(d)
    BY DEF Inductive, PlacesAgree
  <2>1. \A e \in HaCalls : HasPlaced(e) => HasPlaced(e)' /\ haCall'[e].readAt = haCall[e].readAt
                                           /\ haCall'[e].op = haCall[e].op
    <3> SUFFICES ASSUME NEW e \in HaCalls, HasPlaced(e)
                 PROVE  HasPlaced(e)' /\ haCall'[e].readAt = haCall[e].readAt
                        /\ haCall'[e].op = haCall[e].op
      OBVIOUS
    <3>1. haCall[e].placedAt # 0
      BY <1>1, PlacedNotZero
    <3>2. HasPlaced(e)'
      BY <1>2 DEF HasPlaced
    <3> QED
      BY <3>1, <3>2
  <2>2. \A e \in HaCalls : AtOnce(d, e) => AtOnce(d, e)'
    BY <1>2, <2>1 DEF AtOnce
  <2>3. ~SettledSince(d)'
    BY <1>2 DEF Unsettles, SettledSince
  <2>4. haCall[d].at # "done" => haCall'[d].at # "done"
    <3>1. HasPlaced(d)
      BY DEF Unsettles
    <3>2. haCall[d].placedAt # 0
      BY <1>1, <3>1, PlacedNotZero
    <3> QED
      BY <3>2
  <2> QED
    BY <2>1, <2>2, <2>3, <2>4 DEF Unsettles
<1> QED
  BY <1>3, <1>4, <1>5 DEF Inductive

(* A step of call c that places something, all facts about the others.     *)
LEMMA PlacingStep ==
  ASSUME Inductive, HaTypeOK', NEW c \in HaCalls,
         \A d \in HaCalls : d # c => haCall'[d] = haCall[d],
         placings' = placings + 1, haCall'[c].placedAt = placings + 1,
         haCall'[c].readAt <= placings,
         Stage(c)', Fresh(c)', PlacesAgree'
  PROVE  Inductive'
<1>1. /\ placings \in Nat
      /\ \A d \in HaCalls : /\ haCall[d].readAt \in Nat /\ haCall[d].placedAt \in Nat
                            /\ haCall'[d].readAt \in Nat /\ haCall'[d].placedAt \in Nat
  BY TypeParts, TypePartsNext DEF Inductive, HaRecords
<1>2. \A d \in HaCalls : haCall[d].readAt <= placings /\ haCall[d].placedAt <= placings
  BY DEF Inductive, Clocks
<1>3. Clocks'
  BY <1>1, <1>2 DEF Clocks
<1>4. ASSUME NEW d \in HaCalls, d # c
      PROVE  Stage(d)' /\ Fresh(d)'
  <2>1. Stage(d) /\ haCall'[d] = haCall[d]
    BY <1>4 DEF Inductive
  <2>2. haCall'[d].readAt # placings' /\ ~Alone(d)'
    BY <1>1, <1>2, <1>4, <2>1 DEF Alone
  <2> QED
    BY <2>1, <2>2 DEF Stage, Fresh
<1> QED
  BY <1>3, <1>4 DEF Inductive

(* Who has placed last is not settled, so another who placed since it read *)
(* excuses it.                                                             *)
LEMMA LastPlaced ==
  ASSUME Inductive, HaTypeOK', NEW c \in HaCalls,
         \A d \in HaCalls : d # c => haCall'[d] = haCall[d],
         haCall'[c].placedAt = placings + 1, haCall'[c].readAt <= placings
  PROVE  /\ HasPlaced(c)' /\ ~SettledSince(c)'
         /\ \A d \in HaCalls : d # c /\ haCall[d].placedAt > haCall'[c].readAt => Unsettles(c)'
<1>1. /\ placings \in Nat
      /\ \A d \in HaCalls : /\ haCall[d].readAt \in Nat /\ haCall[d].placedAt \in Nat
                            /\ haCall'[d].readAt \in Nat /\ haCall'[d].placedAt \in Nat
  BY TypeParts, TypePartsNext DEF Inductive, HaRecords
<1>2. \A d \in HaCalls : haCall[d].readAt <= placings
  BY DEF Inductive, Clocks
<1>3. \A d \in HaCalls : haCall'[d].readAt <= placings
  BY <1>2
<1>4. HasPlaced(c)' /\ ~SettledSince(c)'
  BY <1>1, <1>3 DEF HasPlaced, SettledSince
<1>5. ASSUME NEW d \in HaCalls, d # c, haCall[d].placedAt > haCall'[c].readAt
      PROVE  Unsettles(c)'
  <2>1. AtOnce(c, d)'
    BY <1>1, <1>3, <1>4, <1>5 DEF AtOnce, HasPlaced
  <2> QED
    BY <1>4, <2>1 DEF Unsettles
<1> QED
  BY <1>4, <1>5

-----------------------------------------------------------------------------
(* How the steps treat their call.                                         *)
(* The call goes to another stage and keeps the rest.                      *)
LEMMA StageCall ==
  ASSUME HaTypeOK, NEW c \in HaCalls, NEW at \in Stages,
         haCall' = [haCall EXCEPT ![c].at = at]
  PROVE  /\ haCall' \in [HaCalls -> HaRecords]
         /\ haCall'[c].at = at
         /\ haCall'[c].op = haCall[c].op /\ haCall'[c].node = haCall[c].node
         /\ haCall'[c].note = haCall[c].note /\ haCall'[c].readAt = haCall[c].readAt
         /\ haCall'[c].placedAt = haCall[c].placedAt
         /\ \A d \in HaCalls : d # c => haCall'[d] = haCall[d]
<1> DEFINE new == [haCall[c] EXCEPT !.at = at]
<1>1. haCall \in [HaCalls -> HaRecords] /\ haCall[c] \in HaRecords
  BY TypeParts
<1>2. /\ new \in HaRecords /\ new.at = at /\ new.op = haCall[c].op /\ new.node = haCall[c].node
      /\ new.note = haCall[c].note /\ new.readAt = haCall[c].readAt
      /\ new.placedAt = haCall[c].placedAt
  BY <1>1 DEF HaRecords
<1>3. haCall' = [haCall EXCEPT ![c] = new]
  OBVIOUS
<1> HIDE DEF new
<1> QED
  BY <1>1, <1>2, <1>3

LEMMA PlacedCall ==
  ASSUME HaTypeOK, NEW c \in HaCalls, NEW at \in Stages, Placed(c, at)
  PROVE  /\ haCall' \in [HaCalls -> HaRecords]
         /\ haCall'[c].at = at
         /\ haCall'[c].op = haCall[c].op /\ haCall'[c].node = haCall[c].node
         /\ haCall'[c].note = haCall[c].note /\ haCall'[c].readAt = haCall[c].readAt
         /\ haCall'[c].placedAt = placings + 1
         /\ placings \in Nat /\ placings' = placings + 1 /\ placings' \in Nat
         /\ \A d \in HaCalls : d # c => haCall'[d] = haCall[d]
<1> DEFINE there == [haCall[c] EXCEPT !.at = at]
           new == [there EXCEPT !.placedAt = placings + 1]
<1>1. haCall \in [HaCalls -> HaRecords] /\ haCall[c] \in HaRecords /\ placings \in Nat
  BY TypeParts
<1>2. /\ there \in HaRecords /\ there.at = at
      /\ there.op = haCall[c].op /\ there.node = haCall[c].node
      /\ there.note = haCall[c].note /\ there.readAt = haCall[c].readAt
  BY <1>1 DEF HaRecords
<1>3. placings' = placings + 1 /\ haCall' = [haCall EXCEPT ![c] = new]
  BY DEF Placed
<1> HIDE DEF there
<1>4. /\ new \in HaRecords /\ new.at = at /\ new.placedAt = placings + 1
      /\ new.op = there.op /\ new.node = there.node
      /\ new.note = there.note /\ new.readAt = there.readAt
  BY <1>1, <1>2 DEF HaRecords
<1> HIDE DEF new
<1> QED
  BY <1>1, <1>2, <1>3, <1>4

-----------------------------------------------------------------------------
LEMMA OpensStep ==
  ASSUME Inductive, NEW c \in HaCalls, haCall[c].at \in {"idle", "guest"},
         NEW at \in {"guest", "insert", "state", "resource"}, NEW op \in Purposes,
         NEW node \in Somewhere, NEW note \in Somewhere, Opens(c, at, op, node, note),
         at \in {"guest", "insert"} => op = "create",
         at = "state" => op = "update" /\ note = haNote,
         at = "resource" => op = "relocate",
         at = "insert" => node = guestNode
  PROVE  Inductive'
<1> DEFINE new == [at |-> at, op |-> op, node |-> node, note |-> note,
                   readAt |-> placings, placedAt |-> 0]
<1>1. /\ HaTypeOK /\ haCall \in [HaCalls -> HaRecords] /\ placings \in Nat
      /\ guestNode \in Somewhere /\ haNode \in Somewhere /\ haNote \in Somewhere
  BY TypeParts DEF Inductive
<1>2. new \in HaRecords
  BY <1>1 DEF HaRecords, Stages
<1>3. /\ haCall' = [haCall EXCEPT ![c] = new]
      /\ guestNode' = guestNode /\ haNode' = haNode /\ haNote' = haNote /\ placings' = placings
  BY DEF Opens
<1>4. /\ haCall' \in [HaCalls -> HaRecords] /\ haCall'[c] = new
      /\ \A d \in HaCalls : d # c => haCall'[d] = haCall[d]
  <2> HIDE DEF new
  <2> QED
    BY <1>1, <1>2, <1>3
<1>5. HaTypeOK'
  BY <1>1, <1>3, <1>4, TypePartsNext
<1>6. /\ haCall'[c].at = at /\ haCall'[c].op = op /\ haCall'[c].node = node
      /\ haCall'[c].note = note /\ haCall'[c].readAt = placings /\ haCall'[c].placedAt = 0
  BY <1>4
<1>7. Stage(c)'
  BY <1>6 DEF Stage
<1>8. Fresh(c)'
  BY <1>3, <1>6 DEF Fresh
<1>9. haCall[c].placedAt = 0
  BY DEF Inductive, Stage
<1> HIDE DEF new
<1>10. haCall'[c].readAt <= placings
  BY <1>1, <1>6
<1> QED
  BY <1>3, <1>4, <1>5, <1>6, <1>7, <1>8, <1>9, <1>10, QuietStep

LEMMA GivesUpStep ==
  ASSUME Inductive, NEW c \in HaCalls, NEW at \in {"failed", "half done"}, GivesUp(c, at),
         \/ at = "failed" /\ haCall[c].at \in {"guest", "insert", "state", "resource"}
         \/ at = "half done" /\ haCall[c].at \in {"guest row", "note"}
  PROVE  Inductive'
<1>1. /\ haCall' = [haCall EXCEPT ![c].at = at]
      /\ guestNode' = guestNode /\ haNode' = haNode /\ haNote' = haNote /\ placings' = placings
  BY DEF GivesUp
<1>2. /\ haCall' \in [HaCalls -> HaRecords]
      /\ haCall'[c].at = at
      /\ haCall'[c].op = haCall[c].op /\ haCall'[c].readAt = haCall[c].readAt
      /\ haCall'[c].placedAt = haCall[c].placedAt
      /\ \A d \in HaCalls : d # c => haCall'[d] = haCall[d]
  BY <1>1, StageCall DEF Inductive, Stages
<1>3. HaTypeOK'
  BY <1>1, <1>2, TypeParts, TypePartsNext DEF Inductive
<1>4. Stage(c) /\ haCall[c].readAt <= placings
  BY DEF Inductive, Clocks
<1>5. Stage(c)' /\ Fresh(c)'
  BY <1>2, <1>4 DEF Stage, Fresh
<1>6. haCall[c].placedAt # 0 => haCall'[c].at = "half done"
  <2>1. CASE haCall[c].at \in {"guest", "insert", "state", "resource"}
    BY <1>4, <2>1 DEF Stage
  <2>2. CASE at = "half done"
    BY <1>2, <2>2
  <2> QED
    BY <2>1, <2>2
<1> QED
  BY <1>1, <1>2, <1>3, <1>4, <1>5, <1>6, QuietStep

LEMMA DeleteResourceStep ==
  ASSUME Inductive, NEW c \in HaCalls, DeleteResource(c)
  PROVE  Inductive'
<1>1. /\ haCall[c].at = "idle" /\ haCall' = [haCall EXCEPT ![c].at = "done"]
      /\ haNode' = Missing /\ haNote' = Missing /\ guestNode' = guestNode /\ placings' = placings
  BY DEF DeleteResource, Unbegun
<1>2. /\ haCall' \in [HaCalls -> HaRecords]
      /\ haCall'[c].at = "done"
      /\ haCall'[c].op = haCall[c].op /\ haCall'[c].readAt = haCall[c].readAt
      /\ haCall'[c].placedAt = haCall[c].placedAt
      /\ \A d \in HaCalls : d # c => haCall'[d] = haCall[d]
  BY <1>1, StageCall DEF Inductive, Stages
<1>3. HaTypeOK'
  BY <1>1, <1>2, TypeParts, TypePartsNext DEF Inductive, Somewhere
<1>4. haCall[c].placedAt = 0 /\ haCall[c].op = "none"
  BY <1>1 DEF Inductive, Stage
<1>6. haCall'[c].readAt <= placings
  BY <1>2 DEF Inductive, Clocks
<1>5. Stage(c)' /\ Fresh(c)'
  BY <1>2 DEF Stage, Fresh
<1> QED
  BY <1>1, <1>2, <1>3, <1>4, <1>5, <1>6, QuietStep

(* Of a placing step, what remains is that the places agree after it.      *)
LEMMA PlacedStep ==
  ASSUME Inductive, NEW c \in HaCalls, NEW at \in {"guest row", "note", "done"}, Placed(c, at),
         haCall[c].at \in {"insert", "state", "resource", "guest row", "note"},
         at # "done" => haCall[c].op = "relocate",
         guestNode' \in Somewhere, haNode' \in Somewhere, haNote' \in Somewhere,
         at \in {"guest row", "note"} /\ Alone(c) => haNode' \in {Missing, haCall[c].node},
         at = "note" /\ Alone(c) => guestNode' \in {Missing, haCall[c].node},
         PlacesAgree'
  PROVE  Inductive'
<1>1. /\ haCall' \in [HaCalls -> HaRecords]
      /\ haCall'[c].at = at
      /\ haCall'[c].op = haCall[c].op /\ haCall'[c].node = haCall[c].node
      /\ haCall'[c].readAt = haCall[c].readAt /\ haCall'[c].placedAt = placings + 1
      /\ placings \in Nat /\ placings' = placings + 1 /\ placings' \in Nat
      /\ \A d \in HaCalls : d # c => haCall'[d] = haCall[d]
  BY PlacedCall DEF Inductive, Stages
<1>2. HaTypeOK'
  BY <1>1, TypePartsNext
<1>3. Alone(c)' => Alone(c)
  BY <1>1 DEF Alone
<1>4. Stage(c)' /\ Fresh(c)'
  BY <1>1, <1>3 DEF Stage, Fresh
<1>5. haCall'[c].readAt <= placings
  BY <1>1 DEF Inductive, Clocks
<1> QED
  BY <1>1, <1>2, <1>4, <1>5, PlacingStep

LEMMA InsertResourceStep ==
  ASSUME Inductive, NEW c \in HaCalls, InsertResource(c)
  PROVE  Inductive'
<1>1. CASE haNode # Missing
  <2>1. GivesUp(c, "failed") /\ haCall[c].at = "insert"
    BY <1>1 DEF InsertResource
  <2> QED
    BY <2>1, GivesUpStep
<1>2. CASE haNode = Missing
  <2>1. /\ haCall[c].at = "insert" /\ Placed(c, "done")
        /\ haNode' = haCall[c].node /\ haNote' = Missing /\ guestNode' = guestNode
    BY <1>2 DEF InsertResource
  <2>2. haCall[c] \in HaRecords /\ guestNode \in Somewhere /\ HaTypeOK
    BY TypeParts DEF Inductive
  <2>3. haNode' \in Somewhere /\ haNote' \in Somewhere /\ guestNode' \in Somewhere
    BY <2>1, <2>2 DEF HaRecords, Somewhere
  <2>4. /\ haCall' \in [HaCalls -> HaRecords] /\ haCall'[c].readAt = haCall[c].readAt
        /\ haCall'[c].placedAt = placings + 1 /\ placings \in Nat /\ placings' \in Nat
        /\ \A d \in HaCalls : d # c => haCall'[d] = haCall[d]
    BY <2>1, <2>2, PlacedCall DEF Stages
  <2>5. PlacesAgree'
    <3>1. CASE haCall[c].readAt = placings
      <4>1. haCall[c].node = guestNode
        BY <2>1, <3>1 DEF Inductive, Fresh
      <4> QED
        BY <2>1, <4>1 DEF PlacesAgree
    <3>2. CASE haCall[c].readAt # placings
      <4>1. HaTypeOK' /\ haCall[c].readAt \in Nat
        BY <2>2, <2>3, <2>4, TypePartsNext DEF HaRecords
      <4>2. haCall[c].readAt <= placings /\ haCall[c].placedAt = 0
        BY <2>1 DEF Inductive, Clocks, Stage
      <4>3. placings > 0 /\ haCall[c].readAt < placings
        BY <2>4, <3>2, <4>1, <4>2
      <4>4. PICK d \in HaCalls : haCall[d].placedAt = placings
        BY <4>3 DEF Inductive, Clocks
      <4>5. d # c /\ haCall[d].placedAt > haCall'[c].readAt
        BY <2>4, <4>2, <4>3, <4>4
      <4>6. Unsettles(c)'
        BY <2>4, <4>1, <4>2, <4>5, LastPlaced
      <4> QED
        BY <4>6 DEF PlacesAgree
    <3> QED
      BY <3>1, <3>2
  <2> QED
    BY <2>1, <2>3, <2>5, PlacedStep
<1> QED
  BY <1>1, <1>2

(* A stale note is put down to who has placed something since.             *)
LEMMA WriteStateStep ==
  ASSUME Inductive, NEW c \in HaCalls, WriteState(c)
  PROVE  Inductive'
<1>1. /\ haCall[c].at = "state" /\ Placed(c, "done")
      /\ haNote' = IF haNode = Missing THEN Missing ELSE haCall[c].note
      /\ guestNode' = guestNode /\ haNode' = haNode
  BY DEF WriteState
<1>2. /\ haCall[c] \in HaRecords /\ guestNode \in Somewhere /\ haNode \in Somewhere /\ HaTypeOK
  BY TypeParts DEF Inductive
<1>3. haNode' \in Somewhere /\ haNote' \in Somewhere /\ guestNode' \in Somewhere
  BY <1>1, <1>2 DEF HaRecords, Somewhere
<1>4. /\ haCall' \in [HaCalls -> HaRecords] /\ haCall'[c].readAt = haCall[c].readAt
      /\ haCall'[c].op = haCall[c].op
      /\ haCall'[c].placedAt = placings + 1 /\ placings \in Nat /\ placings' \in Nat
      /\ \A d \in HaCalls : d # c => haCall'[d] = haCall[d]
  BY <1>1, <1>2, PlacedCall DEF Stages
<1>5. haCall[c].readAt <= placings /\ haCall[c].placedAt = 0 /\ haCall[c].op = "update"
  BY <1>1 DEF Inductive, Clocks, Stage
<1>6. /\ HaTypeOK'
      /\ \A d \in HaCalls : haCall[d].readAt \in Nat /\ haCall[d].placedAt \in Nat
  BY <1>2, <1>3, <1>4, TypeParts, TypePartsNext DEF HaRecords
<1>7. PlacesAgree'
  <2>1. CASE haCall[c].readAt = placings
    <3> SUFFICES ASSUME haNode # Missing, guestNode # Missing,
                        ~(haNode = guestNode /\ haNote' \in {guestNode, Missing})
                 PROVE  \E d \in HaCalls : Unsettles(d)'
      BY <1>1 DEF PlacesAgree
    <3>1. haNote' = haNote
      BY <1>1, <2>1 DEF Inductive, Fresh
    <3> PICK d \in HaCalls : Unsettles(d)
      BY <3>1 DEF Inductive, PlacesAgree
    <3>2. HasPlaced(d) /\ ~SettledSince(d)
      BY DEF Unsettles
    <3>3. d # c
      BY <1>5, <1>6, <3>2 DEF HasPlaced
    <3>4. \A e \in HaCalls : HasPlaced(e) => haCall'[e] = haCall[e]
      BY <1>4, <1>5, <1>6 DEF HasPlaced
    <3>5. HasPlaced(d)' /\ ~SettledSince(d)'
      BY <1>4, <1>5, <3>2, <3>3 DEF HasPlaced, SettledSince
    <3>6. \A e \in HaCalls : AtOnce(d, e) => AtOnce(d, e)'
      BY <3>4 DEF AtOnce, HasPlaced
    <3>7. Unsettles(d)'
      BY <1>4, <3>3, <3>5, <3>6 DEF Unsettles
    <3> QED
      BY <3>7
  <2>2. CASE haCall[c].readAt # placings
    <3>1. placings > 0 /\ haCall[c].readAt < placings
      BY <1>4, <1>5, <1>6, <2>2
    <3>2. PICK d \in HaCalls : haCall[d].placedAt = placings
      BY <3>1 DEF Inductive, Clocks
    <3>3. d # c /\ haCall[d].placedAt > haCall'[c].readAt
      BY <1>4, <1>5, <3>1, <3>2
    <3>4. Unsettles(c)'
      BY <1>4, <1>5, <1>6, <3>3, LastPlaced
    <3> QED
      BY <3>4 DEF PlacesAgree
  <2> QED
    BY <2>1, <2>2
<1> QED
  BY <1>1, <1>3, <1>7, PlacedStep

(* A relocation that is not over excuses itself.                           *)
LEMMA RelocatingStep ==
  ASSUME Inductive, NEW c \in HaCalls, NEW at \in {"guest row", "note"}, Placed(c, at),
         haCall[c].at \in {"resource", "guest row"},
         guestNode' \in Somewhere, haNode' \in Somewhere, haNote' \in Somewhere,
         Alone(c) => haNode' \in {Missing, haCall[c].node},
         at = "note" /\ Alone(c) => guestNode' \in {Missing, haCall[c].node}
  PROVE  Inductive'
<1>1. HaTypeOK /\ haCall[c].op = "relocate" /\ haCall[c].readAt <= placings
  BY DEF Inductive, Stage, Clocks
<1>2. /\ haCall' \in [HaCalls -> HaRecords] /\ haCall'[c].readAt = haCall[c].readAt
      /\ haCall'[c].at = at /\ haCall'[c].op = haCall[c].op
      /\ haCall'[c].placedAt = placings + 1 /\ placings' \in Nat
      /\ \A d \in HaCalls : d # c => haCall'[d] = haCall[d]
  BY <1>1, PlacedCall DEF Stages
<1>3. HaTypeOK'
  BY <1>2, TypePartsNext
<1>4. HasPlaced(c)' /\ ~SettledSince(c)'
  BY <1>1, <1>2, <1>3, LastPlaced
<1>5. Unsettles(c)'
  BY <1>1, <1>2, <1>4 DEF Unsettles
<1>6. PlacesAgree'
  BY <1>5 DEF PlacesAgree
<1> QED
  BY <1>1, <1>6, PlacedStep

LEMMA RelocateResourceStep ==
  ASSUME Inductive, NEW c \in HaCalls, RelocateResource(c)
  PROVE  Inductive'
<1>1. /\ haCall[c].at = "resource" /\ Placed(c, "guest row")
      /\ haNode' \in {Missing, haCall[c].node} /\ guestNode' = guestNode /\ haNote' = haNote
  BY DEF RelocateResource, Updated
<1>2. /\ haCall[c] \in HaRecords /\ guestNode \in Somewhere /\ haNote \in Somewhere
  BY TypeParts DEF Inductive
<1>3. haNode' \in Somewhere
  BY <1>1, <1>2 DEF HaRecords, Somewhere
<1> QED
  BY <1>1, <1>2, <1>3, RelocatingStep

LEMMA RelocateGuestStep ==
  ASSUME Inductive, NEW c \in HaCalls, RelocateGuest(c)
  PROVE  Inductive'
<1>1. /\ haCall[c].at = "guest row" /\ Placed(c, "note")
      /\ guestNode' \in {Missing, haCall[c].node} /\ haNode' = haNode /\ haNote' = haNote
  BY DEF RelocateGuest, Updated
<1>2. /\ haCall[c] \in HaRecords /\ haNode \in Somewhere /\ haNote \in Somewhere
  BY TypeParts DEF Inductive
<1>3. guestNode' \in Somewhere
  BY <1>1, <1>2 DEF HaRecords, Somewhere
<1>4. Alone(c) => haNode' \in {Missing, haCall[c].node}
  BY <1>1 DEF Inductive, Fresh
<1> QED
  BY <1>1, <1>2, <1>3, <1>4, RelocatingStep

(* At its end a relocation has placed the three, or another has placed     *)
(* one of them since it began.                                             *)
LEMMA NoteNodeStep ==
  ASSUME Inductive, NEW c \in HaCalls, NoteNode(c)
  PROVE  Inductive'
<1>1. /\ haCall[c].at = "note" /\ Placed(c, "done")
      /\ haNote' = IF haNode = Missing THEN Missing ELSE haCall[c].node
      /\ guestNode' = guestNode /\ haNode' = haNode
  BY DEF NoteNode
<1>2. /\ haCall[c] \in HaRecords /\ guestNode \in Somewhere /\ haNode \in Somewhere /\ HaTypeOK
  BY TypeParts DEF Inductive
<1>3. haNode' \in Somewhere /\ haNote' \in Somewhere /\ guestNode' \in Somewhere
  BY <1>1, <1>2 DEF HaRecords, Somewhere
<1>4. /\ haCall' \in [HaCalls -> HaRecords] /\ haCall'[c].readAt = haCall[c].readAt
      /\ haCall'[c].placedAt = placings + 1 /\ placings' \in Nat
      /\ \A d \in HaCalls : d # c => haCall'[d] = haCall[d]
  BY <1>1, <1>2, PlacedCall DEF Stages
<1>5. HaTypeOK' /\ haCall[c].readAt <= placings
  BY <1>3, <1>4, TypePartsNext DEF Inductive, Clocks
<1>6. \A d \in HaCalls : haCall[d].readAt \in Nat /\ haCall[d].placedAt \in Nat
  BY <1>2, TypeParts DEF HaRecords
<1>7. PlacesAgree'
  <2>1. CASE Alone(c)
    <3>1. haNode \in {Missing, haCall[c].node} /\ guestNode \in {Missing, haCall[c].node}
      BY <1>1, <2>1 DEF Inductive, Fresh
    <3> QED
      BY <1>1, <3>1 DEF PlacesAgree
  <2>2. CASE ~Alone(c)
    <3>1. PICK d \in HaCalls : d # c /\ haCall[d].placedAt > haCall[c].readAt
      BY <1>6, <2>2 DEF Alone
    <3>2. Unsettles(c)'
      BY <1>4, <1>5, <3>1, LastPlaced
    <3> QED
      BY <3>2 DEF PlacesAgree
  <2> QED
    BY <2>1, <2>2
<1> QED
  BY <1>1, <1>3, <1>7, PlacedStep

LEMMA MoveGuestStep ==
  ASSUME Inductive, NEW c \in HaCalls, MoveGuest(c)
  PROVE  Inductive'
<1> DEFINE new == [at |-> "done", op |-> "move", node |-> Missing, note |-> Missing,
                   readAt |-> placings, placedAt |-> placings + 1]
<1>1. /\ HaTypeOK /\ haCall \in [HaCalls -> HaRecords] /\ placings \in Nat
      /\ haNode \in Somewhere /\ haNote \in Somewhere
  BY TypeParts DEF Inductive
<1>2. new \in HaRecords
  <2>1. "done" \in Stages /\ "move" \in Purposes /\ Missing \in Somewhere
    BY DEF Stages, Purposes, Somewhere
  <2>2. placings + 1 \in Nat
    BY <1>1
  <2> QED
    BY <1>1, <2>1, <2>2 DEF HaRecords
<1>3. /\ haCall' = [haCall EXCEPT ![c] = new]
      /\ guestNode' \in Somewhere /\ haNode' = haNode /\ haNote' = haNote
      /\ placings' = placings + 1
  BY DEF MoveGuest, Somewhere
<1>4. /\ haCall' \in [HaCalls -> HaRecords] /\ haCall'[c] = new
      /\ \A d \in HaCalls : d # c => haCall'[d] = haCall[d]
  <2> HIDE DEF new
  <2> QED
    BY <1>1, <1>2, <1>3
<1>5. HaTypeOK'
  BY <1>1, <1>3, <1>4, TypePartsNext
<1>6. /\ haCall'[c].at = "done" /\ haCall'[c].op = "move"
      /\ haCall'[c].readAt = placings /\ haCall'[c].placedAt = placings + 1
  BY <1>4
<1> HIDE DEF new
<1>7. haCall'[c].readAt <= placings
  BY <1>1, <1>6
<1>8. HasPlaced(c)' /\ ~SettledSince(c)'
  BY <1>4, <1>5, <1>6, <1>7, LastPlaced
<1>9. Unsettles(c)'
  BY <1>6, <1>8 DEF Unsettles
<1>10. PlacesAgree'
  BY <1>9 DEF PlacesAgree
<1>11. Stage(c)' /\ Fresh(c)'
  BY <1>6 DEF Stage, Fresh
<1> QED
  BY <1>3, <1>4, <1>5, <1>6, <1>7, <1>10, <1>11, PlacingStep

-----------------------------------------------------------------------------
LEMMA StepInductive ==
  ASSUME Inductive, [HaNext]_haVars
  PROVE  Inductive'
<1>1. CASE UNCHANGED haVars
  <2>1. /\ guestNode' = guestNode /\ haNode' = haNode /\ haNote' = haNote
        /\ haCall' = haCall /\ placings' = placings
    BY <1>1 DEF haVars
  <2>2. HaTypeOK' /\ Clocks'
    BY <2>1, TypeParts, TypePartsNext DEF Inductive, Clocks
  <2>3. \A c \in HaCalls : Stage(c)' /\ Fresh(c)'
    BY <2>1 DEF Inductive, Stage, Fresh, Alone
  <2>4. \A c \in HaCalls : Unsettles(c) => Unsettles(c)'
    BY <2>1 DEF Unsettles, HasPlaced, SettledSince, AtOnce
  <2>5. PlacesAgree'
    BY <2>1, <2>4 DEF Inductive, PlacesAgree
  <2> QED
    BY <2>2, <2>3, <2>5 DEF Inductive
<1>2. CASE HaNext
  <2>1. PICK c \in HaCalls :
          \/ AskToProtect(c) \/ FindGuest(c) \/ InsertResource(c)
          \/ ReadState(c) \/ WriteState(c) \/ DeleteResource(c)
          \/ AskToRelocate(c) \/ RelocateResource(c) \/ RelocateGuest(c) \/ NoteNode(c)
          \/ HaCallLost(c) \/ MoveGuest(c)
    BY <1>2 DEF HaNext
  <2>2. /\ guestNode \in Somewhere /\ haNote \in Somewhere
        /\ Missing \in Somewhere /\ HaNodes \subseteq Somewhere
    BY TypeParts DEF Inductive, Somewhere
  <2>3. CASE AskToProtect(c)
    <3>1. haCall[c].at = "idle" /\ Opens(c, "guest", "create", Missing, Missing)
      BY <2>3 DEF AskToProtect, Unbegun
    <3> QED
      BY <2>2, <3>1, OpensStep DEF Purposes
  <2>4. CASE FindGuest(c)
    <3>1. CASE guestNode = Missing
      <4>1. haCall[c].at = "guest" /\ GivesUp(c, "failed")
        BY <2>4, <3>1 DEF FindGuest
      <4> QED
        BY <4>1, GivesUpStep
    <3>2. CASE guestNode # Missing
      <4>1. haCall[c].at = "guest" /\ Opens(c, "insert", "create", guestNode, Missing)
        BY <2>4, <3>2 DEF FindGuest
      <4> QED
        BY <2>2, <4>1, OpensStep DEF Purposes
    <3> QED
      BY <3>1, <3>2
  <2>5. CASE ReadState(c)
    <3>1. haCall[c].at = "idle" /\ Opens(c, "state", "update", Missing, haNote)
      BY <2>5 DEF ReadState, Unbegun
    <3> QED
      BY <2>2, <3>1, OpensStep DEF Purposes
  <2>6. CASE AskToRelocate(c)
    <3>1. PICK target \in HaNodes : Opens(c, "resource", "relocate", target, haNote)
      BY <2>6 DEF AskToRelocate
    <3>2. haCall[c].at = "idle" /\ target \in Somewhere
      BY <2>2, <2>6 DEF AskToRelocate, Unbegun
    <3> QED
      BY <2>2, <3>1, <3>2, OpensStep DEF Purposes
  <2>7. CASE HaCallLost(c)
    BY <2>7, GivesUpStep DEF HaCallLost
  <2> QED
    BY <2>1, <2>3, <2>4, <2>5, <2>6, <2>7, InsertResourceStep, WriteStateStep,
       DeleteResourceStep, RelocateResourceStep, RelocateGuestStep, NoteNodeStep, MoveGuestStep
<1> QED
  BY <1>1, <1>2

THEOREM InductiveCorrect == HaSpec => []Inductive
<1>1. HaInit => Inductive
  BY InitInductive
<1>2. Inductive /\ [HaNext]_haVars => Inductive'
  BY StepInductive
<1> QED
  BY <1>1, <1>2, PTL DEF HaSpec

(* The two rows and the calls keep their types (ha.py).                    *)
THEOREM HaTypes == HaSpec => []HaTypeOK
<1>1. Inductive => HaTypeOK
  BY DEF Inductive
<1> QED
  BY <1>1, InductiveCorrect, PTL

(* The HA resource is where its guest is and its note says so, but for     *)
(* what a relocation not over, a guest moved by others and calls at once   *)
(* have set apart and nothing has settled since (ha_relocate,              *)
(* ha_resource_create, ha_resource_update).                                *)
THEOREM HaPlacesAgree == HaSpec => []PlacesAgree
<1>1. Inductive => PlacesAgree
  BY DEF Inductive
<1> QED
  BY <1>1, InductiveCorrect, PTL
=============================================================================
