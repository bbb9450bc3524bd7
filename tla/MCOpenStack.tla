---------------------------- MODULE MCOpenStack ----------------------------
(***************************************************************************)
(* Instance for TLC of the OpenStack services: the collections, with an    *)
(* engine type of two seeded documents, one of them everybody's, and a     *)
(* route type with two rows; the volumes; the aggregates; ports and router *)
(* interfaces.  They share no row, so one run takes them one at a time:    *)
(* scene says which one runs, and the others keep their initial state.     *)
(***************************************************************************)
EXTENDS CollectionsProperties, VolumesProperties, AggregatesProperties, NetworkingProperties

CONSTANTS image, server, action, s1, s2, s3, s4, web, default, free, used, agg,
          net, sub, r1, r2, p1, att

VARIABLE scene

SeededIds == <<s1, s2, s3, s4>>
SeededTypes == [s \in {s1, s2, s3, s4} |-> IF s \in {s3, s4} THEN server ELSE image]
SeededNames == [s \in {s1, s2, s3, s4} |-> IF s = s2 THEN web ELSE default]
\* A seeded document shows another name than the column and another row's id.
SeededDocs == [s \in {s1, s2, s3, s4} |-> IF s \in {s3, s4} THEN [id |-> s, name |-> default]
                                         ELSE [id |-> s2, name |-> web]]
SomeBodies == {[name |-> None, id |-> s1], [name |-> Blank, id |-> None],
               [name |-> s2, id |-> None]}

FreeAndUsed == [v \in SeedVolumes |-> IF v = free THEN "available" ELSE "in-use"]
OneAttachment == [a \in {att} |-> used]
OneAggregate == <<agg>>

TheNetwork == [s \in {sub} |-> net]
ThePort    == [p \in {p1} |-> sub]
TheServer  == [p \in {p1} |-> server]

(* Bound: ports are created and updated to be free.                        *)
FreePort == {[device |-> 0, owner |-> "nobody", subnet |-> 0]}

(* Bound: the second router takes part as long as there are two calls.     *)
FewRouters ==
  (\E c \in NetworkCalls : wire[c].router = r2) => \E c \in NetworkCalls : wire[c].at = "idle"

(* Bounds: one call on volumes fails or is lost.  Those that extend, those *)
(* that reset and those that rewrite an attachment do not mix, except that *)
(* two calls may extend and reset; one call rewrites, and names a seeded    *)
(* volume or one that does not exist.                                      *)
FewFailures ==
  \A c, d \in VolumeCalls :
    demand[c].at \in {"half done", "failed"} /\ demand[d].at \in {"half done", "failed"} => c = d

FewMixed ==
  /\ \A c, d \in VolumeCalls :
       demand[c].op = "rewrite" =>
         /\ c = d \/ demand[d].op \notin {"rewrite", "extend", "action"}
         /\ demand[c].volume \in SeedVolumes \cup {c}
  /\ \/ \E c \in VolumeCalls : demand[c].at = "idle"
     \/ \A c, d \in VolumeCalls : demand[c].op = "extend" => demand[d].op \in {"extend", "none"}

ServicesInit ==
  /\ Init /\ VolumesInit /\ AggregatesInit /\ NetworkingInit
  /\ scene \in {"collections", "volumes", "aggregates", "networking"}
  /\ scene # "collections" => heap = <<s1, s2>>

ServicesNext ==
  \/ scene = "collections" /\ Next /\ UNCHANGED <<volumeVars, aggregateVars, networkVars, scene>>
  \/ scene = "volumes" /\ VolumesNext /\ UNCHANGED <<vars, aggregateVars, networkVars, scene>>
  \/ scene = "aggregates" /\ AggregatesNext /\ UNCHANGED <<vars, volumeVars, networkVars, scene>>
  \/ scene = "networking" /\ NetworkingNext /\ UNCHANGED <<vars, volumeVars, aggregateVars, scene>>

(* A client that has been given a marker asks for the next page. *)
ServicesSpec ==
  /\ ServicesInit
  /\ [][ServicesNext]_<<vars, volumeVars, aggregateVars, networkVars, scene>>
  /\ \A w \in Walkers : WF_vars(NextPage(w))
=============================================================================
