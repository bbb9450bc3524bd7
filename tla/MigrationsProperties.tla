------------------------ MODULE MigrationsProperties ------------------------
(* What several migrators promise about one database.                      *)
EXTENDS Migrations

(* Type invariant of the migration runner's state (migrations.py, migrate). *)
TypeOK ==
  /\ table \in [Versions -> Checksums \cup {None}]
  /\ effects \in [Versions -> Nat]
  /\ pc \in [Migrators -> Running \cup {"off", "failed", "done"}]
  /\ seen \in [Migrators -> [Versions -> Checksums \cup {None}]]
  /\ next \in [Migrators -> Nat \ {0}]
  /\ faults \in Nat

(* However the migrators interleave, crash and start again, the SQL of a   *)
(* version has taken effect exactly once if schema_migrations records the  *)
(* version and never if it does not: the SQL and the row share the         *)
(* transaction of migrate, and the key refuses the second.                 *)
SchemaMatchesTable ==
  \A v \in Versions : effects[v] = IF table[v] = None THEN 0 ELSE 1

(* Every applied version stands on the versions before it, all of them     *)
(* applied, from one build: two builds that disagree about a file never    *)
(* get their migrations mixed below a version (the checksum test and the   *)
(* order of load_migrations, on a snapshot that may be stale).             *)
OneLineage ==
  \A v \in Versions : table[v] # None =>
    \E m \in Migrators :
      v <= Len(Files[m]) /\ \A u \in 1..v : table[u] = Files[m][u]

(* When the init container of a pod has succeeded, the database has every  *)
(* migration of the pod's build, with the build's checksums, and keeps     *)
(* them: the application that starts next finds the schema it expects.     *)
ReadyMeansMigrated ==
  \A m \in Migrators : pc[m] = "done" =>
    \A v \in 1..Len(Files[m]) : table[v] = Files[m][v]

Conflicts(m) ==
  \E v \in 1..Len(Files[m]) : table[v] \notin {None, Files[m][v]}

(* With failed containers started again, every process ends up done unless *)
(* another build has applied a different file: losing a race to another    *)
(* migrator costs a restart and never more.                                *)
EveryoneSettles == \A m \in Migrators : <>[](pc[m] = "done" \/ Conflicts(m))
=============================================================================
