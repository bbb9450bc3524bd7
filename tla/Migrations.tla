----------------------------- MODULE Migrations -----------------------------
(***************************************************************************)
(* The schema migration runner, app/db/migrations.py, as several processes *)
(* run it against one database: every replica of the deployment runs it    *)
(* in an init container before the application starts, and the container   *)
(* is started again when it fails.  Processes may carry different builds,  *)
(* that is different migration files.                                      *)
(*                                                                         *)
(* The SQL of a migration is opaque: what matters is whether it can be     *)
(* executed again on a schema that already has its objects (IF NOT EXISTS) *)
(* and that it takes effect when its transaction commits.  Nothing relies  *)
(* on the locks that DDL takes: two open transactions may have executed    *)
(* the same file, and only the key of schema_migrations decides.           *)
(***************************************************************************)
EXTENDS Naturals, Sequences

CONSTANTS Migrators,   \* processes that run the migrations
          Checksums,
          Files,       \* Files[m][v]: checksum of version v in the build of m
          Repeatable,  \* versions whose SQL succeeds on a schema that has it
          None,        \* no row in schema_migrations
          MaxFaults    \* bound: crashes and database errors in a behaviour

ASSUME FilesAssumption == \A m \in Migrators : Files[m] \in Seq(Checksums \ {None})
ASSUME BoundAssumption == MaxFaults \in Nat

Versions == UNION {1..Len(Files[m]) : m \in Migrators}

VARIABLES table,    \* table[v]: checksum recorded in schema_migrations, or None
          effects,  \* effects[v]: committed executions of version v's SQL
          pc,       \* pc[m]: where process m is in migrate()
          seen,     \* seen[m]: the rows m read into `applied`
          next,     \* next[m]: the version m has come to
          faults    \* crashes and errors so far

vars == <<table, effects, pc, seen, next, faults>>

InTransaction == {"executed", "recorded"}
Running == {"connected", "deciding"} \cup InTransaction

Init ==
  /\ table = [v \in Versions |-> None]
  /\ effects = [v \in Versions |-> 0]
  /\ pc = [m \in Migrators |-> "off"]
  /\ seen = [m \in Migrators |-> [v \in Versions |-> None]]
  /\ next = [m \in Migrators |-> 1]
  /\ faults = 0

Goto(m, where) == pc' = [pc EXCEPT ![m] = where]

(* Connect and create schema_migrations if it does not exist. *)
Connect(m) ==
  /\ pc[m] = "off"
  /\ Goto(m, "connected")
  /\ UNCHANGED <<table, effects, seen, next, faults>>

(* Mutant: the rows are kept from one attempt of the process to the next. *)
ReadAppliedOnce(m) ==
  /\ pc[m] = "connected"
  /\ seen' = [seen EXCEPT ![m] = IF next[m] = 1 THEN table ELSE @]
  /\ next' = [next EXCEPT ![m] = 1]
  /\ Goto(m, "deciding")
  /\ UNCHANGED <<table, effects, faults>>

(* SELECT version, checksum: a snapshot that is not read again. *)
ReadApplied(m) ==
  /\ pc[m] = "connected"
  /\ seen' = [seen EXCEPT ![m] = table]
  /\ next' = [next EXCEPT ![m] = 1]
  /\ Goto(m, "deciding")
  /\ UNCHANGED <<table, effects, faults>>

AtVersion(m) == pc[m] = "deciding" /\ next[m] \in 1..Len(Files[m])

(* Mutant: the checksum of an applied version is not compared. *)
SkipAny(m) ==
  /\ AtVersion(m)
  /\ seen[m][next[m]] # None
  /\ next' = [next EXCEPT ![m] = @ + 1]
  /\ UNCHANGED <<table, effects, pc, seen, faults>>

(* A version already applied with this checksum is passed over. *)
Skip(m) ==
  /\ AtVersion(m)
  /\ seen[m][next[m]] = Files[m][next[m]]
  /\ next' = [next EXCEPT ![m] = @ + 1]
  /\ UNCHANGED <<table, effects, pc, seen, faults>>

(* Applied with another checksum: MigrationError. *)
Mismatch(m) ==
  /\ AtVersion(m)
  /\ seen[m][next[m]] \notin {None, Files[m][next[m]]}
  /\ Goto(m, "failed")
  /\ UNCHANGED <<table, effects, seen, next, faults>>

(* The SQL, in a transaction of its own; it fails on a schema that has its *)
(* objects unless it was written to be repeated.                           *)
Execute(m) ==
  /\ AtVersion(m)
  /\ seen[m][next[m]] = None
  /\ Goto(m, IF table[next[m]] = None \/ next[m] \in Repeatable
             THEN "executed" ELSE "failed")
  /\ UNCHANGED <<table, effects, seen, next, faults>>

(* Mutant: the version is inserted ON CONFLICT DO NOTHING. *)
RecordIgnoring(m) ==
  /\ pc[m] = "executed"
  /\ \A n \in Migrators : ~(pc[n] = "recorded" /\ next[n] = next[m])
  /\ Goto(m, "recorded")
  /\ UNCHANGED <<table, effects, seen, next, faults>>

(* INSERT INTO schema_migrations waits for the other transaction that has  *)
(* inserted the version, and fails when the version is there.              *)
Record(m) ==
  /\ pc[m] = "executed"
  /\ \A n \in Migrators : ~(pc[n] = "recorded" /\ next[n] = next[m])
  /\ Goto(m, IF table[next[m]] = None THEN "recorded" ELSE "failed")
  /\ UNCHANGED <<table, effects, seen, next, faults>>

Commit(m) ==
  /\ pc[m] = "recorded"
  /\ table' = [table EXCEPT ![next[m]] = Files[m][next[m]]]
  /\ effects' = [effects EXCEPT ![next[m]] = @ + 1]
  /\ next' = [next EXCEPT ![m] = @ + 1]
  /\ Goto(m, "deciding")
  /\ UNCHANGED <<seen, faults>>

(* Mutant: the last version of the build is left out. *)
FinishEarly(m) ==
  /\ pc[m] = "deciding"
  /\ next[m] >= Len(Files[m])
  /\ Goto(m, "done")
  /\ UNCHANGED <<table, effects, seen, next, faults>>

Finish(m) ==
  /\ pc[m] = "deciding"
  /\ next[m] > Len(Files[m])
  /\ Goto(m, "done")
  /\ UNCHANGED <<table, effects, seen, next, faults>>

(* A crash or a database error at any point; an open transaction is rolled *)
(* back.  A finished process runs the migrations again when its pod is     *)
(* replaced.                                                               *)
Fail(m) ==
  /\ pc[m] \in Running \cup {"done"}
  /\ faults < MaxFaults
  /\ faults' = faults + 1
  /\ Goto(m, "failed")
  /\ UNCHANGED <<table, effects, seen, next>>

(* The init container is started again after a failure. *)
Restart(m) ==
  /\ pc[m] = "failed"
  /\ Goto(m, "off")
  /\ UNCHANGED <<table, effects, seen, next, faults>>

Step(m) ==
  \/ Connect(m) \/ ReadApplied(m) \/ Skip(m) \/ Mismatch(m) \/ Execute(m)
  \/ Record(m) \/ Commit(m) \/ Finish(m) \/ Restart(m)

Next == \E m \in Migrators : Step(m) \/ Fail(m)

Spec == Init /\ [][Next]_vars

(* A process keeps running, and a failed container is started again. *)
FairSpec == Spec /\ \A m \in Migrators : WF_vars(Step(m))
=============================================================================
