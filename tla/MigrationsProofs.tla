-------------------------- MODULE MigrationsProofs --------------------------
(***************************************************************************)
(* Proofs about the migration runner, for any number of processes, builds, *)
(* versions and faults.                                                    *)
(***************************************************************************)
EXTENDS MigrationsProperties, TLAPS

Attempting(m) == pc[m] \in {"deciding", "done"} \cup InTransaction

(* What a process has read is still so, and what it has passed is applied  *)
(* from its own files.                                                     *)
Passed ==
  \A m \in Migrators : Attempting(m) =>
    /\ next[m] <= Len(Files[m]) + 1
    /\ \A u \in Versions : u < next[m] => table[u] = Files[m][u]
    /\ \A v \in Versions : seen[m][v] # None => table[v] = seen[m][v]

(* The version of an open transaction is one of the build's; once its row  *)
(* is inserted, nobody has committed it or can insert it.                  *)
Transactions ==
  \A m \in Migrators :
    /\ pc[m] \in InTransaction => next[m] \in 1..Len(Files[m])
    /\ pc[m] = "recorded" => table[next[m]] = None
    /\ \A n \in Migrators :
         pc[m] = "recorded" /\ pc[n] = "recorded" /\ next[m] = next[n] => m = n

Finished == \A m \in Migrators : pc[m] = "done" => next[m] = Len(Files[m]) + 1

Inductive == TypeOK /\ SchemaMatchesTable /\ OneLineage /\ Passed /\ Transactions /\ Finished

(* The files of every build are among the versions of the table, and their *)
(* checksums are not None.                                                 *)
LEMMA FilesType ==
  ASSUME NEW m \in Migrators
  PROVE  /\ Len(Files[m]) \in Nat
         /\ \A v \in 1..Len(Files[m]) :
              v \in Versions /\ v \in Nat \ {0} /\ Files[m][v] \in Checksums \ {None}
  BY FilesAssumption DEF Versions

LEMMA VersionsType == Versions \subseteq Nat \ {0}
  BY FilesType DEF Versions

LEMMA InitInductive == Init => Inductive
  BY FilesType, VersionsType, BoundAssumption
     DEF Init, Inductive, TypeOK, SchemaMatchesTable, OneLineage, Passed, Transactions, Finished,
         Attempting, Running, InTransaction

LEMMA StepType == TypeOK /\ Transactions /\ [Next]_vars => TypeOK'
<1> SUFFICES ASSUME TypeOK, Transactions, [Next]_vars PROVE TypeOK'
  OBVIOUS
<1>1. CASE UNCHANGED vars
  BY <1>1 DEF TypeOK, vars
<1>2. ASSUME NEW m \in Migrators, Step(m) \/ Fail(m) PROVE TypeOK'
  <2>1. CASE Commit(m)
    <3>1. next[m] \in Versions /\ Files[m][next[m]] \in Checksums
      BY <2>1, FilesType DEF Commit, Transactions, InTransaction
    <3>2. table' \in [Versions -> Checksums \cup {None}] /\ effects' \in [Versions -> Nat]
      BY <2>1, <3>1 DEF TypeOK, Commit
    <3> QED
      BY <2>1, <3>2 DEF TypeOK, Commit, Goto, Running
  <2> USE DEF TypeOK, Goto, Running, InTransaction
  <2>2. CASE Connect(m) \/ Mismatch(m) \/ Execute(m) \/ Record(m) \/ Finish(m)
    BY <2>2 DEF Connect, Mismatch, Execute, Record, Finish
  <2>3. CASE ReadApplied(m)
    BY <2>3 DEF ReadApplied
  <2>4. CASE Skip(m)
    BY <2>4 DEF Skip
  <2>5. CASE Restart(m) \/ Fail(m)
    BY <2>5, BoundAssumption DEF Restart, Fail
  <2> QED
    BY <1>2, <2>1, <2>2, <2>3, <2>4, <2>5 DEF Step
<1> QED
  BY <1>1, <1>2 DEF Next

(***************************************************************************)
(* The one step that changes the table: the version was not there, so no   *)
(* row that anybody relies on changes.                                     *)
(***************************************************************************)
LEMMA CommitInductive ==
  ASSUME Inductive, TypeOK', NEW m \in Migrators, Commit(m)
  PROVE  Inductive'
<1> DEFINE v == next[m]
<1>1. v \in 1..Len(Files[m]) /\ v \in Versions /\ Files[m][v] # None /\ table[v] = None
  BY FilesType DEF Inductive, Transactions, Commit, InTransaction
<1>2. table' = [table EXCEPT ![v] = Files[m][v]] /\ effects' = [effects EXCEPT ![v] = @ + 1]
  BY DEF Commit
<1>3. table'[v] = Files[m][v] /\ \A w \in Versions : w # v => table'[w] = table[w]
  BY <1>1, <1>2 DEF Inductive, TypeOK
<1>4. \A w \in Versions : table[w] # None => table'[w] = table[w]
  BY <1>1, <1>3
<1>5. /\ next'[m] = v + 1 /\ pc'[m] = "deciding" /\ seen' = seen
      /\ \A n \in Migrators : n # m => next'[n] = next[n] /\ pc'[n] = pc[n]
  BY DEF Commit, Goto, Inductive, TypeOK
<1>6. SchemaMatchesTable'
  BY <1>1, <1>2, <1>3 DEF Inductive, TypeOK, SchemaMatchesTable
<1>7. \A u \in Versions : u < v => table[u] = Files[m][u]
  BY DEF Inductive, Passed, Attempting, Commit, InTransaction
<1>8. OneLineage'
  <2> SUFFICES ASSUME NEW w \in Versions, table'[w] # None
               PROVE \E n \in Migrators : w <= Len(Files[n]) /\ \A u \in 1..w : table'[u] = Files[n][u]
    BY DEF OneLineage
  <2>1. CASE w = v
    <3> \A u \in 1..v : u \in Versions /\ (u = v \/ u < v)
      BY <1>1, FilesType
    <3> \A u \in 1..v : table'[u] = Files[m][u]
      BY <1>1, <1>3, <1>4, <1>7, FilesType
    <3> QED
      BY <1>1, <2>1, FilesType
  <2>2. CASE w # v
    <3>1. PICK n \in Migrators : w <= Len(Files[n]) /\ \A u \in 1..w : table[u] = Files[n][u]
      BY <1>3, <2>2 DEF Inductive, OneLineage
    <3>2. \A u \in 1..w : u \in Versions /\ table[u] # None
      BY <3>1, FilesType, VersionsType
    <3> QED
      BY <1>4, <3>1, <3>2
  <2> QED
    BY <2>1, <2>2
<1>9. Passed'
  <2> SUFFICES ASSUME NEW n \in Migrators, Attempting(n)'
               PROVE /\ next'[n] <= Len(Files[n]) + 1
                     /\ \A u \in Versions : u < next'[n] => table'[u] = Files[n][u]
                     /\ \A w \in Versions : seen'[n][w] # None => table'[w] = seen'[n][w]
    BY DEF Passed
  <2>1. Attempting(n)
    BY <1>5 DEF Attempting, Commit, InTransaction
  <2>2. /\ next[n] <= Len(Files[n]) + 1
        /\ \A u \in Versions : u < next[n] => table[u] = Files[n][u]
        /\ \A w \in Versions : seen[n][w] # None => table[w] = seen[n][w]
    BY <2>1 DEF Inductive, Passed
  <2>3. \A w \in Versions : seen'[n][w] # None => table'[w] = seen'[n][w]
    BY <1>4, <1>5, <2>2
  <2>4. next[n] \in Nat \ {0} /\ \A u \in Versions : u \in Nat \ {0}
    BY VersionsType DEF Inductive, TypeOK
  <2>5. CASE n = m
    <3> \A u \in Versions : u < v + 1 => u = v \/ u < v
      BY <1>1, <2>4
    <3> QED
      BY <1>1, <1>3, <1>5, <1>7, <2>3, <2>4, <2>5, FilesType
  <2>6. CASE n # m
    <3> \A u \in Versions : u < next[n] => table[u] # None
      <4> TAKE u \in Versions
      <4> HAVE u < next[n]
      <4> u \in 1..Len(Files[n])
        BY <2>2, <2>4, FilesType
      <4> QED
        BY <2>2, FilesType
    <3> QED
      BY <1>4, <1>5, <2>2, <2>3, <2>6
  <2> QED
    BY <2>5, <2>6
<1>10. Transactions'
  <2> SUFFICES ASSUME NEW n \in Migrators
               PROVE /\ pc'[n] \in InTransaction => next'[n] \in 1..Len(Files[n])
                     /\ pc'[n] = "recorded" => table'[next'[n]] = None
                     /\ \A k \in Migrators :
                          pc'[n] = "recorded" /\ pc'[k] = "recorded" /\ next'[n] = next'[k] => n = k
    BY DEF Transactions
  <2>1. pc'[m] \notin InTransaction
    BY <1>5 DEF InTransaction
  <2>2. pc'[n] \in InTransaction => n # m /\ pc[n] = pc'[n] /\ next'[n] = next[n]
    BY <1>5, <2>1
  <2>3. pc'[n] = "recorded" => n # m /\ pc[n] = "recorded" /\ next[n] # v /\ next'[n] = next[n]
                               /\ next[n] \in Versions /\ table[next[n]] = None
    BY <2>2, FilesType DEF Inductive, Transactions, Commit, InTransaction
  <2> QED
    BY <1>3, <1>5, <2>1, <2>2, <2>3 DEF Inductive, Transactions, InTransaction
<1>11. Finished'
  BY <1>5 DEF Inductive, Finished
<1> QED
  BY <1>6, <1>8, <1>9, <1>10, <1>11 DEF Inductive

LEMMA StepInductive == Inductive /\ [Next]_vars => Inductive'
<1> SUFFICES ASSUME Inductive, [Next]_vars PROVE Inductive'
  OBVIOUS
<1> TypeOK'
  BY StepType DEF Inductive
<1>1. CASE UNCHANGED vars
  BY <1>1 DEF vars, Inductive, SchemaMatchesTable, OneLineage, Passed, Transactions, Finished,
              Attempting
<1>2. ASSUME NEW m \in Migrators, Step(m) \/ Fail(m), ~Commit(m) PROVE Inductive'
  <2>1. table' = table /\ effects' = effects
    BY <1>2 DEF Step, Connect, ReadApplied, Skip, Mismatch, Execute, Record, Finish, Restart, Fail
  <2>2. SchemaMatchesTable' /\ OneLineage'
    <3>1. SchemaMatchesTable'
      BY <2>1 DEF Inductive, SchemaMatchesTable
    <3>2. OneLineage'
      BY <2>1, Zenon DEF Inductive, OneLineage
    <3> QED
      BY <3>1, <3>2
  <2> USE FilesType, VersionsType
  <2>3. CASE ReadApplied(m)
    BY <2>1, <2>2, <2>3 DEF ReadApplied, Goto, Inductive, TypeOK, Passed, Transactions, Finished,
                            Attempting, InTransaction
  <2>4. CASE Skip(m)
    <3>1. next[m] \in 1..Len(Files[m]) /\ table[next[m]] = Files[m][next[m]]
      BY <2>4 DEF Skip, AtVersion, Inductive, Passed, Attempting
    <3>2. \A u \in Versions : u < next[m] + 1 => u = next[m] \/ u < next[m]
      BY <3>1
    <3> QED
      BY <2>1, <2>2, <2>4, <3>1, <3>2 DEF Skip, AtVersion, Inductive, TypeOK, Passed, Transactions,
                                          Finished, Attempting, InTransaction
  <2>5. CASE Connect(m) \/ Mismatch(m) \/ Execute(m) \/ Record(m) \/ Finish(m) \/ Restart(m) \/ Fail(m)
    <3>1. next' = next /\ seen' = seen
      BY <2>5 DEF Connect, Mismatch, Execute, Record, Finish, Restart, Fail
    <3>2. \A n \in Migrators : n # m => pc'[n] = pc[n]
      BY <2>5 DEF Connect, Mismatch, Execute, Record, Finish, Restart, Fail, Goto, Inductive, TypeOK
    <3>3. Attempting(m)' => Attempting(m)
      BY <2>5 DEF Connect, Mismatch, Execute, Record, Finish, Restart, Fail, Goto, Inductive, TypeOK,
                  Attempting, AtVersion, InTransaction
    <3>4. Passed'
      BY <2>1, <3>1, <3>2, <3>3 DEF Inductive, Passed, Attempting
    <3>5. /\ pc'[m] \in InTransaction => next[m] \in 1..Len(Files[m])
          /\ pc'[m] = "recorded" => /\ table[next[m]] = None
                                    /\ \A n \in Migrators : ~(pc[n] = "recorded" /\ next[n] = next[m])
          /\ pc'[m] = "done" => next[m] = Len(Files[m]) + 1
      BY <2>5 DEF Connect, Mismatch, Execute, Record, Finish, Restart, Fail, Goto, Inductive, TypeOK,
                  Passed, Transactions, Attempting, AtVersion, InTransaction
    <3>6. Transactions' /\ Finished'
      BY <2>1, <3>1, <3>2, <3>5 DEF Inductive, Transactions, Finished, InTransaction
    <3> QED
      BY <2>2, <3>4, <3>6 DEF Inductive
  <2> QED
    BY <1>2, <2>3, <2>4, <2>5 DEF Step
<1> QED
  BY <1>1, <1>2, CommitInductive DEF Next, Step

LEMMA InductiveCorrect == Spec => []Inductive
  BY InitInductive, StepInductive, PTL DEF Spec

(* Every variable of the runner keeps its type (migrations.py:37).         *)
THEOREM TypeCorrect == Spec => []TypeOK
  BY InductiveCorrect, PTL DEF Inductive

(* In every reachable state the schema and schema_migrations agree,        *)
(* whatever interleaving, crash or build there was (migrations.py:51-61).  *)
THEOREM SchemaCorrect == Spec => []SchemaMatchesTable
  BY InductiveCorrect, PTL DEF Inductive

(* The applied versions always are an initial part of one build's files    *)
(* (migrations.py:43-50).                                                  *)
THEOREM LineageCorrect == Spec => []OneLineage
  BY InductiveCorrect, PTL DEF Inductive

(* A process that has finished without an error leaves, for good, every    *)
(* migration of its build applied as the build has it (migrations.py:37).  *)
THEOREM ReadyCorrect == Spec => []ReadyMeansMigrated
<1>1. Inductive => ReadyMeansMigrated
  <2> SUFFICES ASSUME Inductive, NEW m \in Migrators, pc[m] = "done", NEW v \in 1..Len(Files[m])
               PROVE table[v] = Files[m][v]
    BY DEF ReadyMeansMigrated
  <2> v \in Versions /\ v < next[m]
    BY FilesType DEF Inductive, Finished
  <2> QED
    BY DEF Inductive, Passed, Attempting
<1> QED
  BY <1>1, InductiveCorrect, PTL
=============================================================================
