# Verification of the OpenStack/Proxmox API simulator

The repository is a stateful simulator of two APIs: the Proxmox VE API
(`src/app/handlers`, `app/tasks`, `app/security`, `app/contracts`) and the
OpenStack APIs (`src/app/openstack`). Both are FastAPI handlers over one
PostgreSQL database. Every server process also runs a task worker, and every
pod migrates the database before its server starts. This directory holds TLA+
models of the parts where processes, requests and failures meet, the TLC runs
that check them on small instances, and TLAPS proofs of the properties that
hold for every instance.

- [1. The system](#1-the-system): components, state, operations, interactions, hazards
- [2. The modules](#2-the-modules): what is modelled, and how it corresponds to the code
- [3. The runs](#3-the-runs): what each one checks, bounds, fairness
- [4. The proofs](#4-the-proofs)
- [5. Where the code departs from what it says](#5-where-the-code-departs-from-what-it-says)
- [6. Plan](#6-plan)

`PROJECT.json` lists the components, runs, the mutation of the code that each
property is known to catch, the source lines of each definition, the hazards,
and the theorems.

## 1. The system

All durable state is in PostgreSQL. `Database.transaction` (`app/db/pool.py`)
runs several statements in one READ COMMITTED transaction; `fetch`, `fetchrow`
and `execute` are one autocommitted statement each. Handlers are asyncio
coroutines, so the only atomic units are an SQL statement, a transaction from
its first write on, and the Python code between two awaits. Several server
processes may share the database.

| Component (source) | State | Operations | Hard behaviour | What makes it correct |
|---|---|---|---|---|
| **Task engine** (`tasks/repository.py`, `tasks/worker.py`, `main.py`, `lifespan.py`) | tables `tasks`, `resource_locks`; per process the futures of `TaskWorker` | create, claim, heartbeat, finish, request_cancel, get; worker run, execute, stop | lease expiry, crash between claim and finish, lost answers, cancellation racing completion, several processes | locks and statuses agree; one task per idempotency key; outcomes are final and deserved; every accepted task ends; handlers of one resource exclude each other |
| **Guests** (`handlers/qemu.py`, `handlers/lxc.py`, `tasks/qemu.py`, `tasks/lxc.py`, `simulation/transitions.py`) | tables `resources` (JSON state, version), `virtual_machines`, `containers`, `snapshots` | power operations, create, clone, delete, migrate, update, move-disk, snapshots; without a task PUT config, resize, agent, metrics and console calls, volumes, conversion to a template, bulk operations | an API check made before the task has its lock; two writes with a sleep between; stale reads written back; cancellation and re-execution halfway | vmids unique in the cluster; statuses follow the transition table; both copies of the configuration agree; a task that succeeds has done what it was for |
| **Schema migrations** (`db/migrations.py`, `db/migrate_cli.py`, the init container of the Helm chart) | table `schema_migrations`, the schema itself | migrate | several pods, of several builds, at once; a crash between SQL and bookkeeping | every version takes effect once, from one build; success means migrated |
| Database access (`db/pool.py`, `db/primitives.py`, `db/repositories/resources.py`) | the pool | transaction, query, error mapping | an error after the commit | part of every model above |
| **Cluster document and SDN** (`handlers/common.py`, `cluster*.py`, `sdn.py`, `notifications.py`, `acme.py`, `mapping.py`), Ceph and the documents of single nodes (`ceph.py`, `firewall.py`) | one JSON document per cluster and per node; table `nodes` | read, change a copy, write the whole back, without a version; join and leave | lost updates between unrelated settings; SDN's lock and pending flag live in the document; the members of the cluster live in it and in a table | nothing the document refers to is missing; a confirmed change is lost only to a call that overlapped it; the lock has one holder |
| **High availability** (`ha.py`) | rows of `resources` for HA resources, with a node and a state that notes it again; groups, rules, arming in the cluster document | create, update, delete, relocate, migrate | three statements without a lock; guests moved by tasks that do not look at HA | resource, guest and note are in one place |
| Pools (`pools.py`) | pool rows and their members | check, then insert | several statements | membership refers to what exists |
| Backup, storage (`tasks/backup.py`, `handlers/backup.py`, `storage.py`) | storage content rows, guests | vzdump, restore, content changes | restore over an existing guest | an archive restores what it saved |
| **Access control** (`handlers/access.py`) | users, groups and members, roles, ACL, realms | edits of several statements each | half-done edits; deletions in between; two default realms | nothing outlives what it refers to; a confirmed change holds for everyone it names; one default realm |
| Privileges, tickets, tokens (`security/*.py`, `handlers/access_auth.py`) | tokens, second factors | evaluation along the path; ticket expiry | none of their own but the clock | privileges follow the ACL's inheritance |
| Registry and request boundary (`api/*.py`) | route tables | register, validate | none of its own | every contract path has a handler |
| Contract pipeline and runtime (`contracts/*.py`) | stored contracts; the running application's routes | import, normalise, diff; swap the running contract | a failure in the middle of a swap | the table is the old or the new contract's |
| OpenStack identity (`openstack/auth.py`, `routes/keystone.py`) | tokens, projects, roles | issue, validate, revoke | roles that change under a token | a token grants what its roles grant now |
| **OpenStack volumes and aggregates** (`routes/nova.py`, `cinder.py`) | `os_servers`, `os_volumes`, the attachments in `os_api_objects`, `os_aggregates` | create, attach, detach, extend, act, delete; aggregates with ids counted up by hand | autocommitted statements, checks on rows read earlier, ids that are given again, names that are numbers | attachments and volume statuses agree; no extension is taken back; a confirmed aggregate is overwritten only by a request that means it |
| **OpenStack networking** (`routes/neutron.py`, the interfaces of servers in `nova.py`) | `os_ports`, the interface documents of routers in `os_api_objects`, `os_routers`, `os_subnets`, `os_networks` | add and remove router interfaces; create, update, delete ports; attach them to servers; delete what they refer to | an interface is a row and a document, written by two autocommitted statements and found by either | a confirmed interface has both, a removed one neither |
| **OpenStack generic engine and paging** (`schema_engine.py`, `engine.py`, `paging.py`, the lists and rows of `routes/*.py`) | `os_api_objects` documents beside their columns; the tables of the routes | create, merge, upsert, record an action, delete; list page by page | SELECT and UPDATE apart; rows that come and go, or come back, between two pages; rows without an order | pages cover the collection, once; a marker stands for its row; what a document shows addresses it |
| OpenStack dispatch, microversions | none | pure functions of the request | ambiguous paths, version bounds | one route per request |
| Other OpenStack services, seeds, packs; simulation clock and seeds; reports; web console; configuration | rows of their own, or none | handlers of the engine's shape; one-off loading | little | see `PROJECT.json` |

How they interact. An API handler of the Proxmox side reads a guest, answers
404 or 409, or calls `TaskRepository.create` with the guest's `resource_key`;
the worker of any process claims the row and runs the handler registered for
the task's type, which changes the guest. Direct calls write the guest without
the engine. The contract runtime replaces the routes through which all of this
is reached. The OpenStack side writes its own tables without tasks. Nothing
runs before the migrations have.

The `hazards` of `PROJECT.json` name, at its line, what can go wrong in this
code and a test would hardly reach; those with properties are covered by
the models below; the one without is explained at the end of section 6.

## 2. The modules

```
TaskPromise  <--implements--  TaskQueue --> TaskQueueProperties --> MCTaskQueue
     ^                                             \--> TaskQueueProofs
     \--------implements----  Guests    --> GuestsProperties    --> MCGuests
                                                    \--> GuestsProofs

Migrations --> MigrationsProperties --> MCMigrations
                                   \--> MigrationsProofs

ClusterDocument  --> ClusterDocumentProperties  --> MCDirectWrites (with MCGuests)
Access           --> AccessProperties           --/       each also --> ...Proofs
HighAvailability --> HighAvailabilityProperties --/

Collections --> CollectionsProperties --> MCOpenStack
                                     \--> CollectionsProofs
Volumes     --> VolumesProperties     --> MCOpenStack, OpenStackProofs
Aggregates  --> AggregatesProperties  --> MCOpenStack, OpenStackProofs
Networking  --> NetworkingProperties  --> MCOpenStack, OpenStackProofs
```

A component's module has its state and actions, `...Properties` what is claimed
about it, `MC...` the instances for TLC, `...Proofs` the theorems. Definitions
introduced by a comment "Bug:" or "Mutant:" are plausible errors of the code,
used to see that the properties notice them; no specification refers to them.

### TaskPromise: what the engine promises

A task is accepted, holds at most one resource while active, and ends once; an
idempotency key is used by one task; no accepted task stays active for ever.
`TaskQueueProperties!PromiseKept` and `GuestsProperties!EnginePromise` are two
refinements of it. The second makes the first usable: `Guests` does not repeat
leases and heartbeats but works with an engine that does what `TaskPromise`
says, and the run `guest_create` checks that the engine `Guests` has inside is
one. What `Guests` assumes beyond the promise, that handlers on one key do not
overlap, is `HandlersExclude`, and holds under the conditions stated in its run.

### TaskQueue: the task engine

| TLA+ | Code |
|---|---|
| `status`, `owner`, `lease`, `cancelRequested`, `attempt` | columns of `tasks`; the lease is NULL, in the future or in the past |
| `locks` | `resource_locks`, keyed by resource |
| `call`, `req` | the calls of `create` and their arguments |
| `proc` | server processes: up, stopping (after `TaskWorker.stop`), down |
| `exec` | one future of `_execute` per `<<task, attempt>>`: where it stands, its handler future, whether its heartbeat future is alive |
| `CreateSelect`, `CreateInsert`, `CreateConflict` | the SELECT of `create`; its two INSERTs, decided by the unique constraints |
| `Claim`, `ClaimLost` | `claim` with SKIP LOCKED, called by `run` under the concurrency limit; the latter with its answer lost |
| `Begin`, `LoopExit`, `PollCancel`, `PollError` | `_execute`: before, in and out of its polling loop |
| `HandlerReturn` | a handler returns or raises |
| `Heartbeat`, `HeartbeatRejected`, `HeartbeatError` | `_heartbeat`, whose first exception ends it |
| `Finish`, `FinishRejected`, `FinishError` | `finish` and the except clause that calls it again with error |
| `LeaseExpire`, `Stall` | `now()` passes the lease: because nobody renews it, or in spite of that |
| `Crash`, `Stop`, `Stopped`, `Restart` | the process: killed, asked to stop, ended, started again |

The worker ids are a constant, because `main.py:55` gives one id to every
process while the repository's tests give each worker its own; both are
checked. Progress and results of tasks are left out (no property depends on
them), so is the order of candidates: SKIP LOCKED may pass over any of them.

### Guests: machines and containers

| TLA+ | Code |
|---|---|
| `guest[r]` | the rows of `resources` (kind, vmid, node, version, state) and `virtual_machines`/`containers` (config). `status` and `cfg` are the two halves of the JSON state, `config` the column |
| `snap[r]` | the row of `snapshots` under the one name considered |
| `job[j]` | an API call that creates a task, then the task: its payload, what its handler has read, how far it is |
| `lock` | `resource_locks`, as `TaskPromise` has it |
| `request[q]` | an API call that writes in the call itself |
| `Transitions` | the table of `simulation/transitions.py` |
| `Check...`, `Submit` | the guards of the API handlers; the task's creation, which may meet a lock |
| `PlanPower`, `BeginPower`, `EndPower`, `EndMigrate` | the transaction of the intermediate status (its SELECT, its UPDATE) and the second one |
| `Load`, then `Clone`, `Update`, `MoveDisk`, `SnapshotCreate`, `SnapshotRollback`; `Create`, `Delete`, `SnapshotDelete` | the other task handlers |
| `Read`, then `PutState`, `PutConfig` (put), `SaveConfig`, `ResizeState` (resize), `SaveConfig`, `SaveState` (volume), `SaveState` (agent, look), `ConvertColumn`, `ConvertState` (template) | the calls without a task, statement by statement: PUT config, resize, unlink and move_volume, agent operations, metrics with consoles and the monitor, the conversion to a template |
| `SetStatuses`, `MigrateAll` | start, stop, suspend and migrate all: one statement for all guests, or those of a node |
| `Finish`, `Cancel`, `Reexecute`, `Raise`, `Abort` | the engine's part: the end of a task, a cancellation wherever its handler stands, a second execution after the first was lost, an error of what the handler awaits (the log, the pool, a statement) wherever it stands, a request lost with its process |

`Rewriters` are the direct calls that take a guest in any status and save the
status they have read (put, look, volume); agent and template look at the
status first, resize merges into the state that is there. `Template` is the
option under which a state says that its guest is a template. An update may set
an option, delete it, or do both in one call (`drop`): `Changed` and `Deleted`
are applied to the column and to the state in the two orders of the code.
`hurt` and `ended` are history: whether an execution of the task was lost or
raised, and which direct calls had ended when a call read.

A transaction that reads and then writes is two steps: under READ COMMITTED
another may commit between. Configurations are functions from a few options to
a few values, disks being options; the wording of disks and the canned answers
are left out. Machines and containers share the module: their handlers differ
in the lock key, in the operations offered and in `start` of a creation or a
rollback, all of which are in the guards.

### Migrations: the migration runner

`table` is `schema_migrations` (version to checksum), `effects` counts how often
the SQL of a version has taken effect, `seen` is the snapshot that `migrate`
reads once, `next` the version its loop stands at, `pc` where the process
stands. `Connect`, `ReadApplied`, `Skip`, `Mismatch`, `Execute`, `Record`,
`Commit` and `Finish` are the steps of `migrate`; `Record` waits for another
transaction that has inserted the same version and fails if that one
committed, as a unique index does. `Fail` is a crash or an error of the
database at any point, or the replacement of a pod that has succeeded;
`Restart` is Kubernetes starting the init container again. `Repeatable` are the
versions whose SQL can run on a schema that already has it (IF NOT EXISTS).
A build is a sequence of checksums: builds may be newer, or differ in a file.

### ClusterDocument: one document, read and written whole

| TLA+ | Code |
|---|---|
| `document` | `clusters.metadata`, as a function from paths (zone, fabric, node of a fabric, SDN lock, pending flag, HA group, HA rules, member) to contents |
| `hostRow[h]` | the row of `nodes` named h |
| `edit[c]` | a call: the copy it has read and changed, the paths it changed, the statement it stands at |
| `saves` | UPDATEs of the document so far, the clock that `readAt` and `savedAt` are read from |
| `Edit` with a change | a handler up to its save: `cluster_metadata`, the checks, the changes to the copy |
| `Zone...`, `VnetDetail`, `Fabric...`, `FabricNode...` | `sdn.py`; one named store stands for zones, vnets, subnets, controllers, prefix lists and route maps, whose handlers are made by the same functions |
| `LockCreate`, `LockDelete`, `Apply`, `Rollback` | the SDN lock and the pending flag |
| `Group...`, `HaRules` | `ha.py`, entries of the document; the GET of the rules saves the default rules |
| `NodesAdd`, `JoinPost`, then `FindHost`, `InsertHost`; `NodesDelete`, after its save `MarkOffline` | `cluster_config.py`, statement by statement |
| `Save`, `Lose` | `save_cluster_metadata` of any call; a loss between two statements |

A refused call is no step: it changes nothing. Other settings (ACME,
notifications, mappings, options) are entries like the HA groups and have no
action of their own.

### Access: users, groups, roles, ACL entries, realms

`holder` has the rows of `principals` and `identity_groups` (a row is named by
the call that inserted it, its fresh uuid), `members`, `roles`, `grant` and
`realm` the other tables, `call` what each request has read. Every statement is
a step; a loop over names takes a SELECT and an INSERT per name (`FindNamed`,
then `InsertMember`, `RemoveMember`, or `InsertRole` and `InsertGrant`). Unique
names, ON DELETE CASCADE and ON DELETE RESTRICT are in the guards and in
`Drop`. `ClearMembers` and `ClearDefault` are the first statements of a
replacement and of a new default realm. `Abandon` is a failure between two
statements. One path stands for all paths of ACL entries. A call on the ACL
that is sent with `delete` is an operation of its own (`AclOps`), which takes
the same steps, since the handler does not read that parameter (section 5).

### HighAvailability: a guest and its resource

`guestNode`, `haNode` and `haNote` are the three places a relocation writes:
the guest's row, the HA resource's row, the node noted in its state document.
`AskToProtect`, `FindGuest`, `InsertResource` are `ha_resource_create`;
`ReadState`, `WriteState` are `ha_resource_update`; `RelocateResource`,
`RelocateGuest`, `NoteNode` the statements of `ha_relocate` and `ha_migrate`.
`MoveGuest` is everyone else who moves, deletes or makes the guest again:
migration tasks and the bulk migration. `placings` counts the statements that
place something and orders what calls have read and written.

### Collections: OpenStack documents, tables and paging clients

| TLA+ | Code |
|---|---|
| `rows[i]` | a row of `os_api_objects` (`name` the column, `doc` what `_row_item` shows) or of a route's table, by primary key |
| `heap` | the order in which the database returns rows that ORDER BY created_at does not tell apart |
| `clock` | the `created_at` of the next row; what one seeding transaction inserts has 0 |
| `call[c]` | a writing request: which statement it stands at and what its SELECT returned |
| `walk[w]` | a client of a list: its limit and marker, and what it was shown; `kept`, `last`, `trace` and `moved` record the history the properties speak of |
| `Create`, `RecordAction` | `_handle_create`; the INSERT of `_handle_action` |
| `FindForUpdate`, then `Update` or `Upsert` | `_handle_update`: the SELECT, the UPDATE by uuid or the INSERT with ON CONFLICT |
| `Delete` | `_handle_delete` |
| `RouteUpdate`, `RouteDelete` | PUT and DELETE of the route modules, one statement each |
| `BeginWalk`, `NextPage` | `_handle_list` with `_paginate`, and the lists of the routes with `paginate_rows`: the first page, and the one a marker asks for |

The two kinds of list share the module because the same client pages through
both, and the difference matters: the engine orders by `created_at` alone and
compares a marker with the id or the name a document shows; a route orders by
`created_at, id` and compares the key. One project calls; rows without a
project are everybody's. A document is its id and name, the fields by which it
is addressed. Nothing is assumed of a name: `Names` may contain uuids of rows,
as the code takes any text. The document of an upsert shows the address as its
id for the types whose paths call their parameter `id` (`ById`); for the others,
as `/allocations/{consumer_uuid}`, it shows the id of the body, if there is
one. Seeded documents are whatever the seed says (`SeedDoc`): those of
`app/openstack/demo_cloud.py` show names that their rows do not have (the
security groups of servers), and several show one id; so the instance has a
seeded document that shows another row's id and name. `from` is the statement a
document came from, for the properties. Left out are
statuses, filters by parent and by query, the upper bound of a limit, an id
that is the empty text, the rows of consoles that some actions insert, and a
PUT that gives the engine a row under the uuid of a route's row. `created_at`
differs for rows that separate requests insert. A row that is deleted and made
again under the same uuid is another row: `Store` takes it off what clients have
seen.

### Volumes and Aggregates

`Volumes` has the rows of `os_volumes` (status, size), the attachments, which
are documents of `os_api_objects`, and the servers. The volume is in no column of
an attachment: PUT and PATCH of one have no handler in `nova.py` and reach
`_handle_update` of the generic engine, which writes the body's `volumeId` into
the document, or a document where there was none, and leaves `os_volumes` alone
(`AskToRewrite`, then `RewriteAttachment` or `UpsertAttachment`; the latter is
also what a PUT of another type under an attachment's uuid does to it). Attaching is three steps
after the request (`FindVolume`, `InsertAttachment`, `MarkInUse`), detaching
two (`RemoveAttachment`, `FreeVolume`), extending and the other actions a
SELECT and an UPDATE that trusts it (`AskToExtend`, `Extend`; `AskForAction`,
`Act`). `ServerDelete` and `VolumeDelete` leave attachments behind, as the code
does. The instance begins with a volume that is attached and one that is
available. The demonstration cloud also seeds volumes that are "available" and
attached, or attached several times (`app/openstack/demo_cloud.py`):
`SeededApart` is true of those, and `InUseMeansAttached` claims nothing about
them.

`Aggregates` has the rows of `os_aggregates`. `NextNumber` is MAX(id) + 1,
read by one statement and used by the next (`AskToCreate`, `Insert`); `Found`
is the lookup by id or by name in one text. A name may be a number, which then
addresses two aggregates. Updates and deletions find a row and write it by its
key in two statements.

### Networking: ports and router interfaces

| TLA+ | Code |
|---|---|
| `port[p]` | the row of `os_ports`: its network, what it is bound to (`device_id`, `device_owner`), the subnet of its `fixed_ips`, and the call that wrote it last |
| `interface[p]` | the document of type `router_interface` under the port's id: router, subnet, and the call that wrote it |
| `routers`, `subnets`, `networks` | the rows that exist |
| `wire[c]` | a call: what it asked for, which ports it has found or written, the statement it stands at |
| `writes` | statements that wrote a port or a document, the clock that `readAt` and `storedAt` are read from |
| `AskToAdd`, `FindSubnet`, `InsertPort` or `FindPort`, `BindPort`, then `NoteInterface` | `add_router_interface`, by a subnet, by a port or by both |
| `AskToRemove`, `FindInterface`, then `RemoveNote`, `RemovePort` or `RemoveNotes`, `RemovePorts` | `remove_router_interface`, by a port, or by a subnet whose document is found or not |
| `CreatePort`, `UpdatePort`, `DeletePort`; `AttachToServer`, `DetachFromServer` | the ports of `neutron.py`; the interfaces of servers in `nova.py` |
| `DeleteNetwork`, `DeleteSubnet`, `DeleteRouter` | one DELETE each; only the network takes its ports along |

A fresh uuid is the number of the call that makes it. A call that fails before
one of its statements takes no more steps; nobody can tell that from a call
that is slow, so no action says it, and `InterfacesWhole` has to hold for both.
The generic engine is assumed to have no request under the uuid of a port: a PUT
of some other type there would write over the interface's document, as
`Upsert` of `Collections` does.

## 3. The runs

TLC finishes each in less than four minutes with two workers. A run that must find
a violation is explained in section 5.

| Run | Instance | Checks |
|---|---|---|
| `task_faults` | two creations, two processes with one id, concurrency 2, one fault of any kind | `LocksMatchTasks`, `OneTaskPerIdempotencyKey`, `OutcomeIsDeserved`, `RetriesAreFaults`, `TerminalIsFinal` |
| `task_exclusion` | as above, concurrency 1, crash or shutdown | `HandlersExclude`, `HandlersBounded`, and under fairness `QueuedCancelHonoured` |
| `task_live` | worker ids of their own, a crash, a stall or a database error | `PromiseKept` (the refinement with its fairness), `LatestAttemptEnds` |
| `guest_tasks` | three tasks on one machine, its clone's vmid free; one interruption, cancellations; two options, at most one of the tasks an update or a move of a disk, an update that may set and delete its option | `CopiesAgree`, `StatusFollowsTable` |
| `guest_create` | every lifecycle operation, both kinds, two vmids, two nodes, two tasks, fairness | `VmidUnique`, `AppliedMeansAchieved`, `OperationsSettle`, `EnginePromise` |
| `guest_direct` | five scenes. Versions: two direct calls and a task among the writers that count versions, two options. Statuses: tasks beside the direct calls that are no `Rewriters`, one option, one interruption (a process lost, or an error raised). Document: three calls on a document with a zone, a fabric and its node, and a host yet to join. Access: three calls on two users, a group, a role and two realms, one of them sent to delete ACL entries. HA: three calls on a guest and its resource, two nodes | `PutKeepsTheRest`; `TransientExplained`, `SnapshotsSettled`; `DocumentWhole`, `ConfirmedChangeKept`, `LockGrantedOnce`; `ReferencesWhole`, `OneDefaultRealm`, `MembersAsReplaced`, `GrantsAsConfirmed`; `PlacesAgree` |
| `migrations` | three processes, an old build, its successor and one with other files from version 2 on, two faults | `SchemaMatchesTable`, `OneLineage`, `ReadyMeansMigrated`, `EveryoneSettles` |
| `openstack` | four scenes. Collections: an engine type with two documents (one everybody's, the other showing its id and name), a route type with two rows, the type of actions, which has no path by `id`, a name that is a uuid; two requests, a client, page sizes 1, 2 and none. Volumes: three calls, an available and an attached volume, three sizes, an attachment rewritten by one of them. Aggregates: three requests, a seeded aggregate, a name and two names that are numbers. Networking: three calls, a network with a subnet, two routers, a server with its port | `WalkMissesNothing`, `PagesDisjoint`, `ShownNameFinds`, `AstrayExplained`, and under fairness `WalkEnds`; `ExtensionKept`, `InUseMeansAttached`; `AggregateKept`; `InterfacesWhole` |
| `task_shared_id`, `task_leak`, `guest_put_race`, `guest_delete_race` | the smallest instance that shows it | one claim of the repository each, which fails |

**What they show.** The engine's tables agree whatever fails, an outcome is
never invented and never changes, and with ids of their own the workers keep
the promise, liveness included. `HandlersExclude` holds for crashes and
shutdowns only: a stall longer than the lease breaks it by design of leases,
and a failed poll by the leak of section 5; that is why its run admits neither.
For guests, the two statuses of an operation are never mixed up by another
task, nor by a direct call that looks at the status first or writes no
intermediate one (the `Rewriters` do mix them up: `guest_put_race`), and
`TransientExplained` says exactly when a guest stays in an
intermediate status: a task on it was cancelled, executed again, or raised an
error (from the log, the pool or the second UPDATE) between its two writes.
Nothing repairs such a guest, because a second execution plans from the intermediate
status, which the table does not have; this is a limit of the design, stated
as the disjunct of `OperationsSettle` and not hidden by an assumption.
`AppliedMeansAchieved` holds in spite of re-execution, since the second
execution fails instead of doing a thing twice. `CopiesAgree` excepts the
options that a task took out of the column and left in the state.

An accepted PUT is two statements. The first compares versions, and
`StateKept` says what that is worth. The second writes the whole column as it
was read and compares nothing: `ColumnKept` says that it changes no option but
its own as long as no writer was counted since the first, unless another PUT,
a resize or a volume operation, which write the column and count in separate
statements, overlaps the PUT. A task that commits between the two statements
has its column written over, which the condition on the version shows.

For collections, beginning again at an unknown marker is what saves a client
whose marker was deleted: it sees rows twice but misses none, and comes to an
end (`WalkMissesNothing`, `WalkEnds`). The tables of the routes keep this
without exception. The engine has two. Documents of one seeding transaction
have no order, and any write may move them across a marker. And a marker may
come to stand for another row, after which a client can skip rows or go round
for ever; `AstrayExplained` says when: the marker's row has gone, or some other
row shows the marker as its name, which may be any text, or as its id, which
only the seed and the upsert of a PUT to an unknown address can make it do.
`ShownNameFinds` excepts the seeded documents that nobody has written since.
The exceptions are written into the properties, each as narrow as it holds.

The components that share `guest_direct` or `openstack` share no table. A
variable `scene`, chosen at the start, says which of them runs, so the run
checks the sum of their behaviours and not the product.

The direct writers have no lock and no version, so what they promise cannot be
"no update is lost". The properties say instead exactly what a client may rely
on, and each exception is one that TLC needs: `ConfirmedChangeKept` (lost only
to a later change of the same entry, or to a call that overlapped),
`LockGrantedOnce`, `OneDefaultRealm`, `MembersAsReplaced`, `GrantsAsConfirmed`,
`ExtensionKept`, `AggregateKept`. All of them imply that calls one after
another never disturb each other, including calls that were lost halfway.
`DocumentWhole` and `ReferencesWhole` have no exception. `PlacesAgree`,
`InUseMeansAttached` and `InterfacesWhole` relate records that nothing ties together, and list what
sets them apart; a relocation that begins after the damage repairs it, and
`SettledSince` takes it off the list.

**Bounds.** Two creations are enough to contend for a resource or for an
idempotency key, and two processes for a task to change hands. `MaxFaults` and
`MaxInterrupts` bound how many things go wrong in one behaviour, not which or
when; one is enough for every error path of `_execute` to be taken and for a
task to be executed twice, and the theorems have no such bound. `Attempts`
follows from `MaxFaults` by `RetriesAreFaults`, which is proved, so it cuts
nothing off. Three tasks on one guest allow one to be interrupted between two
others; of the three at most one changes options (`FewChanges`), since what two
such tasks do to each other needs no third. Among
writers that count versions an update sets or deletes (`UpdatesSimple`), and
among the others it sets; in `guest_tasks` and
`guest_create` it may do both. Two vmids and two kinds are what the uniqueness of vmids is about; two
options tell the option a PUT names from the rest. Among the writers that count
versions (`Counting`) a PUT races one more call and one task, of which one is a
look or a volume operation at most, and nothing is interrupted; among those
that keep statuses settled (`Unrewritten`) two direct calls, of which one is of
the agent or a bulk migration at most, race two tasks on one option. Two requests are enough to delete a marker's row and
make it again, or to race two updates of one document, while a client is at
any of its pages; two rows and a page size of one put a marker between them,
and the page size of two makes the last page exactly full. Three calls on a
document, a table or a volume are one that is judged, one that overlaps it and
one that comes between or after; they are numbered in the order of their
beginning, which only leaves out renamings. `FewCalls` bounds the third call on
access control: three calls belong to one of members, ACL entries and realms
(`Families`) and list one name each, two calls may mix and list up to
`MaxNames`; one of the calls on the ACL is sent with `delete`, and it names one
user or group. HA groups and rules, which are entries like the
zones, take part in the scene of the document while one of the three calls has
not begun (`FewEdits`). `FewMixed`: a call that rewrites an attachment goes with
calls that attach, detach, create and delete, and of three calls those that
extend do not go with any that attach, detach or reset, since an extension
writes the size and the others the status; `FewFailures`: one call on volumes
fails or is lost. `SeededDocs` and `Names` hold one document and one name of each
awkward kind. `Titles` has two numbers, so that a name can be taken for the key
of the seeded aggregate and of a new one; `Sizes` has three, so that two
extensions can cross; `Statuses` are the two that attachments are about.
Ports that calls create or update are free ones (`FreePort`), since a binding
that is neither the router's nor nobody's comes with the server's; the second
router takes part while one of the three calls has not begun (`FewRouters`),
which leaves every two calls on different routers. The
theorems have none of these bounds. Three builds give a process
that is behind, one that is ahead and one that disagrees. Versions of guests
count writes, which the finite number of calls bounds.

Symmetry is declared only for sets of interchangeable calls, and only in runs
without liveness. `CHECK_DEADLOCK FALSE` stands where the system may stop:
every task has ended and no client asks for more, every process has migrated.

**Fairness.** In `TaskQueue`: the event loop runs every ready coroutine and
`run` polls for ever (`Execute`, `Claim`); handlers only sleep a bounded
simulated time and query the database, so they end (`HandlerReturn`); time
passes (`LeaseExpire`); a stopping process ends and the supervisor starts a
dead one (`Stopped`, `Restart`). `Claim` is fair per task: `claim` orders by
age, so a task is not passed over for ever by younger ones. In `Guests`: the
worker brings handlers to their end. In `Migrations`: a process goes on, and
Kubernetes starts a failed init container again. In `Collections`: a client that
has been given a marker asks for the next page (`NextPage`), which is what
"follows the markers" means; that it ends is the server's doing. Other clients,
cancellations and faults are under no obligation anywhere.

## 4. The proofs

TLAPS checks the theorems of the eight modules `...Proofs` (those of volumes,
aggregates and networking are together in `OpenStackProofs`). They hold for every
number of tasks, processes, resources, keys, worker ids (shared or not),
faults, builds, versions, collections, requests, clients, documents' entries,
users, groups, realms, volumes, sizes, aggregates, names, nodes, networks,
routers and ports. The type invariants are among them.

The task engine, from `RequestsAssumption` (calls carry keys of their sets),
`NoneAssumption` (None is none of the other values), `WorkerIdAssumption`,
`BoundsAssumption` and `FaultsAssumption`:

- `TypeCorrect`, `LocksCorrect`, `IdempotencyCorrect`, `OutcomeCorrect`,
  `RetriesCorrect`: the invariants of `task_faults`.
- `TerminalFinal`: the action property `TerminalIsFinal`.
- `BoundedCorrect`: `HandlersBounded`, under `NoErrors` (queries of the database
  do not fail).
- `ExclusionCorrect`: `HandlersExclude`, under `NoErrors` and `NoStalls` (nothing
  stalls longer than a lease).
- `LatestUnstalled` and `LatestCorrect`: `LatestAttemptEnds`, under `NoErrors`
  and `NoStalls`, or, with every fault, under `Distinct`.
- `KeepsPromise`: every behaviour of the engine is one of `TaskPromise`, without
  its fairness. An INSERT of `create` maps to Accept, a `finish` whose WHERE
  clause matched to End, everything else to a stutter.

`InductiveCorrect` is what they rest on. Locks and statuses are inductive
together with `RowsMatchCalls` (a row exists exactly if its call has committed,
so a key that is free in one table is not half taken). Outcomes need the
executions: `ReportsAreTrue` (an execution that is about to report success has
a handler that returned, one about to report cancelled has a request) and
`AttemptsInOrder` (the attempt a claim is about to start has left no trace).
Retries need `LeasesArePaid`: a running task whose lease has run out, or whose
execution does not guard it any more, has cost a fault already, so the claim
that follows may raise the attempt. The proof of each goes action by action;
the actions that change only an execution share a lemma (`MoveStep`).

The conditions of the last three are the boundary between what holds and what
TLC refutes. With an error of the database the handlers exceed their bound and
overlap (`task_leak`); with a stall the lease is given to another process while
the first works on, by design of leases; crashes and shutdowns are always
included. `Attended`: without errors a running handler has its execution at the
poll, and `Admitted` counts executions against the concurrency. `AllCurrent`:
without stalls and errors whoever is executing has the task's latest attempt, a
live lease and a heartbeat, so no other claim comes in between. `Distinct`
(an id per process, one slot each) is not what the program is started with
(concurrency 2, `config.py:44`; one id, `main.py:55`): with shared ids
`task_shared_id` shows the violation, and with two slots a process could claim
its own lost task in the other slot, under the same id. It says which
configuration the fencing by worker id is sound for, through `Fenced`: a row
that names the process of an execution is at that execution's attempt.

Guests, from `KindsAssumption`, `OpsAssumption`, `NamesAssumption` and
`SeedAssumption` (the seed's vmids differ, its copies agree, its statuses are
settled):

- `GuestTypes`, `GuestVmids`: `TypeOK` and `VmidUnique`, whoever writes.
- `GuestTasksKeepPromise`: the engine that `Guests` works with keeps the safety
  part of `TaskPromise` (`EngineSafety`), whoever writes.
- `GuestTransients`, `GuestSnapshots`: `TransientExplained` and
  `SnapshotsSettled`, under `NoRewrites`: the operations in use are tasks and
  any direct calls but the `Rewriters`.
- `GuestPuts`: `PutKeepsTheRest`, under `AllCounted`: the operations in use
  count versions, which all do but the power operations with the migration
  (`Stepwise`), the conversion to a template and the statements for all guests.
- `GuestCopies`, `GuestSuccesses`, `GuestStatuses`: `CopiesAgree`,
  `AppliedMeansAchieved` and `StatusFollowsTable`, under `TasksOnly`: the
  operations in use are tasks.

The transactions of a task are what an error can fall between; `Raise` differs
from `Reexecute` in the phase it leaves alone, so the two share `BreaksOff` and
most lemmas. The first three need `Sane`: types, `Placed` (a task's key is that of the row it
is about, and a row made by a task has that task's key), `Locking` (an active
task holds its key and no two hold the same) and `VmidUnique` itself. A vmid is
free for a creation although it was tested before the lock was taken, because
the unique constraint is tested again by the INSERT. For the others: two tasks
that hold locks have different targets (`TargetsDiffer`), so what a handler has
read of its target is still so when it writes. `Sound` says this of a task at
each of its steps, `RowSound` of a row.

The three restrictions are on what clients call, and none is a convenience. A
`Rewriter` or a write that counts no version beside a power operation is
`guest_put_race`: the old status comes back. Any direct call beside a task is
outside the lock, so copies, successes and the transition table are then at the
mercy of the order of writes. What remains true with direct calls is proved with
them. `Transients` says where an intermediate status may be: in a row, in a
snapshot, in what a task or an agent call has read and will write back; in each
of them only if a task was left between its writes (`Stuck`: cancelled, lost or
raised), or is there (`Halfway`). `Counted` says that while everybody counts, a version stands for a
status and a configuration (`VersionsCount` for each step), so that what a PUT
has read is still so or the version tells (`Fresh`). It also has to say that a
row that is gone never comes back under its uuid, with versions counted from 1
again: only the task that a row is named after inserts it, and once (`Born`,
`RowsOnce`), which needs the lock that a deletion holds on the guest.

The migration runner, from `FilesAssumption` (a build is a sequence of
checksums) and `BoundAssumption`: `TypeCorrect`, `SchemaCorrect`,
`LineageCorrect`, `ReadyCorrect`. The snapshot `seen` is stale from the moment
another process commits, so the invariant has to say what survives: `Passed`
(what was seen applied still is, and everything below `next` is applied from the
process's own files) and `Transactions` (a process that has inserted the row of
a version is alone with it, and the version is not committed). At a commit,
`Passed` gives the new version a lineage, its own build's, and `Transactions`
that it takes effect for the first time.

The collections, from `CollectionsAssumption` (requests bring their own fresh
uuids, seeds are typed and have each row once; names may be uuids and seeded
documents show what they like): `TypeCorrect`, `NamesCorrect`,
`AstrayCorrect`, `WalksComplete`, `PagesApart`. Beside the two invariants the induction needs `OwnIds` (a
document that was created or updated shows the key of its row; of a seeded or
upserted one nothing is claimed), `Pending` (a request's fresh uuid is nobody's before it answers,
and nobody addresses it; what its SELECT returned keeps its types) and
`Markers` (in a route's table a marker is the uuid of the row it was taken from,
and a lost uuid never comes again).
`AstrayCorrect` follows in the steps of `BeginWalk` and `NextPage`: the row that
a marker finds shows it, as its name or as its id, and by `OwnIds` only a seed
or an upsert shows an id that is another row's. The last two are about what a client has been
shown, and rest on `Paged`: `Ahead` (a row that was there all along and has not
been shown comes after the last row shown), `Behind` (everything shown comes
before it), for rows that keep their order (`LooseFor` names the others), as
long as that last row exists; a client whose row is gone begins again, or goes
on from another row and is astray. What a page is, positions of a sorted list,
enters through `Before`, of which the proof needs that it is an order, that a
page is a run of it, and that writes do not change it between rows that stay.

The cluster document, from `DocumentConstants` and `DocumentSeedAssumption`
(the seed's own references are whole): `FabricReferences`, `MemberReferences`,
`DocumentReferences`, `NothingElseLost`, `LockGrants`, `DocumentTypes`. Every
copy a call holds has to satisfy what the document does, because it may become
the document. So the inductive `DocumentInv` says it of copies too: `CopiesWhole`,
`CopiesListRows`, and `CopiesCurrent` (for each entry an earlier call wrote, the
copy agrees with it, or its own call changes the entry, or somebody superseded
or overlapped the earlier one). `GrantsExplained` says it of a grant of the lock
that is yet to be saved.

Access control, from `AccessConstants` and `AccessSeed`: `AccessReferences`,
`DefaultRealm`, `AccessTypes`, `MembersReplaced`, `GrantsConfirmed`. `HoldersPaired` extends `OneDefaultRealm` to the calls that are
about to store a default: any two realms that are the default, or are about to
be, were written by calls that overlapped. A call that clears takes the default
from all but those about to store. `Aims` ties what a call has found to the
tables: a row's id is not given again, so a row that is found is that row or
gone. It is what `AccessReferences` needs beside the foreign keys. `AllLeave`
says of each call, wherever it stands in its loop, what it will have left when
it answers: it has only names it lists before it (`Steered`) and removals come
last (`Ordered`); nobody is a member but those it lists, those it has yet to
remove and those another call has added beside it (`NoneBesides`); everyone it
lists is one, or is yet to be inserted, or was removed beside it
(`NoneMissing`); and the same for ACL entries (`Granters`). "Beside" is a call
that had not ended when this one began.

Volumes and aggregates: `VolumeTypes`, `ExtensionsKept`, `UseIsAttachment`;
`AggregateTypes`, `AggregatesKept`. The clocks `stores` and `written` are at least every moment a
call remembers; an extension about to be written is greater than what was the
size when it read, so that an earlier confirmed one is undone only by a call
that read before it (`ReadersGrow`). `UseIsAttachment` rests on
`AttachmentsTold`. Each volume is `Told`: something that the property excuses has
happened to it, or its status and attachments agree while no call is between
its two writes, and a call that is, and that nobody disturbs, knows what is
there (`Knows`). An attachment that a call has named stays with its volume, or
has been given to one that the rewriting spoils (`Named`, `Spoiled`); a fresh
uuid is nobody's before it is inserted, so no upsert meets it (`Early`); and a volume that does not exist yet has none (`Unborn`). For aggregates `Guided` says what a
request between its statements may rely on: the row it found had the key or
the name it asked for at the time. That MAX(id) + 1 is a new key needs the
maximum of a finite set to exist, by well-founded minimality.

Networking, from `NetworkingAssumption` (what is seeded has its network and its
server, and 0 is none of them): `NetworkTypes`, `InterfacesAreWhole`. The
property looks at whole histories: who wrote a row or a document last, and who
wrote in between. The inductive `NetworkInvariant` says it for calls that are
still on their way. `LastWriters`: what a confirmed addition wrote was written
over, if at all, later. `Taken`: a port that an addition has found and that has
gone was taken by a call that wrote since. `LateNotes`: a removal by router and
subnet overlooks only documents that were noted after it began.
`LateBindings`: when it then removes a port whose document it has not seen, the
addition that bound the port, or a third call, overlaps. `Stages` ties what a
call has asked for to where it stands.

High availability, from `HighAvailabilityAssumption`: `HaTypes`,
`HaPlacesAgree`. `Clocks` says that somebody has placed at the last tick, so a
call whose reading is older than the clock knows who came between, and that
call excuses it (`LastPlaced`). `Fresh` says what holds while nobody came
between: the node or note that was read still is the stored one, and what a
relocation has placed so far is still there while it is alone.

Only model-checked is what is under fairness, which the prover does not reach:
`QueuedCancelHonoured`, the liveness of `PromiseKept` and `EnginePromise` (the
safety parts are proved), `OperationsSettle`, `EveryoneSettles`, `WalkEnds`.
Every invariant and every action property of a run that passes has a theorem,
under the conditions stated here where its run has them too.

## 5. Where the code departs from what it says

- `task_shared_id`. All processes run under the worker id `simulator-worker`, so
  `finish` and `heartbeat` of an execution that has lost its lease pass their
  ownership test while the task's next attempt runs. The same property holds
  with distinct ids (`task_live`).
- `task_leak`. An exception of `repository.get` in the polling loop ends the
  execution but not its handler future, so the worker's bound on concurrency
  does not bound handlers.
- `guest_put_race`. Power operations write the state without counting a version,
  so the version test of PUT does not see them, and an accepted PUT writes an
  old status back. Among writers that count versions the test works
  (`guest_direct`).
- `guest_delete_race`. "cannot delete a running virtual machine" is tested
  before the task has its lock and not again when it executes.

One more departure has no run, for the property that shows it is one line of
the handler read against the contract. The contract of `PUT /access/acl`
(`src/contracts/2cf632fa*/raw.js:49335`) says "Update Access Control List (add
or remove permissions)." and, of `delete`, "Remove permissions (instead of
adding it)."; `acl_update` (`handlers/access.py:395`) never reads `delete`, and
a call sent to take entries away is confirmed and adds them. `Access` has the
call as the handler has it, under its own name ("acl delete"), and
`GrantsAsConfirmed` claims nothing of it: it is about calls sent without
`delete`, and lists those with it among what may change an entry.

Other things met on the way are properties' exceptions and no findings, since
nothing in the repository says otherwise.

- `fabric_delete` takes the nodes of a fabric along but no handler looks at
  references between zones and vnets, so the document makes no promise about
  them.
- The demonstration cloud seeds volumes whose statuses and attachments disagree
  from the start (`SeededApart`), documents that show a name their row does not
  have, and documents that show one id (`app/openstack/demo_cloud.py:1570`).
- PUT and PATCH of a volume attachment write the document and not the volume
  (`schema_engine.py:504`): the volume it leaves stays "in-use", the one it
  comes to may stay "available" (`SetsApart`).
- A PUT to an address that no row has shows the body's id where the path has no
  parameter `id`, so two documents may show one id (`Lookalikes`).
- Removing by its subnet an interface that was added by its port takes the port
  and leaves the document, since a document of a port notes no subnet;
  `Disturbs` excepts exactly that.
- `_move_disk` with `delete` (`tasks/qemu.py:283`) removes the old disk from the
  column `config` and leaves it in the copy that the state has; and `_update`
  (`tasks/qemu.py:111`) changes the column before the deletions and the state
  after them, so an option that one call sets and deletes is gone from the
  column and stays in the state. `CopiesAgree` excepts both (`Parts`).
- An error raised between the two writes of a power operation or a migration
  (`tasks/qemu.py:50`) fails the task and leaves the guest "starting",
  "stopping" or "migrating"; no handler sets it back.
- The second statement of PUT config (`handlers/qemu.py:230`) is under no
  version (`ColumnKept`).

## 6. Plan

Done: the task engine with its promise and its proofs; guests over that
promise; migrations, the cluster document with SDN, access control, high
availability, collections, volumes, aggregates and router interfaces, each with its proofs.
In the order of importance, next:

1. **Proofs across modules**: the refinement of `TaskPromise` by `Guests` is
   proved against the promise; that the engine's own exclusion is what `Guests`
   assumes could be stated over both.
2. **Direct calls beside tasks**: what survives of `CopiesAgree` and
   `AppliedMeansAchieved` when direct calls overlap a task, with the overlap as
   an exception of the property instead of `TasksOnly`.
3. **The rest of OpenStack networking**: floating addresses and their ports,
   security groups, load balancers and their members.
4. **Pure algorithms**: privileges as an operator over the ACL's path, against a
   reference definition; microversions and dispatch; the contract difference.
5. **Backup and restore** over guests and storage content; pools.

Runs stay few. The four that find a violation need an instance each; components
still to come are small enough to join the scenes of `guest_direct` or
`openstack`.

### Not modelled

- *The contract runtime's swap of routes.* It is one synchronous function under
  a lock, so no request sees it halfway; an exception inside it does leave a
  part of the table, which a test of that function reaches.
- *Parts of modelled components*, named in `PROJECT.json`: renaming the cluster and the counter of
  applied configurations; passwords, tokens, second factors and tickets;
  requested state and limits of HA resources; creating and changing servers,
  flavors and quotas, and the kinds of attachment that are documents of the
  generic engine; creating and changing networks, subnets and routers, floating
  addresses, security groups and load balancers.
- *The contract documents.* The JavaScript of the repository
  (`src/contracts/*/raw.js`) is four captured versions of the vendor's API
  schema, one literal `const apiSchema = [...]` each. It is data read by the
  contract pipeline and has no behaviour, so no definition models it: all maps
  point to the Python and SQL sources.
- *The contract import and normalisation, seeds, compatibility reports, the web
  console, configuration, logging and metrics.* They are deterministic
  transformations or reads without concurrent state. The library code (FastAPI,
  asyncpg, PostgreSQL, Kubernetes) is modelled only by what the repository
  relies on.
