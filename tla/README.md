# Zene: a TLA+ verification

Zene (repository `NovaX`, package `#core`) is a Discord bot framework in
TypeScript. A deployment is either one process or, with `CROSS_HOST=true`, one
*orchestrator* and any number of *worker* processes on other hosts that run the
shards of the bot. Around that it has its own database, an updater, a plugin
loader, permissions, tokens and a dozen services. This directory holds TLA+
models of the parts whose correctness depends on the order in which things
happen, the TLC configurations that check them on small instances, and TLAPS
proofs about them for every value of the constants.

Source paths below are relative to `src/core/` unless they start with another
directory. `PROJECT.json` maps every definition to the lines it translates.

1. [The system](#1-the-system), 2. [The modules](#2-the-modules),
3. [The runs](#3-the-runs), 4. [Where the code and its documents
differ](#4-where-the-code-and-its-documents-differ), 5. [The
proofs](#5-the-proofs), 6. [Not modelled](#6-not-modelled)

## 1. The system

### 1.1 Cross-host control plane (`crosshost/`, 6,900 lines)

| part | state it keeps | operations | talks to |
|---|---|---|---|
| claim (`auth/claim.ts`) | a Redis key with the holder's token, a renewal timer | acquire, renew, stop | Redis |
| shard map (`orchestrator/shardMap.ts`) | `owners`, `generation` | `assign`, `clearMachine`, `moveShard`, `dump` | publishes assignment updates, awaits identify grants |
| membership (`orchestrator/membership.ts`) | registered workers with status, load, shards, last heartbeat | `register`, `touch`, `setWorkerShards`, `removeWorker` | the join hook of the bootstrap |
| rebalance engine (`orchestrator/rebalance.ts`, `strategies/`) | cooldown | `onWorkerJoined`, `maybeRebalance`, `fillUnownedShards` | shard map, membership, strategy |
| update controller (`orchestrator/updateController.ts`) | the set `updating`, the waiters for acks | `tick`, `runOne`, `waitUntilDrained`, `waitAck` | shard map, Redis channel |
| bootstrap (`bootstrap.ts`) | timers: failure watch, rebalance, updates | declare dead, restart, shutdown | everything above |
| identify queue (`orchestrator/identifyQueue.ts`) | next free time per bucket | `grant` | Redis key and channel |
| snapshot service (`orchestrator/snapshot.ts`) | version, the last five envelopes | `publishFromManagers`, `get`, `diff` | workers pull over HTTP |
| worker adapter (`worker/adapter.ts`, `worker/runtime.ts`) | `state.shards`, `state.generation`, boot flags | boot sequence, `applyAssignment`, heartbeats, update instruct | control plane over HTTP and Redis |
| shard adapter (`manager/discordShardAdapter.ts`) | one Discord client per shard, `applyInflight` | `applyShardSet`, `runApply`, `destroyAll` | identify client, Discord |
| identify client (`worker/identifyClient.ts`) | waiters, buffered grants | `waitFor`, `deliver`, poll | Redis |
| query RPC (`query/`) | pending requests by correlation id | call, answer, time out, gather | Redis channels |
| secondary index (`indexStore/`), authentication (`auth/`), API gateway (`gateway/`) | indexes, secrets, none | best-effort writes, signatures, routing by `ownerOf` | Redis, Postgres, HTTP |

Interactions. The orchestrator edits its map synchronously and then *awaits* a
Redis publish and one identify grant per shard, each of them seconds long. The
process has one thread but no lock: a join, a rebalance cycle, a recovery, a
shard shift and a rolling update may all be suspended there at the same time,
each with target lists it computed before it was suspended. Redis pub/sub keeps
nothing for a worker that is not subscribed. A worker is told only what the
orchestrator publishes to it, fences updates by their generation, and reports
its list in heartbeats. Inside the worker, the boot sequence and every update
run as overlapping calls that meet in the shard adapter.

### 1.2 The rest of the program

| part | lines | state, and what is hard in it |
|---|---|---|
| NovaDB (`src/database/index.ts`) | 2,010 | a log-structured store: log, memtable with versions, waiting memtables, levels of tables, manifest, snapshots, transactions. A writer, flush, compaction and readers interleave at awaits; a crash may fall between any two file operations |
| database managers, migrations (`database/`) | 1,930 | connections; the migrations' record and advisory lock against a crash |
| updater (`manager/updater/`) | 2,120 | a journal of phases on disk, a health marker with boot attempts, backups; crashes and restarts are its subject |
| versions (`utils/semver.ts`) and what the updater plans with them (`manager/updater/github.ts`) | 670 | ranges, releases that are taken back, plugins that go with a core |
| permissions (`manager/permissions*.ts`, `permissions/`) | 1,580 | grants, roles with a denormalised list of users, a cache filled by slow resolves |
| tokens (`manager/token.ts`) | 1,030 | versions per user and device, the last token of a device; read-modify-write on rows |
| loader (`loader/`) and the registries it fills | 3,040 | plugins with phases and a dependency order; failures and timeouts of hooks, a signal in the middle |
| event bus, scheduler, cache, guild gate, guild access, cooldowns | 2,900 | listeners removed while emitting, replaced jobs, a file that is rewritten while it is asked for again, database rows against memory |
| reloads of configuration and language files (`watcher/index.ts`, `manager/config.ts`, `manager/lang.ts`) | 1,230 | a debounce, a batch, several reloads under way, two copies in memory, failures that block a plugin |
| plugin bus (`crosshost/worker/pluginBus.ts`) | 310 | requests by id over one channel, their timeouts, handlers that come and go |
| gateway multiplexer (`packages/gateway-multiplex/`) | 960 | a socket per shard with resume and reconnect, a turn to identify, a lock around adding and removing |
| paginator (`paginator/`) | 920 | sessions with an expiry |
| interactions, HTTP server, builders, placeholders, helpers, heart, audit, errors | 13,000 | dispatch, formatting, cryptography, append-only logs |
| bundled plugins (`src/plugins/`) | 16,600 | commands and routes over the managers |

All of it runs in one thread per process: state changes between two awaits are
atomic, and everything else may interleave. That is the grain of the models: an
action runs from one await to the next. `PROJECT.json` lists all parts under
`components`, with what is left out, and under `hazards` what a test would
hardly reach, each at its line.

### 1.3 What makes each part correct

- *Control plane.* A worker that owns a shard has been told so; the fence drops
  no update that was meant; no worker stays excluded from rebalancing; when
  nothing is in flight the ownership dump is what the workers run and no shard
  is run twice; every owner is watched; every shard is eventually served.
- *Worker.* One client per shard; a client handed out is live; when nothing is
  in flight the connected shards are the assigned ones; an update never waits
  for ever.
- *Claim.* One orchestrator, a split brain ends, a vacancy ends.
- *Identify grants.* Shards of a bucket identify an interval apart.
- *Snapshots.* A worker's version never goes back, and its document is the one
  of its version.
- *Query RPC.* An answer reaches the request it belongs to; "not found, not
  partial" means that nobody who was asked has the record.
- *NovaDB.* A committed write survives a crash and is what a read returns; a
  snapshot does not change; a writer is not left waiting.
- *Updater.* Whatever is interrupted, the files are those of one release, or
  there is what is needed to make them so, and the bot comes up again.
- *Versions and plans.* A range takes the versions it means; runs of the updater
  come to rest; a plugin goes with its core and what was edited in it is kept.
- *Permissions, tokens, guild gate, guild access.* What a check answers agrees with a state
  the tables were in after the last change it must have seen; a revocation
  refuses what it should and nothing else.
- *Loader.* Dependencies first, and last to go; a plugin that is down has left
  nothing registered. *Event bus.* A once listener is called once, a listener
  that stays is called for every event, in order of priority.
- *Scheduler.* One run per due time; the file on disk is a whole state of the
  jobs. *Cooldowns.* No more uses in a window than the limit.
- *Files.* At rest the memory holds the file, nothing invalid is applied, and a
  bad file blocks its plugin. *Plugin bus.* An answer is that of its request, and
  nobody handles a message twice.
- *Migrations.* Each is recorded after it was applied, in order, without gaps.
- *Gateway.* One session per shard, none after its removal; a shard comes back
  by itself.

## 2. The modules

| module | models | extends |
|---|---|---|
| `ShardMap` | the map, the generation, the channel to each worker | |
| `ControlPlane` | membership, rebalance, recovery, shift, rolling update as suspended tasks | `ShardMap` |
| `CrossHost`, `MCCrossHost` | worker membership, deliveries, losses, crashes, restarts; the specification and its properties; symmetry | `ControlPlane` |
| `CrossHost_proof` | theorems about `CrossHost` | `CrossHost`, `TLAPS` |
| `WorkerRuntime`, `MCWorkerRuntime` | the inside of one worker process: boot sequence, updates, shard adapter, grants | |
| `WorkerRuntime_proof` | theorems about `WorkerRuntime` | `WorkerRuntime`, `TLAPS` |
| `OrchestratorClaim`, `MCOrchestratorClaim` | the claim and Redis | |
| `OrchestratorClaim_proof` | theorems about `OrchestratorClaim` | `OrchestratorClaim`, `TLAPS` |
| `IdentifyQueue` | the grants to identify, in time | |
| `NovaStore` | a NovaDB collection on disk and in memory | instance of `DurableMap` |
| `DurableMap` | the abstract specification `NovaStore` implements | |
| `Updater`, `MCUpdater` | disk, journal, health marker, backups and the callers of the updater; two releases | |
| `Updater_proof` | theorems about `Updater` | `Updater`, `TLAPS` |
| `SemVer`, `VersionCheck` | versions and ranges; the command that asks about them, and what ranges mean | |
| `UpdatePlan` | to which tag a run of the updater takes the core and a plugin | `SemVer` |
| `Permissions` | roles, grants, links, the cache | |
| `Access_proof` | theorems about the five in `AccessControl` | `AccessControl`, `TLAPS` |
| `Tokens` | versions, device rows, issue, verify, refresh, revoke | |
| `Cooldown` | a bucket over Redis and its copies in the processes | |
| `GuildGate` | blocks in the database and in memory | |
| `GuildAccess` | black- and whitelist, invitations, joins, warming | |
| `AccessControl` | `Permissions` and the four above, which share nothing, beside each other | `Permissions`, instances of the others |
| `PluginLoader`, `MCPluginLoader` | sorting, boot, disable, reload, shutdown, registries; the dependency graphs | |
| `GatewayMultiplex` | the shard objects and sockets of one shard id | |
| `GatewayMultiplex_proof` | theorems about `GatewayMultiplex` | `GatewayMultiplex`, `TLAPS` |
| `SnapshotSync` | publishing and following snapshots | |
| `QueryRpc` | queries from the orchestrator to the workers, with the index | |
| `EventBus` | listeners and emits | |
| `Scheduler` | jobs, their file, a restart | |
| `Migrations` | steps, records, the advisory lock | |
| `PluginBus` | sends and requests between plugins on different machines | |
| `ConfigReload` | one file of a plugin, from the disk to the memory and the gate | |
| `Services` | the seven above, the grants, the ranges and the plans beside each other | `VersionCheck`, `UpdatePlan`, instances of the others |
| `MCServices` | the values of its constants | `Services` |
| `Services_proof` | theorems about those that decide and keep: ranges and plans, grants, migrations, jobs, files | `Services`, `FiniteSetTheorems`, `WellFoundedInduction`, `TLAPS` |
| `Channels_proof` | theorems about those that carry: snapshots, queries, events, messages | `Services_proof` |

`CrossHost` and `WorkerRuntime` are two views of a worker: the control plane
sees which list it has applied and at which generation, `WorkerRuntime` what
applying does inside the process. `WorkerRuntime` takes a grant as owed until it
comes; `IdentifyQueue` says when it comes. `PluginLoader` holds what the
registries of commands, routes, middlewares, listeners and cron jobs know of a
plugin. `UpdatePlan` says where a run of the updater goes, `Updater` what
becomes of the files on the way there. The services share no state with each
other.

### 2.1 ShardMap, ControlPlane, CrossHost

`Assign(m, S)` is the synchronous part of `ShardMap.assign`: `m` keeps exactly
`S`, a shard of `S` is taken from whoever had it, the generation goes up and
`m`, nobody else, is told. `Publish` is Redis: an update is queued for a machine
that listens and lost for any other.

An operation of the orchestrator is a *task*. `tasks[t]` records where it is
suspended and what it carries over the suspension: the machine of the awaited
call, the machines its loop has still to visit, and the target lists it computed
when it started. One action runs a task from one await to the next. The number
of tasks is the number of operations that may be suspended at once, a bound.

| action | code |
|---|---|
| `WorkerRegisters` | `register` on success and the join hook up to its first await; the response is built after that |
| `RebalanceTimer`, `StartFill`, `StartMoves`, `ResumeLoop` | `maybeRebalance`, `fillUnownedShards` |
| `ShardShift`, `ResumeShift` | `POST cluster/shard-shift`, `moveShard` |
| `DeclareDead`, `ResumeRecover` | the failure watch |
| `StartUpdate`, `ResumeDrain`, `AckTimeout`, `WorkerAcks` | `UpdateController.tick`, `runOne`, the worker's update client |
| `Abort` | the awaited publish or grant rejects |
| `Subscribe`, `ApplyAssignment`, `Heartbeat`, `Exit` | the worker adapter, as far as the control plane sees it |
| `LoseUpdate`, `WorkerCrashes`, `OrchestratorRestarts` | the environment |

What the model abstracts: a loop over a `Map` visits machines in any order; a
fill is any plan in which no receiver ends up two above another eligible worker
(the greedy choice of the least loaded); a proposal is any move of at most
`MaxMoves` owned shards; a heartbeat is received at the moment it is sent;
`missed` is a history variable that records a lost update. A worker registers
once per process, as in the code.

### 2.2 WorkerRuntime

A call (the boot sequence `Main`, or one handled update) is a process with a
program counter: pulling the snapshot, loading plugins, hooks, infrastructure,
waiting for another call's `runApply`, dropping a client, waiting for a grant,
logging in, booting plugins. `ApplyShardSet`, `RunApply`, `Proceed` and
`DestroyAll` are the code of the shard adapter between those awaits.
`applyInflight` is `inflight`; the check-then-wait at the top of
`applyShardSet` is modelled as it is written, one wait and no second check.
`Settled` gives the continuations of a settled promise precedence over new
events, as the microtask queue does. A grant is first `owed` by the
orchestrator, then in Redis (`keys`), then delivered, by message or by the
waiter's poll, or both. A rejection ends the process: a worker installs no
handler for unhandled rejections.

### 2.3 OrchestratorClaim

Redis is the key and its time to live; the `GET` of a renewal or release and the
`SET` or `DEL` that follows are separate steps, with anything in between,
including the death of the sender. A tick that passes while a timer is due or a
command is under way is a late one; `late` sums them, an error in a renewal
counts as an interval. Tokens are fresh at each claim.

### 2.4 NovaStore, a refinement of DurableMap

`DurableMap` is what a collection promises: a map of keys, writes that commit in
an order, readers whose snapshot does not change, and a restart after which the
map is the one that was committed, or that with the write that was under way.
`NovaStore` is the storage engine: a log of records with one flush per commit, a
memtable that keeps every version an open snapshot may need, memtables that wait
(`Swap`, `Seal`), a flush in the background (`Background`: table, manifest
entry, removal of the log), compaction of level 0 and of the levels below, the
manifest, `Load` and `Replay` at the next boot. The value of a key is the id of
the transaction that wrote it. `Contents` reads a key the way `get` does, memtables
first, then the tables from the highest id down; it is the refinement mapping.

Abstractions: one writer at a time, one block per table and one output per
compaction, a level is full by its number of entries. Left out: replicas,
secondary indexes, block and table caches, bloom filters, compression.

`Event` names what an instance lets happen besides crashes, failed flushes and
snapshots. The passing run has none of the four, since each breaks the
refinement in the code as it is:
`overlap` (a flush starts while another or a compaction is on: compaction takes
its output ids above those of a flush that has still to end, `:1633`),
`blank` (a process ends and nothing is left to replay, see section 4),
`torn` (a crash within an append: the records of a transaction carry no batch,
so a part of it is replayed, `:1110`) and
`gap` (a snapshot opened inside `commit`, between the new id and the write,
`:1025`).

### 2.5 Updater

The disk (core files, `package.json`, build output, journal, health marker,
baseline, backups) outlives the process; an action is one write to it, and a
crash may come between any two. `CheckJournal` and `CheckHealth` are the check on
boot, `PlanRollback`, `PlanUpdate` and `PlanPlugins` the pass before the boot,
the ticks of the running bot and the command line. `Copy`, `Install`, `Clean` and
`Build` are the phases of an apply or a restore, each of which may fail;
`GiveUp`, `RestoreStarts` the way back. `Rebuilds` says whether the supervisor
builds the tree before each start (the Pterodactyl egg) or not (`npm start`,
Docker). The assumptions: one updater at a time, nobody runs the command line over an
interrupted apply, recoveries only crash and do not fail otherwise. Left out:
downloads, hashes, receipts, the first baseline, adding a plugin, a manual restore.

What a run decides to do is `UpdatePlan`: the newest tag that is allowed, the
way back from one that was taken back (`takebacks.json`), the tag of a plugin
that goes with the core, and whether the plugin's files are touched. A tag is its
version; the repository, the list `plugins.txt` and the user's edits change
between the runs. `SemVer` are the comparators and ranges both rest on, translated
from the expansions of the code; strings are taken apart, so a token is its
operator and its parts. `VersionCheck` states what a range means without
comparators, in terms of the numbers that must agree.

### 2.6 Permissions

A role's row keeps the list of its users; the grants say why each has it,
directly or through a linked Discord role. A call (assign, revoke, edit,
delete, link, unlink, a member update, a resolve) is a process that is left at
every database call, which may fail. `Restart` is `init` with its migration of
legacy lists. Two ghosts name what the properties excuse: `torn`, two calls
changed the list of one role at a time or one ended half way; `aged`, a resolve
read before a change and stored after it. Left out: who may call what, the
creation of roles, the mirror of Discord permissions, the route rules of
`canExecute`.

### 2.7 PluginLoader

A process is the boot, a call of disable or reload, or the shutdown. `Preload`
sorts (`Visit` is the recursion of `loader/index.ts:115`, with its marks), boot
goes in that order, hooks end well or fail, a signal may come at any time. What
a plugin registers (middleware, listener, handler, route, command) is kept by
instance, since a reload makes a new one.

### 2.8 GatewayMultiplex

One shard id, the `GatewayShard` objects made for it one after another, a socket
per object and connect. The actions are the callbacks: Hello, the turn in the
identify queue, Ready, Resumed, close, invalid session, timers, the sleep before
a reconnect; and `AddNew`, `AddExisting`, `Remove`, `Release` under the lock of
the multiplex. Two flags name the orders in which the code does not come back:
`late_turn` (the turn to identify comes after its socket has closed) and
`second_connect` (`addShard` of a shard that is about to reconnect by itself).
The session store is the default one, in memory. Heartbeats, rate limits and
payloads are left out.

### 2.9 The services

| module | actions and code | left out |
|---|---|---|
| `IdentifyQueue` | `Ask`, `Wait`, `Grant` are `grant` for a list of shards, with the sleep in between; a publish may fail after the key was set | a change of `maxConcurrency`, the expiry of a grant |
| `SnapshotSync` | `Publish`, `Notify` with the version of the moment; `Hear`, `Answer`, `Arrive` are the worker's pull of a diff or the whole; lost messages, a restart of either side (its unanswered pulls are gone) | the content of patches: a patch is the document it leads to |
| `QueryRpc` | `Query` and its ways (owner of the shard, index, probe, all), `Receive`, `Reply`, `Timeout`; `WriteRecord` with a best-effort index entry | filters, limits, several entries in one list |
| `EventBus` | `On`, `Off`, `UnregisterByOwner`, `Begin` and `Return` of serial and concurrent emits, which call the listeners there were at the beginning by priority and age (`Ordered`) | which pattern meets which event: every listener meets every event |
| `Scheduler` | `Schedule` (`every`, `cron`), `RegisterTask`, `Execute`, `Finish`; `Write`, `Written`, `Rename` of the file; `Restart` | start and stop of the poll, failed writes, cron fields |
| `Cooldown` | `Check` (`incrWithTtl`), `Refund` and `Decrement` as two commands, and the same on the local copy when Redis fails | |
| `GuildGate` | `Begin`, `Execute`, `Reject`, `Finish` of block and unblock; `Warm`, `Ready`, `Restart` | the locale of a guild, a row of its own |
| `GuildAccess` | `Command` and `Join` with their statements (`Execute`, `Reject`) and what follows in memory (`Follow`, `Counted`), `CheckJoin`; `WarmCache`, `Read`, `Load`, `ReadFails`; the decision `Admits` under any policy | the boot check of all guilds, a second process |
| `PluginBus` | `Send`, `Request`, `Hear`; `Return` and `Finish` of a delivery, which calls the handlers one after another; `Timeout`, `On`, `Off`, failed publishes and a cut connection | the schema of a message, encodings |
| `ConfigReload` | the watcher from the change to the batch (`HandleEvent`, `Expire`, `FlushBatch`), `HandleWatchEvent`, `Read`, `Persist`, `Validate`, `Swap` of a reload of a file or of all, `Gate` | the merge of a default file into the user's, surgical edits, the emoji manager |
| `Migrations` | `Lock` and its failures, `Read`, `FindsGap`, `Up`, `Record`, `ScopeDone`, for Postgres, Mongo and SQLite | import of the steps, scopes on another alias |
| `Tokens` | issue, `verify`, `refresh`, `revokeDevice`, `revokeAll` over the awaits of the store, SQL and Mongo | encoding, signature, expiry, bits, other devices, the in-memory store |

## 3. The runs

| run | instance | checks | states |
|---|---|---|---|
| `overlap` | 2 workers, 2 shards, 2 operations, every event, 4 events | `OwnersAreTold`, `UpdatesAreFresh`, `UpdatingIsInFlight` | 2.1 M |
| `serial` | 3 workers, 2 shards, 1 operation, no moves | `QuietIsAgreed` | 165 k |
| `live` | 2 workers, 2 shards, 1 operation, fair | `EveryShardServed` | 494 k |
| `runtime` | 2 shards, boot and 3 updates, 2 calls at once, timeouts, expiries, failed logins, fair | `NoDoubleIdentify`, `ManagedClientsLive`, `RunsWhatIsAssigned`, `AssignmentsConverge` | 179 k |
| `claim` | 2 processes, 4 tokens, key of 3 intervals, lateness up to 4, fair | `OneOrchestrator`, `SplitBrainEnds`, `ClaimIsRecovered` | 26 k |
| `nova` | 2 keys, 3 writes, a reader, 3 levels, a crash or a failed flush, fair | `ReadsAgree`, `IsDurableMap` (refinement), `WritesEnd` | 435 k |
| `nova_stop` | 2 keys, 2 writes, a process that ends with an empty log | `IsDurableMap` | violated |
| `updater` | 2 releases, the second bad, 3 backups, a crash, a failure, an operator, fair | `FilesAreKnown`, `RecoveryIsReady`, `BotComesUp` | 2.7 M |
| `access` | permissions: 2 users, 2 roles, 2 calls at once, a failed call or a restart; an instance of each of the four beside it, see below | `HoldersHaveReasons`, `StaleHasReason`, `CooldownIsKept`, `GateIsCurrent`, `RevocationIsExact`, `GuildsAreDecided` | 2.9 M |
| `loader` | every graph of 3 plugins sorted, a chain and a fork booted, 2 calls, 2 mishaps | `BootIsSound`, `NothingIsLeftBehind`, `DepsOutlive` | 5.2 M |
| `gateway` | 2 objects of a shard, 2 faults, 3 operations, fair | `SessionsAreKnown`, `ShardComesBackUnlessLate`, `LockIsReleased` | 574 k |
| `services` | one instance of each service, see below | `GrantsAreSpaced`, `SnapshotsAreTrue`, `CallsAreRight`, `ScheduleIsKept`, `QueryWaits`, `StepsAreRight`, `RangesMean`, `PlanSettles`, `AnswersAreTheirs`, `MemoryIsFile` | 2.9 M |

Several of these are conjunctions, named after what they are about, and one of
each module holds its type invariant; each part has its own definition and
comment in the module.

| property | what it says |
|---|---|
| `OwnersAreTold` | a live worker's list in the map is what it has applied, or on its way to it, or a recorded loss |
| `UpdatesAreFresh` | nothing on its way to a worker is older than what it has applied: the fence drops only what it should |
| `UpdatingIsInFlight` | the workers excluded from rebalancing are exactly those with an update in flight, no more than configured |
| `QuietIsAgreed` | with nothing in flight, the map's lists are what the workers run, no shard is run twice, every owner is watched |
| `EveryShardServed` | every shard ends up run by the worker the map credits |
| `NoDoubleIdentify` | one `runApply` at a time, and one client per shard |
| `ManagedClientsLive`, `RunsWhatIsAssigned`, `AssignmentsConverge` | a client handed out is live; at rest the connected shards are the assigned ones; and rest is reached |
| `OneOrchestrator`, `SplitBrainEnds`, `ClaimIsRecovered` | two orchestrators never act while the lost time is below the margin; a split brain ends; a vacancy ends |
| `IsDurableMap`, `ReadsAgree`, `WritesEnd` | the collection implements `DurableMap`; a snapshot sees what it saw and a full scan what `get` finds; a write ends |
| `FilesAreKnown`, `RecoveryIsReady`, `BotComesUp` | files at rest are one release, the one of the baseline; what a marker promises to go back to is on disk and whole; the bot comes up |
| `HoldersHaveReasons`, `StaleHasReason` | lists and grants agree, grants through Discord are earned; a cached answer that differs from the tables has a named reason |
| `BootIsSound`, `NothingIsLeftBehind`, `DepsOutlive` | dependencies are sorted first and nothing is skipped without a cause; registries run the one enabled instance; nothing is up without what it depends on |
| `SessionsAreKnown`, `ShardComesBackUnlessLate`, `LockIsReleased` | one session, none after the removal, ready means live; a shard comes back by itself; the lock is let go |
| `GrantsAreSpaced` | the grants of a bucket are an interval apart |
| `SnapshotsAreTrue` | a worker has the document of its version, at rest the latest; its version never goes back |
| `CallsAreRight` | a once listener is called once, all in the order of the emit's beginning; an emit removes only the once listeners it called |
| `ScheduleIsKept` | the file is whole at every crash and current once saved; what was missed is not made up for |
| `QueryWaits` | a query waits for what its client waits for; what a complete `get` does not find is on no worker asked |
| `StepsAreRight` | a recorded step took effect, once and in order; a run fails over a failing step or a gap only |
| `RangesMean` | of releases, a range without prereleases takes those its tokens mean |
| `PlanSettles` | between two events the core moves at most twice; a plugin that was searched for goes with the core; what was edited in it is replaced by force only |
| `AnswersAreTheirs` | a request ends with the result its handlers made; no handler takes a message twice |
| `MemoryIsFile` | at rest both copies in memory are the file; nothing invalid is applied; a bad file blocks its plugin |
| `CooldownIsKept` | no more uses in a window than twice the limit and the refunds; the refused wait as long as told |
| `GateIsCurrent` | memory decides as the database, once no operation is under way |
| `RevocationIsExact` | a revoked token stays revoked, and the last one issued is accepted until then |
| `GuildsAreDecided` | rows and count in memory decide of every guild as the database would; a guild an owner invited the bot to is not left |

### 3.1 Bounds

`MaxEvents` bounds, in every module that has it, the unforced events of a
behaviour: joins, shifts, crashes, losses, failures, restarts.

*Control plane.* Four events are enough for two joins, a disturbance and a
reaction to it, and every difference listed in section 4 needs at most that
many. Two workers are a donor and a receiver; `serial` has a third, the
bystander. Two operations are the smallest number that overlaps, and every
interleaving of a stale list needs one that is suspended and one that edits.
`MaxGeneration` stops new rebalance cycles at a generation: two overlapping
cycles can undo each other's assignments for ever, each round with a higher
generation; in `live`, with one operation, no behaviour comes near it. In
`runtime`, clients are numbered and never forgotten, so `MaxUpdates` bounds the
space; three updates let a shard be given, taken away and given again while
another call is suspended.

*NovaDB.* `Limit` 2 fills a memtable with two versions and `LevelLimit` 1 fills
a level with one entry, so that three writes reach a flush, a compaction of
level 0 and one below it, with a writer that waits for a memtable
(`MaxImmutable` 1). Two keys make a table miss a key.

*Updater.* Two releases whose files differ by one added and one removed, and a
file every backup takes; three backups make pruning happen. The interesting
cases are two deep: a bad release, installed, crashed at in an apply or in the
restore that follows it.

*Permissions.* Two calls of every kind at a time are the smallest lost update; a
linked role and one that is not; a bot-wide one and one of the guild.

*Loader.* All dependency graphs of three plugins, missing and circular ones
included, are sorted; a chain and a fork are booted, with one command.

*Gateway.* Two objects: a shard removed and added again. Two faults end a socket
and then its successor.

*Services.* `services` is one run for ten services that share no state, and
`access` one for five: a behaviour is one of a single of them, chosen at its
start, the others rest.
Grants: 2 callers, 3 shards, concurrency 1 and 2, an interval of 2. Snapshots: 2
overlapping publishers, 2 retained versions, 4 versions, 2 events, so that a
worker meets a version that has left the history. Events: 2 listeners, 2 emits
at once, 3 in all. Jobs: an interval of 2 in 7 units, 2 calls, a crash. Queries:
2 machines, concurrency 1, 4 requests, enough for index, probe and all.
Migrations: a core scope of 2 steps and a plugin that leaves version 2 out, 2
workers, 2 events. Ranges: every token with parts 0, 1, absent or a wildcard and
three kinds of prerelease, alone; pairs of a few, as one group and as two;
hyphens. Plans: 4 tags of the core, 2 of a plugin, 2 events. Messages: 2
machines, 2 handlers, 2 messages, an event. Reloads: 2 edits, 2 reloads at once,
a command.

In `access`, cooldown: limit 1, window 2, 4 checks, a refund, an event. Gates: 2
processes with 2 operations each, 3 calls, an event. Tokens: 2 calls at once, 3
tokens, a revocation, an event. Guilds: 2 guilds, so that one may be listed and
the other wait, 2 of 3 calls at once, an event. Bounds end a behaviour, so
deadlock is not checked there, nor in the other runs where the events run out.

### 3.2 What the runs assume

`serial`: one orchestrator operation at a time and nothing moved by load
(`MaxMoves` 0). `QuietIsAgreed` fails as soon as two overlap or a move is made,
see section 4. What survives every overlap is in `overlap`, and proved;
`QuietIsAgreed` is proved under what the run assumes (`Serial`).

`runtime`: at most two calls in flight. With three (`MaxOverlap` 3)
`NoDoubleIdentify` and `RunsWhatIsAssigned` fail: two calls that waited for the
same `runApply` both go on when it settles. `ManagedClientsLive` holds there too,
and is proved. An empty update overlaps nothing. The two are proved under these two
conditions (`Overlap`).

`nova`: one writer, flushes and compactions one after another, a crash leaves
something to replay. With two writers `flushWal` loses a record that is appended
during its awaits (`src/database/index.ts:1068`), and every property would show
only that.

`access`, `services`, `gateway`: the ghosts `torn`, `aged`, `again`, `crossed`,
`late`, `blip`, `excuse`, `missed`, `overlap`, `delisted`, the callers that wait for
one bucket, `late_turn` and `second_connect` mark the orders in which the code
does not keep the property; each is named where it is set, and outside of them
the property is checked without exception. Section 4 lists them.

`BotComesUp` assumes that crashes and failures end, that bad releases are taken
back and that no plugin offer stands.

### 3.3 Fairness

Weak fairness of the steps that run by themselves: an awaited publish or grant
settles (a grant waits for a computed time, a Redis command completes or
fails), the failure watch, rebalance and renewal timers fire, a worker that
registered subscribes and handles what it receives, the updater goes on, the
wait for a grant ends by its own timer, Redis executes a command it was sent,
and an orchestrator is started again when none runs (`CROSS_HOST.md:150` relies
on it). In `NovaStore` the background work and the writer's own steps; in
`Updater` its steps, the boot included, since a supervisor starts the process
again; in `GatewayMultiplex` that a socket opens or fails, that Discord answers
an identify or a resume that reaches it, and that timers fire. Nothing is
assumed of joins, crashes, losses, shifts, moves, removals or calls.
`EveryShardServed` is conditional: it speaks of states in which some member runs
and no member lost its last update, because a worker that lost one is never told
again.

### 3.4 Mutants

Every property of a passing run has a mutated definition of the model, the
mistake a change of that code could make, under which TLC finds the property
violated.

## 4. Where the code and its documents differ

`nova_stop` is the one that is run: only replayed log records move
`committedTxnId`, so after a process that ended with nothing left to replay the
next one reads as of transaction 0 and finds nothing the tables hold, until
later writes have counted up to their ids (`src/database/index.ts:1141`; `NovaDB.md:5`:
"your data survives crashes").

The following are violations that TLC finds within seconds or minutes. Where a
configuration beside the module is named, it is that one; the instances of
`CrossHost` and `WorkerRuntime` are described after the table.

| instance | statement | what the code does |
|---|---|---|
| `MCCrossHost`, *transfer* | `DumpIsWhatWorkersRun` | a move takes a shard from its donor when the receiver is assigned; the donor then agrees with its target, is skipped, is never told, and keeps running the shard |
| `MCCrossHost`, *excluded* | `UpdatingIsExcluded` | the fill filters workers in an update once and assigns seconds later, also to a worker whose update began meanwhile |
| `MCCrossHost`, *dead* | `OwnersAreWatched` | the fill assigns to a worker that was declared dead and removed meanwhile; nobody watches that owner again |
| `MCCrossHost`, *restart* | `NoShardRunTwice` | a new orchestrator starts empty and ignores heartbeats of unknown machines: the running workers' shards are given away and run twice |
| `MCCrossHost`, *reregister* | `NoShardsBeforeReregister` | a worker that acknowledged its update is eligible again while it exits to restart |
| `MCWorkerRuntime`, *empty* | `EmptyTearsDown` | an update to no shards does not cancel a shard that waits for its grant; it connects afterwards on a standby worker |
| `MCWorkerRuntime`, *timeout* | `OtherSocketsUntouched` | the wait for an added shard's grant times out, the rejection is unhandled, and the connected shards go down with the process |
| `UpdaterRebuild.cfg`, `MCUpdater` | `RecoveryCanRun` | `clean` removes the built program before the compile: a crash in between leaves nothing that could recover, unless the supervisor builds first (`manager/updater/index.ts:1941`) |
| `NovaScan.cfg`, `NovaStore` | `RangeScanIsGet` | the largest key of a table read back is the first key of its last block, so a range scan leaves out keys that `get` finds (`src/database/index.ts:1309`, `:1669`; `NovaDB.md:175`) |
| `PermissionsOwner.cfg`, `Permissions` | `OwnerIsGranted` | the owner of a guild has `server.owner` only where the caller names him; an answer cached for a caller that does not is served to one that does (`manager/permissionCache.ts:42`; `types/permissions.ts:178`) |
| `GatewayTurn.cfg`, `GatewayMultiplex` | `ShardComesBack` | a turn to identify that comes after its socket has closed sets the status to identifying, and the reconnect takes that for a connection on its way (`packages/gateway-multiplex/src/GatewayShard.ts:230`) |

The instances of `MCCrossHost` are `CrossHostSerial.cfg` with two machines, two
shards, `MaxUpdates` 1, `MaxMoves` 0, `MaxGeneration` 9 and the statement for its
property, and beyond that: *transfer*, a task, `MaxMoves` 1, `Event` `{join,
rebalance}`, `MaxEvents` 4; *excluded*, two tasks, `{join, update}`; *dead*, two
tasks, `{join, crash}`; *restart*, `{join, restart}`; *reregister*, `{join,
update}`. `UpdatingIsExcluded` and `NoShardsBeforeReregister` are action
properties, the others invariants. Those of `MCWorkerRuntime` are `Runtime.cfg`
without fairness and: *empty*, `Event` `{empty_overlap}`; *timeout*, `{timeout}`,
`MaxOverlap` 1, `MaxUpdates` 2, where the statement is an action property.

Met while reading and modelling, in the models as they are, excused by the
properties or outside of the instances:

- *Loader.* Reloading a plugin with a command always fails after the boot
  (`commandRegistry.ts:66`, `:125`; `ENV Reference.md:852`). A reload does not
  check dependencies and puts a dependency behind its dependents. A disable
  leaves listeners, routes, middlewares and command roots; so does a failed
  boot. A reload sets all statuses back to pending. Overlapping reloads leave an
  instance that no registry knows.
- *NovaDB.* After two crashes the next flush renames `active.wal` over a log
  that has not been flushed; a crash between the manifest entry and the removal
  of the log leads to a skipped tombstone; `flushing_N.wal` is replayed at every
  later boot; a flush keeps the versions from the oldest snapshot on, not the
  newest at or below it; two equal snapshots are one entry of a set; a flush
  that is tried again puts its table twice in level 0; two first calls of
  `collection` boot it twice.
- *Updater.* A restore that falls back to the network half way makes a backup
  with a wrong label; overwritten plugins are not backed up (`UPDATER.md:20`);
  installing the same tag again keeps the old marker while its backup may be
  pruned; nothing keeps two updaters apart. A backup is looked up by its id, its
  directory or the beginning of its id (`manager/updater/index.ts:1717`).
- *Ranges.* `==1.2.3`, `=>`, `=<` and `>=1.x` throw, and so do `>= 1.2.3` with
  the space and a hyphen beside a wildcard or an operator; an exact version with
  an x in the letters of its prerelease (`-next`) is taken for an x-range and
  throws; `^0` and `^0.0` mean 0.0.0 alone, `1.2` means 1.2.0; a prerelease of
  the upper bound is in a range once that mentions a prerelease.
- *Plans.* `plugins.txt` is read from the head of the branch first, the tag's
  only as a fallback (`ENV Reference.md:889`); the hashes of a plugin that is off
  the list are forgotten in an update of the core, and what was edited in it is
  then overwritten (ibid., "never blindly overwritten"); `--install-plugin`
  chooses for the newer core on offer; `--downgrade` without a recommendation goes
  to the previous tag, which may be the newer one; the release of a prerelease
  that is installed is not offered; a plugin whose manifest cannot be fetched is
  passed over; tags pinned in `plugins.txt` are not checked for compatibility;
  a `takebacks.json` on disk hides later take-backs.
- *Guild access.* `init` runs again when the core plugin is reloaded while
  `ready` stays true, and clears the presence before three awaited reads: until
  they end, or for good when one fails, allowed guilds are refused. Rows removed
  during the read come back, an addition during it leaves the count wrong (with
  one guild on the whitelist and a count of 0 everyone is admitted). Nobody
  listens to the re-evaluation published at `manager/guildAccess.ts:340`; a
  failed record of an owner's invitation is swallowed and the guild may be left.
- *Plugin bus.* A broadcast reaches its sender twice, locally and over the
  channel, and no one when its publish fails; a request whose answer cannot be
  published ends in an error although handlers ran; a request to one's own
  machine returns an `__error` result instead of throwing.
- *Configuration and language files.* `configValidationFailures` is never
  cleared and `clearLangValidationFailures` (`manager/lang.ts:665`) has no caller:
  a corrected file leaves its plugin blocked on reload until the next start
  (`System Prompt - AI - Plugin.md:332`); a file that does not parse is no failure
  (`:398` there). The debounce of 250 ms drops a change made after the batch of
  150 ms was read; a creation and a removal in either order become a move;
  overlapping reloads end in the other order, one of all swaps in a cache older
  than the live references; values drawn are written back over an edit or a
  removal; a gate that meets a reload of all uses the failures of before.
- *Permissions.* A user who was half revoked is granted the role again at the
  next start (`migrateLegacyAssignedAsDirect`); editing a role invalidates
  nothing; linking a role does not give it to members who have the Discord role;
  without Redis a cache is not invalidated in other workers; a copy in the
  process has no time to live.
- *Tokens.* Overlapping verifies write an older row back. A fresh sign-in sets
  a device's version to 0, so `refresh` accepts tokens of the first version that
  `verify` refuses. A verify under way while its token is refreshed counts as
  reuse. A refresh past its check reads the versions anew and outlives a
  revocation made meanwhile.
- *Snapshots.* Overlapping publishes announce one version with the document of
  another; after a Redis failure the version stays and nobody is told; a
  notification between registration and subscription is lost; after a restart
  the orchestrator counts from 1 and workers ignore it; a failed pull ends the
  worker; `buildDiffPatch` and `applyPatchLocal` have no caller.
- *Queries.* With a shard hint, a record of a shard that has moved is "not
  found" and not partial; a list through the index silently lacks records whose
  entry failed, and machines that are not registered.
- *Gateway.* The promise of a superseded connect never settles, holds the lock,
  and its timer ends the newer socket.
- *Events.* A once listener runs again if the event is emitted during its
  callbacks (`EVENTS.md:5`); one that is registered again with the same callback
  meanwhile is removed with it.
- *Scheduler.* `every()` called again while a job runs lets two executions
  overlap, and called at boot it starts the interval of a loaded job anew.
- *Cooldown, gates, grants.* A refund of an expired counter makes it −1 without
  an expiry; other workers learn of a block at their next start; crossed blocks
  and unblocks leave memory against the database; two callers who wait for one
  bucket are both let go within the interval.
- *Migrations.* Lock and unlock are two `pool.query`, so the unlock may meet
  another session and the lock stays until the first is idle for 30 s. The documented
  `export const steps` is not what the runner reads (`migrations ?? default`).
- *Worker.* An update handled during the boot sequence's pull preloads the
  plugins before the state is hydrated, against the order of `CROSS_HOST.md:88`.

## 5. The proofs

The assumptions are those on the constants (`...Assumption` in the modules), which
TLC evaluates on every instance.

**`CrossHost_proof`** proves, for any sets of machines, shards and tasks and any
bounds:

- `TypeCorrect`: `Spec => []TypeOK`.
- `FenceNeverRejects`: `Spec => []UpdatesAreFresh`.
- `OwnersTold`: `Spec => []OwnersAreTold`.
- `NoLeakedExclusion`: `Spec => []UpdatingIsInFlight`. The concurrency limit is
  a statement about the cardinality of a finite set that grows by one.
- `SerialAgrees`: `ASSUME Serial PROVE Spec => []QuietIsAgreed`. `Serial` says that
  no two operations are suspended at once, that none moves shards by load, that the
  orchestrator is not restarted, and that shifts are not given up halfway. TLC
  violates the property without any one of these (section 4 has the overlap and the moves).

Neither fence property is inductive. After an orchestrator restart the generation
starts again at 1 while workers still hold high ones, so "a worker never holds a
generation above the map's" is false; what does hold is about *this*
orchestrator's messages. `FenceInv` is the conjunction that is inductive:
what this orchestrator published is not ahead of the map (`NotAhead`,
`ResponsesNotAhead`); there is one response per process (`OneResponse`); only
machines that listen have a queue (`OnlyListenersQueue`); a recorded loss is
behind the map (`LossesAreBehind`); and a queue ascends from the worker's own
generation (`InOrder`). From it each action is taken in turn; almost all of them
reduce to one lemma about `Assign` and one about `UNCHANGED mapVars`.

`QuietIsAgreed` speaks of rest, its invariant `SerialInv` of everything before:
nobody but the donor of a shift under way was last told of more than the map credits
to it (`AgreedInv`), the target lists of the one operation, which were computed
before its awaits, still fit the map (`TaskInv`: they extend what a machine has by
what nobody has, without overlap), and every owner is a member (`Watched`). With
`OwnersAreTold`, which says that a worker runs at least what it is credited with,
the two lists are equal at rest. `TaskInv` is what overlapping operations break.

**`OrchestratorClaim_proof`** proves `TypeCorrect` and `ClaimIsExclusive`
(`Spec => []OneOrchestrator`) for any number of processes and any
`Interval < Ttl`. `ClaimInv` says that, while `Ttl - Interval - late` is
positive, every holder's token is the key's and either its renewal is on its way
or the key outlives its next one by that slack (`HoldersHaveTheKey`), that a
command under way meets the key of its sender (`CommandsMeetTheKey`), and that
tokens are distinct (`TokensAreDistinct`). It is where the exact margin comes from:
with `late < Ttl` the property is false.

**`WorkerRuntime_proof`** proves `TypeCorrect` and `HandedOutIsLive`
(`Spec => []ManagedClientsLive`) for any number of calls in flight, so also
where two `runApply` interleave and single flight is lost. The invariant adds
`DropsUnmanaged`: a client that a suspended call is about to destroy exists and
is managed for no shard. It depends on the order inside `dropShard` (the entry
is deleted before the await, the client destroyed after it) and inside
`spawnShard` (the entry is set when the client is made). The lemmas follow the
code: one step of the drop and add loops (`ProceedTypes`, `ProceedLive`), then
each function that calls it, then each action.

`NeverIdentifiesTwice` (`NoDoubleIdentify`) and `RunsTheLastAssignment`
(`RunsWhatIsAssigned`) assume `Overlap`: two calls at once at most, and no empty
update beside another. It is no convenience: TLC finds both violated without it
(section 4), because two calls that waited for the same `runApply` both go on when
it settles. Under it, `FlightInv` says which of the two calls is inside `runApply`,
what the other waits for, and that the clients the inner one still has to drop and
to add are, with those that are connected, what its list asks for.

**`Updater_proof`** proves `FilesStayKnown` (`Spec => []FilesAreKnown`) and
`JournalsRecover` (`Spec => []JournalRecovers`: what a journal names on boot is on
disk, complete, and copying it makes the tree one release), for any releases and
files, any number of backups kept, of crashes and of failed updates, and with or
without a supervisor that builds. `Inv` says of each phase what is on disk: which
step may find which phase in the journal (`Control`); what the tree is before,
while and after files are copied (`Before`, `Doing`, `Undoing`), so that a copy
that begins again ends with the same files; that the backup a journal names is
whole and the newest of its run (`Named`, `Latest`); that backup ids differ
(`Distinct`). Both assume `"restore" \notin Failing`, and the assumption is
needed: when a restore fails while recovering and falls back to the network, it
makes a backup of a tree that is half of one release and half of another, and the
journal then names that one. `Updater.cfg` makes the same assumption.

`RecoveriesReady` adds the marker of an unproven update to what a journal names, and
so has all of `RecoveryIsReady`, for behaviours without the command line (`~Cli`) and
without the offer of a plugin tag (`~Offer`), whatever is kept, crashes and fails.
Both hypotheses are needed, TLC found: with one backup kept, a run for a plugin
alone prunes the backup that an unproven core update goes back to (a crash in its
backup phase, then an offer), and so does a second update from the command line,
with two backups kept and three events. `Updater.cfg` keeps three, and what it checks
of an operator and of offers stays a check. The argument is `Alone`: of such
behaviours only an update that goes to another release prunes, it is planned only while
no marker stands, and the marker it has written by the time it prunes names the backup
it made itself, the newest, which no number of kept backups prunes.

**`Services_proof`** and **`Channels_proof`** are about the specification of the run
`services`. It has no state in common between the services, so a behaviour of it is
one of each (`EachStep`, `Each`): the invariant of a service is proved of its own
actions and carried over by one lemma. So all ten properties of the run are theorems
of `SvcSpec`.

*Ranges and plans.* For all versions and ranges `RangesAreRight`
(`CheckSpec => []RangesMean`): the comparators the code expands a range into take
exactly the releases the range means. Of the plans `CoreSettles`, `PluginsFit` and
`EditsKept` are the three parts of `PlanSettles`. `RangesStayRight` and `PlansSettle`
carry them to `SvcSpec`. `CoreSettles`
assumes that tags are versions; its invariant says that once the core has moved
it is on no tag that was taken back, and once it has moved twice nothing is left
to go to. That rests on `NothingNewer`: the newest tag that is allowed leaves none
allowed after it, for which the order of versions must be antisymmetric over
prereleases of any length. `ComparePrerelease` decides at the first identifier in
which two differ, so that lemma takes the least element of a set of indices
(`LeastNumber`); an induction with an operator parameter is not needed.
`EditsKept` needs that the hashes of an edited plugin are known
(`HashesAreKnown`), which an update of the core with the plugin off the list ends.

*`GrantsSpaced`* (`GrantsAreSpaced`), for any callers, buckets and interval. The
invariant is about the time a caller sleeps: a bucket that is free in n ticks was
granted no later than n ticks short of an interval ago, and the same is true of the time
a waiting caller has computed, for its own grants always and for those of the others
as long as no second one waited beside it.

*`StepsRight`* (`StepsAreRight`), for each engine, any workers, steps and failures. What
is recorded starts with the first step and leaves none out, and so does what a worker
found recorded under the lock (`SegmentInv`); with a transaction a step takes effect
when it is recorded, with Mongo before (`EffectInv`); who holds the lock is alone, unless
it was lost (`AloneInv`).

*`ScheduleKept`* (`ScheduleIsKept`), for any jobs, calls and crashes. `SaveInv` says of
each await of a save what the temporary file, the file and the flag `pendingSave`
hold of the jobs in memory; `RunInv` that a job object's next run is no earlier than an
interval after its last but one. After a restart jobs are numbered anew in the order
of the file, and the proof needs that this numbering is one to one.

*`MemoryIsTheFile`* (`MemoryIsFile`), for any number of edits, handlers and commands.
What a reload goes on with was read from the disk, nothing invalid was applied
(`SourceInv`); the two forms in memory agree, or will when the one reload under way ends
(`Coherent`); what it ends with is the file, or a later change was noticed (`Fresh`).

*`SnapshotsStayTrue`* (`SnapshotsAreTrue`), for any number of publishes, kept versions
and mishaps. Each of its three parts holds as long as certain mishaps did not happen
(`Orderly`, `Ascending`, `Reached`), which is a matter of the whole behaviour, so the
invariant is a conjunction of three implications: a publish that overlaps no other
announces the latest version (`PublishInv`), notifications come in order
(`WireInv`), what the worker has or gets is the document of its version (`HoldsInv`);
a pull brings something newer (`PullInv`); and the latest version is the worker's, or
on its way (`ReachesInv`).

*`QueriesWait`* (`QueryWaits`), for any workers and requests. That a complete `get`
which finds nothing is right needs more than its end: every answer on the wire is still
true, and a worker that has the record is asked, to be asked, or answered that it
has it (`Consistent`), unless the record was written or removed meanwhile (`fresh`).

*`CallsRight`* (`CallsAreRight`), for any listeners, priorities and emits at once. Numbers
name listeners (`IdInv`), and so do callbacks unless one was registered twice
(`TwinInv`), which is how `off` finds them; what was called comes before what is to be
called (`SeenInv`); a once listener that one emit holds was not called before, or is
held by the emit that called it (`CalledInv`).

*`AnswersRight`* (`AnswersAreTheirs`), for any machines, handlers and messages.
There is one delivery of a message per machine and way (`DeliveryInv`); a delivery of a
request was last handed to the handler it awaits, and a request with an answer, on the
wire or arrived, was heard and has no delivery left (`LastInv`). That no handler takes
a message twice is a count: calls made, and one for each way on which the handler is
still ahead, are at most the number of times the message goes to its machine
(`CountInv`). A handler removed during a delivery shifts the others, and is exempt.

**`GatewayMultiplex_proof`** proves `OneSessionAtMost`
(`Spec => []SessionsAreKnown`) for any number of shard objects, connects, faults
and operations. The invariant relates sockets to objects: an object outside of
the map has no socket to send on, and is marked destroyed or has never connected
(`Others`); the one in the map holds the socket of its latest connect unless that
has closed (`Holder`); and a socket with a session is the one held there, under a
status that keeps its object from connecting again (`Sessions`).

**`Access_proof`** proves `ListsFollowGrants` (`Spec => []HoldersHaveReasons`) and
`StaleAnswersAreExplained` (`Spec => []StaleHasReason`) for any users, roles and
permission bits, and any number of calls under way. What makes `HoldersHaveReasons`
inductive is a description of a role that is being changed: at each await of each
call (`Under`), how far the grants are ahead of the list and what the call will
write to the row. `Alone` says that a role which is not torn is changed by one
call at most, and `Tables` that lists and grants agree where there is none and are
as `Under` says where there is one. The lemmas follow the shape of the code:
a call that reads only, one that does its next step alone, one that ends, a role
deleted or a member updated under a call, and what each leaves of the caches.

It also proves the four others of the run `access`, first for the specification of
each, then, since a behaviour of them all is one of each (`Each`), as theorems of
`AccessSpec`, which the run checks:

- `GatesAreCurrent` (`GateIsCurrent`), for any processes, gates and operations. The
  invariant says of a gate on which no two operations crossed that there is one
  operation on it at most, that memory and database agree until its statement is
  executed, and what the database says from then on (`Followed`); while a process
  warms up, that what it has read is what the database says of such a gate.
- `GuildsDecided` (`GuildsAreDecided`), assuming finitely many guilds (`GuildsAssumption`): `isGuildAllowed`
  asks whether the *count* of the whitelist is zero, so that what memory decides is
  what the database decides needs that the count is the number of rows in memory,
  through adds, removals and a warm-up that commands are executed beside. A call
  that changed a row knows that it did (`changed`), and this is what `Following`
  relates to the database.
- `CooldownsAreKept` (`CooldownIsKept`), assuming a limit in `Nat`, a positive window
  and clock (`CoolAssumption`). The bound of twice the limit is that of two windows side by side: the
  one of the counter there is and the stretch of a window's length before it
  (`Shared`, which divides the refunds among the two). `Stretch` is the argument that
  any other stretch lies in these two.
- `RevocationsAreExact` (`RevocationIsExact`), without assumptions. The version of the
  user counts up with a store that counts in one statement, or while nothing was
  written over (`CountsUp`); that of the device has passed the version of every
  revoked token, or, where it was started anew, that of the last one issued
  (`Latest`, `Devices`), and a call that read a version before a revocation is unsure
  of it (`Fits`).

**Model-checked only.**

- Liveness under fairness and `ENABLED`, which are out of the prover's reach:
  `EveryShardServed`, `AssignmentsConverge`, `SplitBrainEnds`, `ClaimIsRecovered`,
  `BotComesUp`, `WritesEnd`, `ShardComesBackUnlessLate`, `LockIsReleased`.
- `RecoveryIsReady` with an operator at the command line or with offers of plugin tags:
  how many backups must be kept then depends on how many events and crashes there are.
  It was also checked by hand with three releases (no failure: 3.4 M states; no operator:
  1.2 M).
- The storage engine (`ReadsAgree`, and that `NovaStore` implements `DurableMap`): what
  replay makes of the levels is a fold over a sorted set of log records, and a fact about
  every fold is an induction over data.
- The loader (`BootIsSound`, `NothingIsLeftBehind`, `DepsOutlive`): its sort is a
  `RECURSIVE` operator, in whose presence the prover has no SMT solver.

## 6. Not modelled

Left out of the modelled parts: the cooldown and thresholds of the rebalance
engine (a cycle may start at any time), the strategies' tie-breaks, a change of
the total number of shards, command sync and the HTTP servers of the worker, and
what section 2 names.

Left out for good: HMAC and mTLS handshakes, token codecs, schemas, the
integrity, vault and hash helpers (cryptography and encodings); builders,
placeholders, paginator rendering, validation (formatting); connections of the
database managers (they wrap drivers); audit and error stores (append-only, best
effort; their counters are a find and an update and may lose counts); the API
gateway (stateless routing by `ownerOf`; what it relies on is `OwnersAreTold`);
the bundled plugins (commands and routes over the managers).

Not modelled, with what a model would be about:

- *Exit of a process* (`index.ts`, `heart/control.ts`, `worker/shutdown.ts`): a
  second signal ends the process in the middle of the first one's teardown;
  `performLocalShutdown` exits without tearing the plugins down.
- *Paginator sessions* (`paginator/`), interactions and the HTTP server beyond
  what the loader registers, stores of the dashboard.
