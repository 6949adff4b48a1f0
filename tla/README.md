# AnalyticKit: a TLA+ verification development

AnalyticKit is a fork of an open-source product-analytics platform: a Django application
(`src/analytickit`), an ingestion service in TypeScript (`src/plugin-server`), and a browser
front end (`src/frontend`). This directory holds TLA+ models of the parts whose correctness
depends on *order*: asynchronous code on one event loop, several workers over one Postgres,
Kafka deliveries, Redis locks, and Celery tasks. Paths below are relative to `src/`.

## 1. Inventory

### 1.1 Ingestion (plugin-server)

| component | state | operations | what is hard |
|---|---|---|---|
| **Kafka producer wrapper** `plugin-server/src/utils/db/kafka-producer-wrapper.ts` | `currentBatch`, its size, last flush time | `queueMessage(s)`, `flush`, interval, `disconnect` | many async callers share a buffer that is exchanged while a send is outstanding; failed sends are not retried |
| **Batch consumer** `main/ingestion-queues/*` | offsets, per-batch progress, pause state | `eachBatch`, `groupIntoBatchesIngestion`, `pause`/`resume`/`stop` | offsets are resolved per sub-batch; a failure, rebalance or crash redelivers; events of one person must not run in parallel |
| **Event pipeline** `worker/ingestion/event-pipeline/*` | none of its own | the steps from the conversion buffer to async handlers | which failures reach the dead-letter queue, which are swallowed, what was already done before them |
| **Person state** `worker/ingestion/person-state.ts`, `utils/db/db.ts` | Postgres `person`, `persondistinctid`; the `personSeen` LRU; ClickHouse rows by version | create, update properties, `$identify`/alias, merge | several workers handle events of the same people at the same time; merge is one transaction made of statements other workers interleave with; ClickHouse follows by versioned messages |
| **Groups** `properties-updater.ts`, `group-type-manager.ts` | `group`, `grouptypemapping`, 30 s caches | `upsertGroup`, `fetchGroupTypeIndex` | insert races, retry, bounded number of types |
| **Caches** `team-manager.ts`, `action-manager.ts`, `organization-manager.ts`, `site-url-manager.ts`, `person-manager.ts` | per-thread maps with ages | fetch, reload, drop | values read before an await and stored after it |
| **Job queues** `main/job-queues/*` | producer list; Graphile runner, pools, `started`/`paused` | `enqueue` failover, `syncState`, pause, resume, stop | check-then-act across awaits in `syncState`; pause racing start |
| **Scheduler and lock** `main/services/schedule.ts`, `utils/redlock.ts` | Redis lock, `weHaveTheLock`, a promise per plugin task | acquire, extend, release, debounced run, reload, stop | a lost lock; a stop racing an acquire |
| **Retries and promise manager** `worker/retries.ts`, `worker/vm/promise-manager.ts` | attempt counter, set of pending promises | `runRetriableFunction`, `trackPromise` | exactly one finalisation; bounded number of promises |
| **Export buffer / export events** `worker/vm/upgrades/*` | buffer, points, job payload retry counter | `add`, `flush`, `exportEventsWithRetry` | a flush failing for the caller of `add`; retries and their bound |
| **Historical export** `upgrades/historical-export/*` | five storage keys | every-minute watchdog, job per interval, interface job | watchdog and late job both advancing the cursor |
| **Plugin VMs** `worker/vm/lazy.ts`, `worker/plugins/*` | per-config VM promise, retry timer | load, `setupPluginIfNeeded`, reload, teardown | concurrent setup, reload while loading |
| **MMDB** `main/services/mmdb.ts` | Redis status key, attachment row | fetch, wait for another fetcher, refresh | check-then-set status; delete-others after insert |
| **Server life cycle** `main/pluginsServer.ts` | `shutdownStatus`, handles of all services | start, staleness kill, `closeJobs` | order of shutdown against work in flight |

### 1.2 Django and Celery

| component | state | operations | what is hard |
|---|---|---|---|
| **Async migrations** `analytickit/async_migrations/*`, `tasks/async_migrations.py`, `api/async_migration.py` | one row per migration, Celery task | start, run op, rollback, force stop, resume, health check | API, Celery task and health check act on the same row; check-then-act on "only one running" |
| **Cohort calculation** `tasks/calculate_cohort.py`, `models/cohort/cohort.py` | `version`, `pending_version`, `is_calculating`, `errors_calculating` | schedule, calculate, insert | two calculations of one cohort overlap |
| **Analytics client** `analytickitanalytics/*` | bounded queue, consumer threads | enqueue, flush, join, upload with retry | accounting of `task_done`, bounded queue, shutdown |
| **Agent tasks** `analytickit/agent/*` | failure counters, recommendations | circuit breaker, retry | retry after a partial failure |

Left out (see `PROJECT.json` for the reasons): query building (funnels, trends, retention, HogQL-like
SQL generation), the REST API's CRUD, the front end, the vendored ClickHouse ORM, crypto ETL jobs,
plugin source transpilation, session-recording storage, and build or deployment files.

Every component of the tables is listed in `PROJECT.json` with its sources and its status, and the
hazards of the code (one line each, with the properties that would catch it going wrong) follow there.

What makes each component correct, in one sentence each: the **producer** hands every accepted record
to Kafka once, in order, within its limits; the **batch consumer** never commits past a record nobody
answered for, and works on one person's events one at a time and in order; **person state** never
orphans a person or separates two ids, and ClickHouse converges to Postgres; **groups** have one row
and one index per type; **caches** are never newer than the database and are refreshed within their
age; **job queues** run a job at most once and accept it while any queue does; the **scheduler** has
at most one active server per lock, and always one again; **retries** finalise once; the **export
buffer** hands over each event once; **historical export** covers each interval; **plugin VMs** are
set up once; **MMDB** has one fetcher; the **server** loses nothing it committed in a graceful
shutdown; **async migrations** leave no operation out and follow their dependencies; a **cohort's**
version never goes back; the **analytics client** joins when its queue is empty.

## 2. Plan

The order follows what the product cannot do without: an event that is lost, doubled into a second
person, or processed out of order damages data that no later run repairs.

| step | modules | composes | abstract specification | state |
|---|---|---|---|---|
| 1 | `KafkaProducerWrapper` | | `AtMostOnceChannel` | done, proved |
| 2 | `PersonState` | | (its invariants are stated over Postgres and ClickHouse) | done, safety proved |
| 3 | `EachBatch` | | `AtLeastOnceLog` | done, proved |
| 4 | `PluginsServer` | `EachBatch`, the channel's promise | (`EachBatch`'s invariants carry over) | done, proved |
| 5 | `PluginSchedule` | | | done, proved |
| 6 | `AsyncMigrations` | Celery tasks, API, health check | (its invariants relate the row to what was executed) | done, proved |
| 7 | `ExportEvents` | buffer, promise manager, retry jobs | `RetriedChannel` | done, safety and refinement proved |
| 8 | `JobQueues` | `GraphileQueue`, `JobQueueBase`, the consumer's jobs, `enqueue` | (its invariants relate flags, fields and Postgres) | done, safety proved |
| 9 | `HistoricalExport` | job chains, watchdog, interface job | | done, safety proved |
| 10 | `PluginVMs` | `LazyPluginVM`, `setupPlugins`, teardown | | done, safety proved |
| 11 | `EventPipeline`, `GroupTypes`, `Mmdb`, `Cohorts`, `Consumer` | | | not begun |

Runs are few and each carries all the properties one instance can decide, so that a later module gets
one run with its safety, refinement and liveness together, and one more only for a disagreement
between the code and what its documents say. Theorems are worth having for type correctness with the
facts that tie program points to state, for every safety invariant, and for every refinement; they
live in `<Module>_proofs`, those of `EachBatch` with the server's in `PluginsServer_proofs`, and those
of `PluginSchedule` and `PluginVMs` together in `Plugins_proofs`.

## 3. The modules

Each action is what runs between two awaits (JavaScript), one SQL statement with the code that follows
its answer, or one step of an external system. `PROJECT.json` maps every definition to its lines.
Definitions named `X_something` next to `X` are mutated forms of `X`, one for every property: with
`X_something` in the place of `X`, the run of that property fails.

### 3.1 `KafkaProducerWrapper`: the batching producer

| model | code (`utils/db/kafka-producer-wrapper.ts`) |
|---|---|
| `currentBatch`, `currentBatchSize` | the fields of that name |
| `overdue` | `Date.now() - lastFlushTime > flushFrequencyMs` |
| `todo[c]` | the rest of a `queueMessages` loop of caller `c` |
| `sending[f]` | the batch whose `producer.sendBatch` flusher `f` awaits |
| `accepted`, `flushed`, `delivered`, `lost`, `rejected`, `refused` | history of what became of each record |

`queueMessage` decides, pushes and exchanges the batch before its first await, so that is one action;
the send is another. Three kinds of flushers overlap: callers, firings of the interval, `disconnect`.
A failed send drops its batch, rethrows to a caller (whose list ends there) and is swallowed by the
interval. `Kill` is `piscina.destroy()` or `process.exit()`.

`AtMostOnceChannel` is what the users of the wrapper may rely on: a FIFO hand-over in whole batches,
each record at most once, everything handed over settled as delivered or lost. `ImplementsChannel` is
the refinement (`queue <- currentBatch`, `outstanding <- Outstanding`).

### 3.2 `PersonState`: create, identify, alias and merge

One process per event; `ps[p].pc` is the next statement. Postgres is `person` and `pdi` (the
distinct-id rows), ClickHouse is `chPerson` and `chPdi` collapsed to their highest versions, `seen`
is the per-thread `personSeen` cache, and `ps[p].box` is `LazyPersonContainer` (memoised or not).

* `createPerson` (person and ids in one transaction), `addDistinctId` and the stand-alone `UPDATE` are
  one step each, because nothing else can see them half done.
* The merge transaction is four statements and a COMMIT. Its writes are invisible until COMMIT and are
  applied there; its row locks make others wait, and are read off the `pc` of the process that holds
  them (`LocksPerson`, `LocksId`). A cycle of waits is broken by `DeadlockVictim`, which counts
  attempts as `mergePeople` does.
* Foreign keys are deferred (as the Django migrations declare): an id that was added to the deleted
  person meanwhile makes the COMMIT fail (`Dangling`).
* Every committed write is followed by a separate step that queues its Kafka messages, which may fail.
* `Crash(w)` ends a worker's events, and Kafka delivers them again, finished ones included.

Abstracted: property values and timestamps (a bit says whether properties differ), the Redis person
caches (the read path used here does not depend on them), feature-flag overrides. What is kept of a
row is `is_identified` and `version`.

A race the model takes as the code has it: `moveDistinctIds` throws `RaceConditionError` when the
person it moves ids to is gone, with the comment that this "will trigger a retry with updated
persons" (`db.ts`); nothing retries it, `handleIdentifyOrAlias` logs and swallows it, and the alias is
dropped. `AliasesTakeEffect` therefore speaks of the aliases that were answered as merged.

### 3.3 `EachBatch` and `AtLeastOnceLog`: the batch consumer

One partition, any number of servers in the group. `con[s]` is a server's consumer: where it is in
`eachBatch`, its resolved offset `at`, the batch's end `hi`, the current group `..to`, the tasks of
the group that have not answered (`left`), and `strays`, the tasks of a batch that failed under them.
`IsGroup` is both groupings: `groupIntoBatchesIngestion` (`ByKey`) and `groupIntoBatches`.

kafkajs and the coordinator are external and modelled from how `eachBatch` uses them: a fetched batch
starts after the resolved offset; commits happen at any time up to the resolved offset; an evicted
member learns of it from a commit or a heartbeat; a batch whose handler throws is fetched again. All
messages of an id are in one partition (the capture endpoint partitions by team and distinct id), so
one partition shows what there is to show.

`AtLeastOnceLog` promises that the committed prefix only grows and never passes what was handled;
`ImplementsLog` maps `handled <- settled`, `cursor <- committed`.

### 3.4 `PluginsServer`: the process around it

EXTENDS `EachBatch` and gives each of its steps what the process does at the same time: an answered
task leaves a message in a thread's producer buffer (`buf`), or in the job queue, or drops its event;
`out` is handed over, `safe` is written. The buffers are sets of messages that are handed over once
and then delivered or lost: the promise of `AtMostOnceChannel`, which `KafkaProducerWrapper` is proved
to implement. `stage` follows `closeJobs`: queue, services, plugin teardown, flush, exit; `signals` is
`shutdownStatus`. `casualties` are messages hit by a failed send, a failed dead-letter write or a
sudden end; they are what the accounting property excuses, by name.

`stopPiscina` races the plugins' teardown with five seconds, then awaits every thread's `flush()` and
at least two seconds. A send that the interval or a full buffer started before is not awaited by that
`flush()`; it has the two seconds. Time is not modelled: `Finish` waits until such a send has ended,
and one that takes longer is a `Killed` process.

A second signal ends the process in the middle of its shutdown (`SecondSignal`): `closeJobs` answers
"Try again to shut down forcibly" and returns, and the `beforeExit` handler that awaited it goes on to
`process.exit(0)`, so the forced shutdown that the third signal is meant for is never reached.

### 3.5 `PluginSchedule`: the scheduler and its Redis lock

`lock[s].pc` is the chain of timers and commands of `startRedlock`; Redis runs the commands of one
connection in order and drops the key at the end of its time to live. `mine` is the `lock` variable of
`redlock.ts`, `have` is `weHaveTheLock` of `schedule.ts`: two flags, because a failed extension
resets one and not the other. `phase[s]` follows `stopSchedule`: stop, unlock, quit, `onUnlock`, wait.
A cron callback awaits a reload that is going on, without looking at `stopped` again. The plan that a
load yields is any set of tasks; overlapping reloads are taken as one. `lost` is history: the key ran
out, or an extension failed.

`redlock.ts:76-87` tries again after a `LockError` only. Any other error is reported and no timer is
set (`CannotLock`): that server never schedules again until it is restarted. Which errors are
`LockError`s is the library's business (redlock `^4.2.0`, external), so an attempt that fails may end
either way. `AlwaysAScheduler` speaks of the others: as long as one server is up that has not given
up, there is always again a scheduler, whoever gave up and whatever key it left behind. A failed
extension makes the library try to delete the key, so the key may be gone while `weHaveTheLock` still
says otherwise; the model counts that as `lost`.

A task "runs on only one plugin server instance" (`plugin-server/README.md:141`) is not quite what the
code does: `stopSchedule` releases the lock before it waits for the tasks that still run, and a server
that lost its lock goes on until it notices. `OverlapIsExplained` says that these are the only ways.

### 3.6 `AsyncMigrations`: schema changes that take hours

Three kinds of agents write a migration's row: Celery tasks (`runner.py`), requests of the API, and
the health check. `process_error`, `attempt_migration_rollback`, `complete_migration` and
`trigger_migration` are shared by them and always called last, so an agent is a program point `pc`, a
migration `mig`, an operation `at`, and `fresh` (`fresh_start`) and `child` (the task it has queued
but not recorded).

| model | code |
|---|---|
| `status`, `index`, `celeryTask` | `status`, `current_operation_index`, `celery_task_id` of the row |
| `Call`, `Record` | `trigger_migration`: `delay(...)` and, in a step of its own, saving the id |
| `Start` ... `CompleteMigration` | `start_async_migration`, `run_async_migration_next_op`, `complete_migration` |
| `Rollback`, `Undo`, `UndoFails`, `Stranded`, `RolledBack` | `attempt_migration_rollback` and its `process_error` |
| `Trigger` ... `RequestRollback` | the endpoints of `AsyncMigrationsViewset` |
| `CheckHealth`, `InspectLost`, `InspectActive` | `check_async_migration_health` |
| `celery`, `revoked`, `Kill`, `Crash` | what Celery knows of a task, and how a task ends early |
| `inForce`, `ever` | operations in force, operations that ever were executed |
| `Sign`, `waived` | what a migration's `is_required` looks for; history: completed because of it |
| `torn` | history: a rollback of the migration was disturbed |

Every update of a row is one transaction (`update_async_migration` locks the row and writes the fields
it is given); an endpoint's check and its `save()` are taken as one step. (`trigger` and `resume` save
every column of the row they have just read, without a lock: what another agent writes in those
milliseconds is overwritten; this is not modelled. Nor is `setup_async_migrations`, whose
`sm.save()` (`setup.py:79-90`) rewrites every column of every row at each start of a Django process.)
The checks of `start_async_migration` are one step,
and what comes after them another: the number of Running migrations is read (`runner.py:51`) long
before the row is marked (`:97`), so two tasks can pass the check together, although the documented
limit is one at a time. The properties hold all the same. An operation that throws may have had its effect. A task is PENDING, STARTED or ready
(SUCCESS, FAILURE and REVOKED are not told apart by the code). One health check runs at a time.

A migration that is triggered and found not required is completed at once (`runner.py:67-69`), before
its dependency is looked at. `is_required` looks for traces, not for every operation: 0006's
(`0006_persons_and_groups_on_events_backfill.py:81-93`) is false as soon as its first operation has
set a codec, 0002's after its `RENAME`, or on an instance with `MULTI_TENANCY` (the default of this
tree, `settings/__init__.py:104`), and 0001's always. So a migration that was left half-way (stopped,
or failed with the rollback disabled or failing too) and is triggered again ends as
CompletedSuccessfully with its other operations never executed. `Sign[m]` is the set of operations
whose effect `is_required` of `m` looks for, empty where it looks for nothing, and `waived[m]` records
that `m` was completed that way. The properties say what remains: a completed migration has been
executed in full unless it was waived, and a waived one has at least its sign in force; and what
comes after it may then run on a schema that lacks the rest. `DependenciesFirst` leaves out migrations
whose `is_required` looks for nothing: they are completed without a look at their dependency, and once
completed may be rolled back and resumed, which does not look at it either.

`CompletedIsInForce` is excused by `torn`, and `torn` has named causes, all of which the model reaches:
while a rollback runs, another agent executes, completes or rolls back the same migration (resumed by
an administrator, or by a task that was not killed yet, or by a task the health check started although
the first was only waiting in the queue); or the process that rolls back ends half-way. The code has no
guard against either; a migration may then be completed without all its operations being in force.

### 3.7 `ExportEvents` and `RetriedChannel`: the export buffer of a plugin

| model | code (`worker/vm/upgrades/export-events.ts`, `utils/export-events-buffer.ts`, `promise-manager.ts`) |
|---|---|
| `buffer`, `points`, `timer` | `buffer`, `totalPoints`, `timeout` of `ExportEventsBuffer` |
| `pc[e]`, `race[e]` | where the `add` of an event is, and the promises its `Promise.race` waits for |
| `batch[b]`, `size[b]`, `stage[b]`, `retries[b]` | a flushed batch, named by its first event, and its retry job |
| `Pending` | `pendingPromises` of the promise manager |

`add` flushes first when the event would overflow the buffer, awaits the promise manager, and only then
pushes its own event, without looking at the buffer again: several `add` calls that wait together may
push together. `BatchesWithinLimit` says what is left of the limit (a batch exceeds it by its last
event only). A flush that rejects in the `Promise.race` of another makes that `add` throw before it
pushes its event, which is then in no buffer. A retry is a job with `maxAttempts` 1; it lives on when
the thread dies. An `enqueue` that fails may have enqueued its job and lost the answer: the log says
that the events were lost, and the job runs. (With one job queue configured, as here; with several,
`enqueue` goes on to the next, and the job may be there twice. That, and a job that starts before its
producer has the answer, are not modelled.) `RetriedChannel` is the promise: batches handed over whole and in order, at most
`MAXIMUM_RETRIES + 1` times, never again once delivered or given up.

### 3.8 `JobQueues`: the consumer of background jobs

`started`, `paused`, `runner`, `consumerPool` are the fields of `JobQueueBase` and `GraphileQueue`;
`pc[c]` is what a call of `syncState` awaits; `live`, `stopping` and `open` are what Postgres and
graphile-worker see of the runners and pools. A job has one attempt. `Slots` are pauses and resumes
that nobody awaits (`queue.ts`). While calls follow one another everything agrees
(`SequentialSyncIsSafe`). `syncState` has no lock, and with overlapping calls the model reaches:

* a resume while a pause waits for the old runner: the pause then ends whatever pool the field holds,
  which is the new runner's; the new runner is wedged, and a later stop throws "end called twice";
* a stop while a resume creates its pool: a runner that starts after the stop;
* `createPool` or `run` failing in a resume: not paused, no runner, and nobody tries again.

What holds even then: a job that runs has its runner to itself and keeps it (`TypeOK`), and every
runner that works is the one in the field, or a call waits for its end (`RunnersAreHeld`). Nothing in
`syncState` sees to the latter: it tests the field, awaits, and sets it. It comes from the callers.
Only a job of the runner in the field pauses, and only a queue that was paused is resumed, so two
calls never both find the field empty.

`closeJobs` awaits other services before it stops the queue (`phase` "told"); the signal that started
it reaches graphile-worker's own handlers at once, and they end runners and their jobs (`SignalEnds`).
That they then end the whole process is `Crash`.

### 3.9 `HistoricalExport`: exporting a team's past events

`running`, `cursor`, `old`, `last`, `batchId` and `recent` are the storage keys `is_export_running`,
`timestamp_cursor`, `old_timestamp_cursor`, `max_timestamp`, `batch_id` and `run_every_minute_last`;
`job[b]` is the chain of batch `b`, `user[x]` a job of the interface, `dog` the watchdog. Time is
counted in intervals, of which `dateFrom` begins the third; an absent cursor counts from 0, as
incrementing it in Postgres does, so that a chain which increments a deleted cursor does not happen to
do what `cursor.init` does. `Restart` includes the set-up of the new thread, which writes two of the
keys. Reads, deletes or writes that follow one another with nothing else between are one step; the
start of an export is six (`Claim`, `Reset`, `InitCursor`, `InitLimit`, `NewBatch`, `FirstJob`), and a
start that throws leaves what it had written. A thread runs one job at a time, one thread of each
server stands for all. There is one watchdog: two servers that both take themselves for the scheduler
for a while (3.5) could each run it, which is not modelled.

`NothingMissed` has two halves. `NobodySkips` holds whatever interferes: a chunk behind the cursor was
exported, or is left to a chain that holds its interval or ended there, so what an export misses was
given up by a chain, never passed over. (With the cursor incremented before the batch id is checked,
a chain that was replaced would pass over one.) `Complete` is about an export that nobody interfered
with: it misses nothing.

What the code does, and the properties hold with: `have10MinutesPassed` is true while they have *not*
passed, so the watchdog looks every minute, and replaces a chain that is only slow; the replacement
begins at the next interval, so the rest of the slow chain's interval is skipped (`disturbed`). The
job of a retry carries its place but no batch id and is dropped when it is taken, whatever the log says of "Retrying
in 3s". A thread remembers `maxTimestamp` of an earlier export. Two interface jobs may both find that
no export is running. A start that throws leaves `is_export_running` set. (The
whole feature is behind `HISTORICAL_EXPORTS_ENABLED`.)

### 3.10 `PluginVMs`: setting plugins up, and reloading them

One plugin config on one thread. `vm[v]` has the fields of `LazyPluginVM`; `stage` is where
`initialize` is and what `resolveInternalVm` holds; `attempt[v][w]` is a run of `_setupPlugin` by
whoever started it (`initialize`, a call, or a retry timer); `reload[r]` is a run of `setupPlugins`,
the first of which is the start of the thread; `row` is the config in Postgres and `current` what the
hub's map holds.

* Calls that find the VM not ready each run `setupPlugin`, and each counts as an attempt. A success
  does not call off a retry that is already set, so a VM can be set up again after it succeeded, or
  disabled. For an eager VM (one with jobs or scheduled tasks) this cannot happen, because `initialize`
  makes it `ready` even when a retry is all it has; that is what `SetupsAlone` checks.
* Reloads that overlap: the last to finish wins with what it read, the version in use may go back, a
  VM may be torn down while in use and stay in use, or be left without its teardown. `ReloadsConverge`
  bounds the last: `crossings` counts the reloads that began while another was under way, and no more
  VMs than that are forgotten, however they overlap. Without crossings none is, and the newest is in
  use. A config that is removed or disabled is never torn down (`left`).
* If `processFatalVmSetupError` throws in the `catch` of `initialize`, the VM's promise is never
  resolved: calls, reloads and the start of the thread that wait for it wait for ever. That is the one
  excuse in `NobodyWaitsForEver`.
* `setup.ts:25` compares the plugin's own `updated_at`, which `getPluginRows` (`sql.ts`) does not
  select: the comparison is of `undefined` with itself and always true. A plugin whose code was updated
  is picked up only when its config row changes too. `InUse` therefore looks at the config alone. (The
  test of a reload with a changed plugin passes because it mocks `getPluginRows`.)

Not modelled: stateless VMs that several configs share, several configs at once, the teardown at
shutdown, and what the plugin's code does.

## 4. Runs

| run | instance | shows |
|---|---|---|
| `producer` | 3 messages (one larger than the byte limit), 2 callers, 2 interval firings, queue of 2 | `HandedOverInOrder`, `ImplementsChannel`, `BufferDrains` |
| `persons` | 3 events of 4 payloads over 3 ids, 3 starting populations, 1 worker | `NoOrphans`, `AliasesTakeEffect`, `IdsStayTogether`, `ClickHouseAgrees`, and no deadlock |
| `persons_workers` | 2 events on 2 workers, 2 faults (crash with redelivery, failed Kafka write) | `EventsSettle` |
| `each_batch` | 2 servers, ids b, a, a, groups of up to 3, 2 faults | `OverlapNeedsAFault`, `ImplementsLog`, `StartsInOrder`, `EventuallyCommitted` |
| `server` | 1 server, 2 messages of 2 persons, 2 faults, 1 mishap | `CommittedIsAccountedFor`, `ShutdownEnds` |
| `schedule` | 2 servers, 1 task, 1 fault | `SchedulerHoldsTheLock`, `OverlapIsExplained`, `AlwaysAScheduler` |
| `migrations` | 2 migrations of 2 operations, one never required and one required until its first operation, 2 tasks, 1 administrator with 2 requests, the health check, 1 fault | `NothingSkipped`, `CompletedIsInForce`, `DependenciesFirst` |
| `export_events` | 4 events of sizes 5, 2, 3, 3, limit 4, 1 retry, 1 pending promise | `BatchesWithinLimit`, `ImplementsRetries`, `EventsSettle` |
| `job_queues` | 3 jobs, 2 overlapping pauses or resumes, 4 runners, 1 fault | `SequentialSyncIsSafe`, `RunnersAreHeld`, `JobsAreTaken` |
| `historical_export` | 2 threads, 2 exports, an interval of 2 chunks and an empty one, 2 batches, 1 fault | `NoChunkTwice`, `NothingMissed`, `ExportEnds` |
| `plugin_vms` | 2 calls, 3 reloads, 2 VMs, 1 retry, 1 change of the config, 1 fault | `SetupsAlone`, `ReloadsConverge`, `NobodyWaitsForEver` |

`producer`, `persons`, `each_batch`, `server`, `schedule`, `migrations`, `export_events` and
`job_queues` check their module's type invariant as well.

One run ends with a counterexample, to a sentence of the repository:

* `persons_identified`: "for $identify, we'll not merge a user who's already identified into anyone
  else"; the check reads the person as fetched before, and a person identified since is merged.

### 4.1 Bounds, and why they are enough

Three ids and three events are the least for which one event's merge meets another's creation *and* a
third's merge of the same person; aliases act on two ids, so a third covers "the rest". Two workers
and two faults let a redelivered event meet its own earlier half and another event's; there `persons_workers`
checks liveness only, because the safety properties are proved with faults included (`ClickHouseAgrees`
apart, which speaks of runs without faults). For the consumer
two messages of one id and one of another are the least for which a group must be cut; a fault more
than the overlap it explains is available. Two servers are the least for handing over a partition,
which `each_batch` has; `server` has one process with everything that can befall it, since what
processes owe each other is `EachBatch`'s, of which each of its steps is one, and the proofs (section 5) cover any
number. Two migrations are the least with a dependency, two operations the least for a rollback that
stops half-way or a run that is waived half-way, two tasks the least that run one migration at once; a fault is a crash, an operation
that throws, or a failed check.

Four events are the least for which two `add` calls wait for one promise while a third fills the
buffer. Two unawaited calls and `stop` are the least with every overlap listed in 3.8; each may create
a pool, so four runners are never too few. Two batches are the least in which a chain is replaced; two
threads the least with a remembered limit. Three reloads are the least for which two overlap after the
start, two calls the least for which attempts meet; the config is in force at the start or not.

The bounds on counters are `MaxList`, `MaxPerson`, `MaxFaults`, `MaxMishaps`, `MaxRequests`,
`MaxRunners`, `MaxBatch`, `MaxReloads`, `MaxVms`, `MaxVmFaults` and `MaxVersion`; all are in guards and named.
(`MaxPending` and `MAXIMUM_RETRIES`, `VM_INIT_MAX_RETRIES` are the code's own.) Where a bound would
keep a chain from being started, `ExportEnds` says so by name (`Capped`).

In `persons`, events and, in `migrations`, tasks are symmetric (no liveness is checked there).

### 4.2 Fairness

* Producer: the interval keeps firing while the process is up, and kafkajs settles every `sendBatch`,
  as its retries are finite. Nothing obliges a caller.
* Persons: each event's next step is taken; the event loop and Postgres are fair to every promise.
  `Publish` succeeding is not assumed to be more than possible, as `PublishFails` also ends the step.
* Consumer: a server that is down is started again, kafkajs polls and heartbeats, tasks answer
  (a plugin that never returns is cut by the task timeout). No stop and no fault is forced.
* Server: tasks end, Kafka answers, `closeJobs` goes on.
* Scheduler: timers that were set fire, Redis answers and forgets keys, tasks and loads end. A server
  that gave up is not obliged to try again.
* Export buffer: the flush timer fires, exports end one way or another, jobs are run, promises that
  are settled resume who awaits them.
* Job queue: Postgres answers, jobs end, an idle runner takes a job that waits, and a consumer that
  is paused is asked to resume again (the server does so when its threads have drained).
* Historical export: some job or start of an export goes on while one can (none of their steps can be
  repeated for ever, so weak fairness of their disjunction is enough); the watchdog runs. No user is
  obliged, no retry assumed.
* Plugin VMs: `setupPlugin` ends one way or another, Postgres answers, tasks go on. No step there can
  be repeated for ever, so weak fairness of their disjunction is enough. Retry timers need not fire.

### 4.3 Deadlock

TLC checks for deadlock except in `producer` (a disconnected or killed process has nothing left to
do), `server` (a service that throws in `closeJobs` leaves a process that does nothing and does not
exit), `migrations` (when all migrations are done, or nobody asks for more, nothing runs),
`export_events` (every event has been settled, or the thread is gone), `job_queues` (the process has
exited), `historical_export` (the exports are over) and `plugin_vms` (no more calls or reloads come).
In `persons` a state without a successor would be an event that waits for ever.

## 5. Proofs

All in `*_proofs`, for every value of the constants that satisfies the named assumptions
(`ProducerAssumption`, `PersonAssumption`, `EachBatchAssumption`, `MishapsAssumption`,
`ScheduleAssumption`, `MigrationsAssumption`, `ExportAssumption`, `QueueAssumption`,
`HistoricalAssumption`, `VmAssumption`), checked by TLC on every instance.

* **`KafkaProducerWrapper_proofs`**: `TypeOK`, `HandedOverInOrder`, `EveryMessageHasOneFate` and
  `BufferWithinLimits` are inductive relative to each other in that order. The refinement
  `ProducerImplementsChannel` uses the fate invariant: what a flush exchanges is disjoint from every
  outstanding batch, so a hand-over is one of the channel's. `EveryMessageHasOneFate` and
  `BufferWithinLimits` are proved only; no run repeats them.
* **`PersonState_proofs`**: the properties are not inductive, because a person read earlier may be
  gone. The strengthening `Sound(s, d)` says what remains true of a person in memory: its number was
  handed out, and while its row lives, the id it was read for is still its own, since rows die in
  merges only and a merge takes every id along. `Apart` says two open transactions meet only through
  their locks. With `Good` (what an event holds at each program point) and `Numbered` these make
  `IInv`; `Evolves` (what any step does to the tables) carries `Sound` from state to state. From it:
  `PersonTypeCorrect`, `PersonNoOrphans`, `PersonAliasesTakeEffect`, `PersonIdsStayTogether`.

  `PersonClickHouseAgrees` needs a second invariant, `Follows`, on top of `IInv`. Of every row there is
  a last word: the version Postgres wrote last, with what it said. `Heard` says that what ClickHouse
  holds and what is still to be sent about the row is that word or older, and that the word itself is
  in one of the two. A write says a new word, with a higher version, and leaves it with its event until
  `queueMessages`; a message that arrives, early or late, only replaces what is older. When all events
  have ended nothing is still to be sent, so ClickHouse holds the last word. The theorem is about runs
  in which nothing was lost (`faults = 0`): when a worker dies between COMMIT and `queueMessages`, or
  the messages fail, the row in ClickHouse does stay behind until something writes it again, and
  nothing in the code makes up for it.
* **`PluginsServer_proofs`, the batch consumer**: `IInv` ties each consumer's resolved offset and the
  answered part of its group to `settled`, and a member that would pass a heartbeat to the committed
  offset; the last is what keeps the committed offset from going back after an eviction. From it:
  types, `EachBatchImplementsLog`, `EachBatchStartsInOrder`. `OInv` is an account: members that were
  evicted and do not know it (`Zombies`), and faults whose strays still run (`Marks`), are together no
  more than the faults; tasks of one id map one to one to the owner, zombies and marks
  (`EachBatchOverlapNeedsAFault`).
* **`PluginsServer_proofs`, the server**: every step is built on a step of `EachBatch` or leaves it
  alone (the lemma `ConsumerStep`), so `IInv` carries over; `SInv` adds that everything at or before a resolved
  offset is kept somewhere, where a buffer stops counting once its threads were flushed for the last
  time. From it: `ServerTypeCorrect`, `ServerAccounts`.
* **`Plugins_proofs`, the scheduler**: `TypeOK` (with what is left of a client after `onUnlock`) and
  `SchedulerHoldsTheLock` are inductive together with "promises are awaited only while waiting".
  `ScheduleOverlapIsExplained` follows from a fact about each server: its tasks run only while it
  holds the key, has lost it (to its time to live or a failed extension), or is past giving it up.
* **`AsyncMigrations_proofs`**: none of the properties is inductive, since agents act on what they read
  earlier. `Earned` and `Holds` say what an agent's program point claims (at `write`, that the
  operations up to `at` were executed); with what the row claims they make `Skips` (over `ever`) and,
  outside torn migrations, `Standing` (over `inForce`). `Quiet` collects the steps that come to claim
  nothing: sixteen actions are one case each of a lemma and are done with. `Standing` needs that an
  undisturbed rollback is alone, because it is what takes operations out of force under the others.
  `Deps` adds that whoever may still execute an operation belongs to a migration whose dependency was
  executed, or was waived, across resumed runs. `waived` is one more claim of these: it lets the row be
  completed with its sign in force instead of all operations. From them: `MigrationsTypeCorrect`, `MigrationsSkipNothing`,
  `MigrationsInForce`, `MigrationsInOrder`.
* **`ExportEvents_proofs`**: the invariant is `TypeOK`, `BatchesWithinLimit`, that every flushed event
  is in exactly one batch (`Batched`, `Apart`) and that what became of an event before a flush agrees
  with where it is (`Marked`). From it: `ExportTypeCorrect`, `ExportBatchesBounded` and the refinement
  `ExportImplementsRetries`.
* **`JobQueues_proofs`**: `TypeOK` with, unless calls overlapped, `Sequential`: what the one call under
  way knows at each of its program points about the flags, the fields and the runners. From it:
  `QueueTypeCorrect` and `QueueSequentialSyncIsSafe`. `Held` is for calls that overlap: while a call
  makes a runner it is the only one that does, the field is empty and the queue not paused, so no
  other call gets as far; with it `QueueRunnersAreHeld`.
* **`HistoricalExport_proofs`**: `HistoricalNoChunkTwice` rests on the cursor, which whoever takes an
  interval increments first. `Held`: of the jobs begun since the cursor was set, no two hold one
  interval, and neither what a job has still to export nor what lies past the cursor has been exported.
  `HistoricalNothingMissed` rests on the phases of an undisturbed export (`Phases`): `Fresh`, then
  `SettingUp` by one user, then `ChainAtWork`, one chain that is the current batch's and has exported
  all that lies before its place (`Reached`), then `Finished`. A step either keeps the phase, ends it in
  the next one, or sets `disturbed`. Its other half, `NobodySkips`, needs `Numbered` (a batch's number
  is one agent's until its job is enqueued, so no job is written over) and `Placeless` (a job that is
  to take an interval has none), and nothing about the order in which anybody acts.
* **`Plugins_proofs`, the VMs**: `VmSetupsAlone` is an account with cardinalities. `Counted`: what
  `_setupPlugin` has counted covers the timers that were set and the attempts that asked for one, so an
  attempt that may still ask finds a timer left. `Linked` ties a program point to the VM it acts on,
  and `Sole` says why attempts stay apart where the code keeps them apart: for an eager VM, `ready` is
  set before anyone can see it resolved, so no call decides to set it up. `VmReloadsConverge` is an account too
  (`Account`): VMs already forgotten, and those that reloads under way may still cause to be, are no
  more than `crossings`. Its second half rests on `InTurn`: while no reload crossed another, at most
  one is under way, the rows it read are no older than any VM, and what it made is the newest, the one
  in use torn down before.

Only model-checked: the liveness properties (`BufferDrains`, `EventsSettle` of persons and of exports,
`EventuallyCommitted`, `ShutdownEnds`, `AlwaysAScheduler`, `JobsAreTaken`, `ExportEnds`,
`NobodyWaitsForEver`), because fairness is outside the prover's reach; and, of course, the run that
ends with a counterexample. Every invariant, action property and refinement of a passing run is a
theorem.

No liveness is stated of async migrations, because the code promises none: a task that fails leaves a
row that is Running and that the health check passes by (it looks at PENDING and STARTED only), with
several rows Running `objects.get` throws in every check, and a row whose trigger died stays Starting.

## 6. Not modelled

Step 11 of the plan and the caches; and, for the reasons given in `PROJECT.json`: query building, the
REST API's CRUD, the front end, the vendored ORM, crypto and data-platform scripts, source
transpilation, action matching, the property-definitions cache. Most of the repository's lines are in
these: user interface, SQL text and request handlers keep no state that several actors share.

Within modelled components: property values, timestamps, metrics, logging, time limits other than
those named above, pause and resume of the consumer (no caller is left), the start-up sequence of the
server, e-mails, progress and query ids of async migrations, `FsQueue`, and what sections 3.7 to 3.10
leave out.

Hazards of the code that no model covers yet, beyond those `PROJECT.json` lists:

* `worker/ingestion/person-state.ts:523`: flag overrides are moved on another connection, so they stay
  moved when the merge rolls back.
* `worker/ingestion/person-state.ts:465`: `mergePeople` writes what it computed from rows read earlier,
  so a concurrent update of the person is undone (the loss of `is_identified` is the finding above; the
  values of properties are abstracted).
* `worker/ingestion/person-manager.ts:24`: an id is marked as seen before its person exists.
* `utils/utils.ts:26`: `killGracefully` forces an exit a few seconds after SIGTERM, less than
  `stopPiscina` may need; to the model this is a `Killed` process, whenever it comes.
* `main/pluginsServer.ts:306`: `flush()` is awaited, a send begun before it is not (section 3.4).
* `main/ingestion-queues/batch-processing/each-batch-ingestion.ts:21`: a message that is not the
  expected JSON throws before any task starts, and its batch is fetched again for ever.
* `main/services/schedule.ts:33`: a cron callback checks `stopped` before it awaits a reload, and starts
  its tasks after a stop; the model has the step, no property forbids it.
* `main/services/mmdb.ts:143`: the fetch status is read and set in two commands.
* `models/cohort/cohort.py:259`: `save()` writes every column of a row read before the calculation.
* `analytickitanalytics/consumer.py:108`: an item over the size limit is dropped without `task_done`,
  and a later `join` waits for ever.
