# Formal model of Velocity

TLA+ specifications of the parts of Velocity, a full-stack Go web framework, in
which goroutines, processes or hosts share state: its queues and workers, job
batches, the transactional outbox, the scheduler, the WebSocket server, the file
cache and its locks, transactions and migrations, sessions, the request pipeline
and the event dispatchers. TLC checks the modules on small instances; TLAPS
proves the main safety properties for every value of the constants.

## 1. The system

Velocity is one Go module of about forty packages. Most of them are request-local
or pure (routing, validation, query building, rendering, encoding). These are the
parts with shared state that have a module.

| Part | State | What is hard about it |
|---|---|---|
| SQL queue driver (`queue/database.go`) | tables `jobs`, `failed_jobs`, `job_dedupe`; a mutex per driver | leases that expire under slow holders, clock skew, `Clear` in two statements |
| Worker pool (`queue/worker.go`) | pumps, the lease each works under | timeouts racing handlers, ambiguous driver errors, panics, restarts |
| Memory and redis drivers (`queue/memory.go`, `queue/redis`) | process heap; redis lists and sets | delayed jobs, dedupe keys; deletion on pop, one command at a time |
| Batches and callbacks (`queue/batch*.go`) | `job_batches` row, the dispatcher's copy, callback flags | a failing dispatch racing workers, the completion CAS, crash between push and mark |
| Outbox and relay (`orm/outbox.go`) | outbox rows with lease and attempts; partitions in flight | settlements that are not fenced, several relays, stop and restart |
| Drain (`internal/drain`) | one state word, the owner's run | stopping from inside the work being stopped |
| Scheduler (`scheduler/`) | one-server and overlap locks with TTL and token | expiry under running tasks, several hosts, clocks that go back |
| WebSocket server and broadcast driver | client table, send queues, groups, subscriptions | close races, admission limit, shutdown |
| File cache and its locks (`cache/drivers`) | files shared by processes, stripe locks | reads that decide a later write, sweeps, crashed writers |
| Transactions (`orm/manager.go`, `events/`) | savepoints, buffered events, callbacks | nested rollback, commit errors, late registrations |
| Migrations (`orm/migrate`) | migrations table, schema, the lock of each driver | crashes inside a body, locks that are lost |
| Sessions (`auth/drivers/session`) | records, index and generation token in a cache | overlapping requests, rotation and revocation |
| Request pipeline (`router/`) | response writer, timeout layers, event pool | late handlers, panics, nested deadlines, shutdown |
| Event dispatchers (`events/`) | the current batch, keyed timers | flushes that overlap, timers that fire while they are replaced |

They build on one another. Workers run over a queue driver and settle batch slots;
the relay and the scheduler are users of `internal/drain`; sessions at work in a
request use the record store; the outbox writes its rows with a transaction. Where
one part relies on another, its module uses what the other one's module
establishes, and says so in its header.

`PROJECT.json` lists all components, also the ones without a model and why, and
the hazards with the line where each one bites. A component's sources name its
main files, not every file of a package.

## 2. Modules

| Module | Models | Uses |
|---|---|---|
| `DatabaseQueue` | `queue/database.go` | |
| `QueueWorker` | `queue/worker.go` on that driver | `DatabaseQueue` |
| `JobQueue` | what a driver with reservations promises | |
| `MemoryQueue` | `queue/memory.go` | refines `JobQueue` |
| `RedisQueue` | `queue/redis/redis.go` under the worker's delete-on-pop path | |
| `Batch` | `queue/batch.go`, `batch_repository_db.go`, `batch_callback.go` | |
| `RunLifecycle` | what a run of a component promises | |
| `Drain` | `internal/drain/drain.go` | refines `RunLifecycle` |
| `OutboxRelay` | `orm/outbox.go` | refines `RunLifecycle` |
| `Scheduler` | `scheduler/`, `scheduler_cache_locker.go` | refines `RunLifecycle` |
| `WebSocket` | `websocket/`, `broadcast/drivers/websocket.go` | |
| `FileCache`, `FileLock` | `cache/drivers/file*.go` | |
| `TxScope` | `orm/manager.go`, `orm/tx_callbacks.go`, `events/buffer.go`, `events/after_commit.go` | |
| `Migrator` | `orm/migrate/` | |
| `ServerSession` | `auth/drivers/session/server.go`, `internal/buildonce/serial.go` | |
| `SessionRecords` | `auth/drivers/session/cache.go` | |
| `CommitListeners` | `router/response_writer.go` and the error boundary of `velocity_router.go` | |
| `RequestTimeout` | `router/timeout.go`, `admission.go`, `event_dispatcher.go` | |
| `EventBatching`, `KeyedTimers` | `events/batching.go`, `events/keyed_timers.go` | |
| `MC*` | instances for TLC | the above |
| `*Proofs` | theorems (section 4) | the above |

Definitions keep the names of the code. A definition under a comment that begins
with "Bug:" is a deliberately wrong variant of the one after it. It is never used
by a specification; substituting it shows that a property can fail.

Variables marked as history or observation (`acked`, `tokens`, `exposed`,
`savedBy`, `crossed`, ...) record what happened and are read by no guard.

### Queues

**DatabaseQueue.** `jobs` maps the ids of the rows present to their columns;
`dedupe` is `job_dedupe`; `failed[i]` counts the `failed_jobs` rows written for
row `i`. A transaction is one action. `Clear` is two autocommit statements, hence
two actions with `clearing[p]` standing for the mutex of driver `p` held between
them; `ClearAborted` is the second statement failing, or the process dying before
it. Pops and settlements take that mutex only without row locks
(`HasRowLocks = FALSE`, sqlite). With row locks a pop may pass over rows that
others hold locked, so `Selected` allows any candidate. `time.Now()` in process
`p` is `clock + Skew[p]`, so skew shortens leases; `LeaseProtects` states by how
much. Every token ever issued stays in `tokens` and may be presented at any time,
by a slow, a paused or a confused holder. Left out: payload encoding, `Size`,
`FailedCtx` without a reservation, and the delete-mode `PopCtx`, which is a
reservation followed by `AckCtx`.

**QueueWorker.** A pump is a point in `processJob` and a set of at most one token.
Every driver call may succeed, answer `ErrLeaseLost`, or fail with or without
having taken effect. Side effects, meaning the batch counters and the `queue.job.*`
events, are a step after the settlement, so a crash can fall between. `PumpPanics`
is a panic in `MaxAttempts`, `ShouldRetry` or `Backoff`, which run on the pump's
goroutine. `Timely` says whether pumps settle inside their lease, as the defaults
(30 s timeout, 90 s lease) intend; safety is checked without it. `UsesDriver` is
the refinement: the pool's specification implies the driver's on the variables
they share, so everything shown of the driver with arbitrary token use holds of
the pool.

**MemoryQueue** has one mutex, so each call of the driver is one step and only what
a worker does between calls interleaves. It refines `JobQueue`: a pushed job is in
one place at a time (list, heap of delayed jobs, lease) and leaves by an
acknowledgement, a recorded failure or a `Clear`. Left out: `Pop` without a
reservation, the length bound, Shutdown.

**RedisQueue** takes each redis command as a step; a command may fail, or take
effect with its reply lost, and a worker may crash or be stopped between any two.
The dedupe script is one step, as redis runs it. Left out: the expiry of
sentinels, Shutdown.

**Batch** is one batch: its row, the dispatcher with its own copy (`local`), a
state per job, and per callback kind the `dispatched` column, the goroutines
between the steps of a delivery and the callback job in the queue. Each repository
statement is a step. `Settled` and `JustFinished` are the clamped update and the
completion CAS, which share one transaction. The queue appears through what
`QueueWorker` establishes. `Timeouts`, `ReadsFail` and `PushCommits` switch
failure modes on that some properties do not survive, so each of those is a
question of its own. Left out: the in-memory repository, closures of the
dispatching process, batch events, `Delete`, and the order in which jobs are
pushed.

### Runs and services

**Drain** models the atomic word by the set of units it counts and a closed bit;
closing the idle channel is a later step of whoever found it due. Stops come from
outside, from inside an admitted unit and from inside the drain, whose work may
panic. It refines `RunLifecycle`: units are admitted only while the run is running,
it finishes only when all were released, and the next begins only after that. A
run whose drain panicked has that panic for its result, perhaps with units still at
work, and counts as one that never finished.

**OutboxRelay** keeps times relative to now, so that a lease is what is left of it;
the `now` a batch was scanned with is its age. A relay scans, claims with a
conditional UPDATE, reads the row back, dispatches on goroutines of its own and
settles with writes the lease does not fence. Outages are a failed statement or a
killed process. `exposed` holds the rows whose lease ran out while they were in a
callback, or that an operator replayed.

**Scheduler** has hosts with a loop each and locks with TTL and token in one
store; the wall clock falls back once (`FallBackAt`, `Repeat`). Cron matching is a
set of due minutes. Left out: background processes, hooks, output capture.

**WebSocket** has the run loop, which reads the register, unregister and broadcast
channels in any order between them, the fan-out goroutine, which a broadcast is
queued for in one step and woken for in the next, the two pumps of each
client, the two-phase end of a send state, groups, the subscriptions of one
channel of the broadcast driver, and Shutdown. Left out: message handlers, client
events, presence, authorisation, the redis broadcaster and the inline path of a
full broadcast channel.

### Storage

**FileCache** is one key. Writes hold the stripe's flock and the mutex of their
process's store from read to rename; reads take neither and cleanup takes the
stripe without waiting. `HardLinks = FALSE` is the path on which Add creates the
file empty and fills it. **FileLock** is one lock: a record read and changed under
the stripe by Get, Release and ForceRelease, reached by the sweep and Flush under
the store mutex alone. Left out: the memory, redis and database stores, tags,
Remember.

**TxScope** is an outermost transaction and its savepoints, with everything
deferred to the end: events, after-commit listeners and the three callback lists.
Scope 0 is a goroutine the closure left behind. **Migrator** has Up, Down and Fresh
of several processes on each of the three drivers; a migration is a body of two
statements. `torn` holds the migrations whose body ran, wholly or in part, without
its record, which only a driver without transactional DDL lets happen.
`RecordsMatchSchema` is then about every other migration. Left out: query building,
models, DDL.

### Requests

**ServerSession** takes a call of the record store as one step; the transitions of
one session take turns, as `internal/buildonce/serial.go` makes them. **SessionRecords**
is that store over a cache, each cache call a step, for the records of one user.
A read that fails cannot be told from an absent key, as in the code. An id may be
put again after its record is gone, or over it. `missed` holds the ids whose second
look in `unlink` failed, by the read or by the index write. Left out: expiry,
visitor records, rebinding, crashes in the middle of a call.

**CommitListeners** follows one request from its handler to `RequestHandled`. The
handler chain and the error handler are application code that registers, writes,
panics and may recover. **RequestTimeout** nests `Depth` timeout layers, each with
its goroutine. **EventBatching** numbers events in the order they are recorded;
listeners may call back into the dispatcher. **KeyedTimers** names an event by the
generation its schedule took; the coalesced count, throttling and rate limits are
left out.

## 3. Runs

Parts that share no variable are checked together: an `MC` module extends several
of them, and its variable `subject` names the one that moves in a behaviour, while
the variables of the others keep their initial values. The state graph is the
disjoint union of the parts' graphs, and a property of one part holds trivially in
the others. In the live runs the fairness of each part is conditioned on `subject`.
`INSTANCE` gives a part a second instance over the same variables where it needs
one (`Sqlite`, with variables of its own, `Back`, `Alone`, `Ambiguous`, `Failing`).

Three safety runs use symmetry. In each pair (two workers, relays, hosts,
connections, processes with their pumps, requests, instances, event names, jobs) the
members are alike, and one permutation swaps all pairs at once: only one part moves
in a behaviour, so this is the full symmetry of each pair at the price of one
comparison per state. The properties of these runs are invariants and, in
`workers_sessions_safety`, conditions on single steps.

| Run | Instance | Checks | Distinct states |
|---|---|---|---|
| `workers_sessions_safety` | two processes with a slow pump each, lease 1, three reservations, one fault; two requests of one session with four operations, and with three and one failed store call | `SideEffectsOnce`, `SettledWithinBudget`, `UsesDriver`; `FlashOnce`, `RevocationHolds`, `SavesMerge` | 1,105,440 |
| `services_safety` | SQL driver: two processes, skew 1, lease 2, one row; sqlite: one process, two queues, two keys, two rows; redis: two workers, two jobs, one mishap; outbox: two relays, one row, one replay; two scheduler hosts, one crash, one lock error, a clock that runs on and one set back by a minute; WebSocket: two connections with room for one, and one connection with a broadcast and two group or subscription calls | `FenceAdmitsOne`, `JobsAccounted`, `LeaseProtects`; `NoJobDoubled`, `LossNeedsTwo`; `OutboxNeverLoses`, `OneHandlerPerLease`; `OneHostPerMinute`, `OverlapGuarded`; `HubsConsistent` | 871,276 |
| `batch_requests_safety` | batches of three jobs (certain pushes, timeouts, two faults) and two (ambiguous pushes, failed reads); two instances over one record cache, three calls, two failed reads and one failed index write; three listeners; two event names, four schedules | `TerminalOnce`, `CertainlyProcessed`; `SavesKept`, `RevokedNotServed`, `LiveListed`; `ListenersFirst`; `OwnDeliveryOnly` | 2,498,380 |
| `storage_safety` | three clients in two processes, one operation each, one fault; three lockers; a transaction with two savepoints and two registrations; two migrating processes with three calls between them on each driver, two faults | `CacheSound`; `HolderIsRecorded`; `DeferredFollowsOutcome`; `MigrationsSound` | 2,113,125 |
| `queues_live` | timely pumps on the SQL driver, the memory driver with three jobs, the redis driver with a poisoned job | `QueuesDrain`, `MemKeepsContract` | 110,735 |
| `runs_live` | three units and two stops; a relay with two rows of a partition and one outage; one scheduler host with two stops; one connection and two broadcasts | `KeepsLifecycle`, `UsersKeepLifecycle`, `StopsComplete`, `RelaySettles` | 67,465 |
| `requests_live` | two nested deadlines; two callers, batches of two, four events, one failing entry | `AnsweredOnce`, `StopWaitsForLate`, `RequestAnswered`; `BatchInOrder`, `BatchDrains` | 145,651 |
| `batch_live` | two jobs, timeouts, failed reads, two faults; one job with all callbacks and one fault | `BatchFinishes`, `CallbacksArrive` | 60,853 |

Some properties are conjunctions of the statements of one part, each defined and
commented beside it: `JobsAccounted`, `NoJobDoubled`, `HubsConsistent`,
`CacheSound`, `MigrationsSound`, `DeferredFollowsOutcome`,
`OverlapGuarded`, `AnsweredOnce`, `StopsComplete`, `UsersKeepLifecycle`,
`RelaySettles`, `QueuesDrain`. Deadlock is checked where a part always has a step
or an explicit step of rest; it is off in the runs whose parts come to an end.

### Bounds

Each bound is a constant, named in the module and given in the configuration.

- *Queues.* Rows of the SQL driver interact only through the choice of a pop and
  through dedupe keys, so one row is enough for fence and lease, and two rows with
  two keys and two queues for the keys. One fault reaches every crash point, stop,
  panic and ambiguous answer of a pump. `MaxIdle` bounds time passing while nothing
  waits for it. Two redis workers and one mishap reach every pair of commands with
  one that fails in between; `LossNeedsTwo` is about one failure by its statement.
- *Batches.* Three jobs allow one settled, one failing to be pushed and one not
  tried; two faults let a failed push meet a failed settlement. `MaxPushers` bounds
  concurrent deliveries of one callback by the reaper.
- *Outbox.* Two relays and one row are the whole contention for a lease; two rows of
  one partition, the second waiting for the first, are in `runs_live`. Outages and
  crashes are in `runs_live` too; the theorems on the outbox hold for any number.
  The relays read one clock, so skew between them is not covered. With one try per
  row, `runs_live` reaches a dead letter by the first failure.
- *Services.* Two hosts and two instants let the second contend for the slot of the
  first and let locks expire. Two connections with room for one make every slot
  contested.
- *Storage.* Two goroutines of a process share the store mutex and a third client
  only the stripe. Two nested scopes allow a rollback inside a scope that stays.
  Three migration calls and a fault make two batches, by an Up that breaks off and
  one that goes on, and the Down that undoes both.
- *Requests.* Two rotations of one session and a save of each, and a flash that one
  request takes while the save of another is under way and that is then read anew,
  need four operations. Three store calls allow two that race and one that observes;
  two failed reads reach an unlink both of whose looks fail. One chunk of a body
  (`MaxChunks = 1`) shows whether it was sent, not whether it was cut.

Larger instances passed once while the modules were being developed, some of them
under earlier configurations of a part on its own: `OutboxRelay` with two relays,
two rows of one partition, one worker and one outage (24.7 million states); the
scheduler on two hosts with a crash, a lock error and a stop (3,020,298);
`WebSocket` alone (5,892,062); `batch_requests_safety` with three jobs in the
ambiguous batch (3,752,545 for the whole run); `RequestTimeout` with two chunks and two pool
slots (180,429); `TxScope` with three registrations (538,912); `runs_live` with two
tries per row (107,559); one job with all callbacks and two faults (140,939).

### Fairness

Weak fairness on the steps of goroutines that run for as long as their process
does, and on the passing of time where code waits for it. Pumps loop until their
process stops, job contexts end by timeout and database calls carry timeouts; a
stopped process is replaced. Dispatch, a job's worker, started callback goroutines
and the reaper, whose ticker runs while the repository is open, are fair. The
relay's loop and workers, a scheduler's tick and tasks, and the goroutines of the
WebSocket server are fair. A deadline passes, and a caller with a flush in hand
goes on with it. Strong fairness is used in two places where a Go `select` keeps
offering a closed channel beside one that may be ready again and again, and picks
among the ready ones uniformly: `FanStops` (the fan-out seeing the server's stop)
and `SeesStop` (the flush loop). Faults, crashes, stops, cancellation, pruning and
what application code does are never fair; `RequestAnswered` holds though the
handler may never return, and its second part assumes that it does. `QueuesDrain`
assumes that pumps settle inside their lease (`Timely`).

### Where the code and its comments disagree

Each of these runs checks one statement quoted from the repository, and TLC finds
a behaviour of the code that breaks it. The quotations are in `PROJECT.json`.

| Run | Statement | Behaviour |
|---|---|---|
| `batch_timeout` | the worker updates batch progress on failure | after a timeout `recordFailure` runs under the ended job context, the repository refuses it, and the batch stays pending, although nobody cancels it, nothing else fails and every step is fair |
| `tx_savepoint` | by the time AfterCommit runs, the row is durable | a commit callback registered inside a rolled-back savepoint is run when the outermost transaction commits |
| `websocket_zombie` | `activeConns` counts live clients and admitted connections | a client whose unregister is read before its register is registered afterwards and keeps its slot |
| `scheduler_fall_back` | a job "fires exactly once per distinct local minute" | only the last fired minute is kept, so a clock set back over two minutes that a job is due in lets it fire twice in each |

Other statements were found to fail in the same models. They are described here
and not kept as runs.

- *Clear and dedupe claims* (`queue/database.go`): with two processes `NoDuplicateKey`
  fails. The mutex is local to a process, and a claim made by another one lands
  between the two deletes.
- *Retries are bounded across restarts*: attempts are compared with the budget only
  after a handler returns a failure, so a job that kills its worker is started
  again without limit. `SettledWithinBudget` is the budget the code keeps.
- *Then runs when all jobs completed*: a cancelled batch whose remaining jobs were
  skipped runs Then. `CallbackThen` "runs once when every job in the batch completes
  without failure" (`batch_callback.go:32`): with `ReadsFail = TRUE` a settlement of
  Dispatch that finishes the batch and cannot read it back dispatches Then.
- *`Finished` means "all jobs processed"* (`batch.go:200`): with `PushCommits = TRUE`
  the slot of a push that erred after taking effect is released while its job will
  still run.
- *Finally "always fires last"* (`batch_callback.go:39`): the callbacks are
  independent jobs, taken in any order. *"Exactly-once delivery"*
  (`batch_callback.go:184`): one callback job is delivered at least once.
- *Redis*: a job that a worker's shutdown aborts is not put back (`AbortedJobKept`),
  and a delayed entry that another worker's pop uncovered can be popped early
  (`RedisDelayHonoured`).
- *Outbox partitions "strictly in id order"*: a later row of a partition is handed
  out while an earlier one waits for its retry (`PartitionInOrder`).
- *File lock*: the cache's Flush and sweep remove the record of a lock that is held;
  `HolderIsRecorded` is stated up to them.
- *Transactions*: rollback callbacks also run when Rollback failed or when a flush
  panicked after the commit (`RollbackConfirmed`), and a callback registered by a running callback is dropped
  although `TxCallbacks` says it is drained in the same pass.
- *WebSocket groups*: a JoinGroup between the phases of the client's LeaveAllGroups
  leaves the two tables apart (`crossed`).
- *Sessions*: a request's own flash, read in memory while its Save is in flight, is
  written by that Save; a regenerated visitor session takes the loaded flash along.
  `FlashOnce` is therefore about what one record delivers. A record revoked between a
  sign-in's rotation and its response is re-created from the older one;
  `RevocationHolds` is about ids a client was given. The cache store evicts a
  record when only the read of its generation token failed, and a live record stays
  out of its user's index after an unlink whose reads, or whose last index write,
  failed; `LiveListed` excepts such ids until they are written again. It holds for one
  failed index write (also with three failed reads) and not for two: a Put whose index
  write fails does not take its record back once a slide has rewritten it, and when
  that slide's index write fails as well the record stays live and unlisted.
- *Commit listeners*: after a panic in finalize's own dispatch and an error handler
  that writes nothing, listeners stay unattempted (`context.go:242` says that a
  response nothing commits still runs them).
- *Event pool*: "a request goroutine may still dispatch after the pool stopped (a
  handler running past the server's shutdown deadline, or a Timeout handler goroutine
  reporting a late panic)" (`router/event_dispatcher.go:200`), and "Shutdown past its
  deadline" drops such events (`router/velocity_router.go:385`). Neither happens:
  `stopWork` waits for the requests and their late goroutines without a bound before
  it stops a pool, whatever Shutdown's own deadline does, and `StopWaitsForLate`
  checks that a pool refuses nothing. What remains of the two statements is a pool
  that is replaced while a request runs, which is not modelled.
- *Event batching*: events recorded while a caller's flush overlaps Stop's final
  one, or put back by a caller's failing flush after the loop ended, stay
  undelivered after Stop. `BatchDrains` is about a dispatcher nobody stops.

## 4. Proofs

Each theorem holds for every value of the constants that meets the assumptions of
its module: `ConstantsAssumption` (clock skew within `MaxSkew`; markers such as
`NoKey` outside their sets), `WorkerAssumption`, `BatchAssumption` (a finite,
non-empty set of jobs), `RelayAssumption`, `MemoryAssumption`, `DrainAssumption`,
`FileLockAssumption`, `SchedulesAssumption`, `BatchingAssumption`,
`CallsAssumption` and `ListenersAssumption`. They fix types, keep markers apart and
ask for positive durations and budgets. TLC evaluates each one in a passing run.
The bounds are constants like the others, so no theorem depends on their size.

| Module | Theorem | Checked by TLC as |
|---|---|---|
| `DatabaseQueueProofs` | `TypeCorrect`, `OneDriverNoDuplicateKey`, `AttemptsSurvive` | |
| | `FenceAdmitsOneHolder` | `FenceAdmitsOne` |
| | `JobsEndOnce` | `JobsAccounted` |
| | `LeaseHolds` | `LeaseProtects` |
| `QueueWorkerProofs` | `WTypeCorrect`, `OverlapOnlyAfterExpiry` | |
| | `PoolUsesDriver` | `UsesDriver` |
| | `EffectsRunOnce` | `SideEffectsOnce` |
| | `BudgetKept` | `SettledWithinBudget` |
| `BatchProofs` | `TypeCorrect`, `DoneCorrect`, `CountersStayWithinTotal`, `FinishedStaysFinal`, `ThenOnlyWithoutFailure` | |
| | `TerminalFiresOnce` | `TerminalOnce` |
| `OutboxRelayProofs` | `NoOutboxRowLost` | `OutboxNeverLoses` |
| `OutboxLeaseProofs` | `LeaseKeepsHandlersApart` | `OneHandlerPerLease` |
| `MemoryQueueProofs` | `MemoryKeepsContract` | `MemKeepsContract` |
| `PrimitiveProofs` | `IdleOnce`, `ResultIsDrained` | |
| | `DrainImplementsRun` | `KeepsLifecycle` |
| | `FileLockExclusion` | `HolderIsRecorded` |
| | `TimersDeliverTheirOwn` | `OwnDeliveryOnly` |
| | `EventsStayInOrder` | `BatchInOrder` |
| `RequestProofs` | `ReportedSavesStay` | `SavesKept` |
| | `RevocationIsFinal` | `RevokedNotServed` |
| | `ListenersRunFirst` | `ListenersFirst` |

### The arguments

- **SQL driver.** `TokensIssued`: no token is ahead of its row's attempts, and no two
  of one row carry the same attempts, so the fence admits one. `LeaseState`: a token is
  spent, cleared, past its lease, or still fences its row.
  `OneDriverNoDuplicateKey` assumes one driver; without that it is false (section 3).
- **Worker pool.** Each pump step is a driver step or leaves the driver alone, which
  is the refinement and brings in the driver's invariants. `EffectsInv`: a
  pump on its way to a row's side effects is the only one, the row is settled and
  they have not run; and effects never outnumber settlements. `OverlapInv`: two unsettled
  pumps of a row hold different tokens, one of them expired. `BudgetInv`: a spent
  token with the budget used up means that the row is gone.
- **Batch.** `DoneInv` follows from the clamped update and the completion CAS alone.
  `OwnerInv`: at most one settlement sees the batch finish, and it alone fires.
  `ThenInv` needs that a failing Dispatch can read the batch (`~ReadsFail`).
- **Outbox.** `RowsKnown`: whatever a relay holds of a row was committed, a worker past
  its callback knows the answer, and attempts never run ahead of failures.
  `HeldOnce`: a row that is not exposed is read back, batched or dispatched in one
  place of one relay, under a running lease.
- **Memory driver.** `MemInv`: a job is in one of list, heap and leases, once, and the
  key of a live job is recorded. Each step is then a step of `JobQueue` or none.
- **Primitives.** `DrainInv` orders the closed bit, the idle channel, the result and a
  panic in its place.
  `Guarded`: whoever is between the steps of a file lock's call holds the stripe, and
  truncates or writes only a record nobody holds. `TimersInv`: no two timers share a generation, and none is ahead of the
  counter. `BatchingInv`: only the goroutine that marked the flush in progress holds
  events.
- **Session records.** `SavesKept` is inductive once the frames of the calls are well
  formed: a swap writes what it read with one change added. `Current`: what a call is
  about to serve was issued no earlier than the token the call began under.
- **Commit listeners.** `Once`: a listener is pending, running or tried, once.
  `LastFirst`: those tried came in the reverse of the order they were registered in.
  `LastTried` says how the last attempt ended, `Closing` that a request about to end
  left none out (with the exception of section 3), `Budgeted` that the passes of
  the loop suffice.

### Only model-checked

- All liveness: `QueuesDrain`, `StopsComplete`, `RelaySettles`, `RequestAnswered`,
  `BatchDrains`, `BatchFinishes`, `CallbacksArrive`. The prover has no rules for
  fairness.
- `CertainlyProcessed` counts jobs by cardinality over several sets at once, and the
  part of `RelaySettles` on partitions rests on a `CHOOSE`; neither was proved.
- `LiveListed` was not proved: it relates the steps of every unlink under way to the
  index they will leave behind.
- The scheduler, the WebSocket server, the file cache, migrations, transactions, the
  redis driver, `ServerSession` and `RequestTimeout` have no theorems yet.
- What a recursive function computes for every input needs induction over data,
  which the installed provers cannot do.

## 5. Plan

Theorems for `RequestTimeout` (`AnsweredOnce`), `TxScope` (`DeferredFollowsOutcome`)
and the scheduler's locks; then modules for build-once groups and for the order of
application shutdown.

## 6. Not modelled

`PROJECT.json` lists these with reasons: payload encoding, cryptography, validation,
rendering, query building and the other pure code; mail, HTTP, storage and gRPC
adapters; the console and code generation; throttling and rate limits; build-once
groups, asynchronous goroutines and application bootstrap; test helpers. The mapped
definitions stand for 11,380 of about 149,780 lines, 7.6% of the implementation. Most
of the rest holds no state that goroutines or processes share.

## 7. Running

    tlc -workers 2 -config Services.cfg MCServices
    tlapm DatabaseQueueProofs.tla

A run takes between half a minute and three minutes with two workers. The proofs take about
half an hour in all from nothing.
