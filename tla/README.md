# gfire in TLA+

gfire is a background-job server: clients submit jobs over REST, worker
goroutines run them as subprocesses, and a storage backend (memory, PostgreSQL
or Redis) keeps them. This directory holds TLA+ modules of its engine and of the
three backends, TLC configurations, and TLAPS proofs.

## 1. Inventory

| Component | State | Operations | Hard behaviour |
| --- | --- | --- | --- |
| Engine workers (`internal/engine`) | per worker: ticket, `attempt`, `jobCtx`; per node: `active`, `cancels`, `runCtx` | `workerLoop`, `processTicket`, heartbeat, `finalizeSuccess/Failure`, `fireContinuations`, `CancelJob`, `Start`, `Stop` | a run is 4 to 8 storage calls, anything can happen between two of them; contexts that end under a call |
| Scheduler, coordinator, cleanup loops | orphan list of a tick | promote due jobs, requeue orphans, erase expired jobs | act on jobs that workers hold; orphan list is stale when used |
| Recurring manager | cron entries per node, callbacks | `loadAll`, `reload`, `fireFunc`, stop | a tick starts on all nodes; lock with TTL; crash with the lock |
| Memory backend | maps and queues under one mutex | 34 methods | queues, maps and states are separate and must agree |
| PostgreSQL backend | rows | transactions, some with row locks | check-then-write transactions, refused contexts, lost acknowledgements |
| Redis backend | lists, sorted sets, hashes | sequences of commands, scripts and pipelines | what a command read, or popped, is carried by the caller until the next command; a crash or a done context in between |
| Idempotency keys | key to job ID | `EnqueueIdempotent` | look-up and insert are apart on PostgreSQL and Redis; requests with one key race |
| Server registry | heartbeat per server | `RegisterServer`, `Heartbeat`, `staleServerSweep`, `UnregisterServer` | a sweep acts on a verdict that a restart has overtaken |
| REST API | none of its own | enqueue, batch, schedule, requeue, cancel, delete, continue, recurring | clients race with workers |
| Handlers, middleware | none | run a subprocess | outcome races with the deadline |
| Config, CLI, metrics, OpenAPI | none | parsing, printing | - |

Correctness, per component: an accepted job is never lost and comes to rest; it
runs once at a time; what has ended stays ended; it fails as often as its retry
setting grants; slots and cancel entries belong to the run they were made for; children
get the output of the run that ended; a tick of a recurring job is fired by one
node, and abandoned locks do not silence it; an idempotency key names one job;
running servers are listed and dead ones leave the list.

`PROJECT.json` lists the components, the hazards with their lines and the
properties that cover them, and the source lines of every definition.

## 2. Modules

| Module | Models |
| --- | --- |
| `JobDomain` | states, conditions, `continuationMatches`, `effectiveRetryMax` |
| `Engine` | the process-local half of the engine, as fragments without storage |
| `MemoryStore` | the memory backend; one step per method, as every method holds the mutex |
| `MemoryEngine` | one process: `Engine` fragments joined with `MemoryStore`, the loops, the REST handlers |
| `JobLifecycle` | abstract: the life of a job, which `MemoryEngine` implements |
| `PgStore` | the PostgreSQL backend; one step per transaction, two for `Requeue` and `DeleteJob` |
| `PgEngine` | several processes on one database, with crashes, stops, faults and deadlines |
| `RedisStore` | the Redis backend; one operator per command, script or pipeline |
| `RedisEngine` | processes on one Redis: `Engine` fragments, and the calls and loops of several commands, with crashes, stops, faults and deadlines |
| `Recurring` | recurring definitions, cron entries, callbacks, locks (PostgreSQL) |
| `Registry` | idempotency keys and the server registry, on all three backends |
| `MCMemoryEngine`, `MCPgEngine`, `MCRedisEngine`, `MCRecurring`, `MCRegistry` | constants for TLC |
| `EngineProofs` | lemmas about the fragments of `Engine`, used on every backend |
| `MemoryEngineProofs`, `MemoryLifecycleProofs` | theorems about `MemoryEngine`; the second module: claims, and the refinement of `JobLifecycle` |
| `PgEngineProofs`, `RedisEngineProofs`, `RecurringProofs`, `RegistryProofs` | theorems about the modules of these names |

**Workers.** A worker is a program counter over `workerLoop` and
`processTicket`, cut at every storage call; local statements belong to the step
of the call next to them. `Engine` defines what the worker does with the answer
(`GotTicket`, `BeginRun`, `Advance`, `Finalized`, ...), and the store what the call
does; an action of `MemoryEngine`, `PgEngine` or `RedisEngine` is their conjunction. The
deferred calls of `processTicket` are `Return`. A `Dequeue` that fails leaves the
worker in its loop (`NoTicket`), unless `runCtx` is done or the error is a
`context.DeadlineExceeded` such as that of a dial that timed out: then the
goroutine returns for good (`LoopEnds`, `DialTimesOut`).

**Retry settings.** `effectiveRetryMax` and the comparison in `finalizeFailure` grant
a job `RetryMax` failures if that is positive, ten if it is 0 or was left out, and
one, that of its first run, if it is negative (`MaxFailures`). The properties and
theorems are about this grant. `SPECIFICATIONS.md:1445` says "0 = no retries, -1 =
infinite"; `pg_retries` shows that the code does otherwise for 0, and for -1 the
properties of `mem_clean` and `pg_single` say the opposite: Dead after one failure.
`JobLifecycle` knows only the number granted (`MaxTries`).

**History.** A job's state history is kept as its last state and its number of
Failed elements, which is all the engine reads. IDs never come back: `Unborn` is
an ID not yet used, `Removed` one whose job was erased. Names, arguments and
output are left out; `result` records whose output is stored.

**Time** is replaced by events: a due time comes (`TickScheduler` picks any due
subset), a progress timestamp passes the orphan cutoff (`Stale`), a deadline
passes, a TTL runs out. `Punctual` states the configuration's intent that
heartbeats (60s) keep well below the cutoff (5m); runs without it let every
timestamp go stale at any moment. A job's retention (hours) may run out while its
queue element waits, but never between two storage calls of the worker that is
finalizing it.

**Differences between backends** that the models keep: memory ignores contexts,
PostgreSQL refuses a transaction for a done context; memory's orphan scan ignores
the state, PostgreSQL's does not; memory's `Dequeue` ignores the state of what it
pops, PostgreSQL's selects `Enqueued` rows; the sweep leaves queue elements
behind in memory and cascades in PostgreSQL. PostgreSQL's `SKIP LOCKED` makes any
eligible row a possible answer of `Dequeue`. Redis keeps the queues as lists beside
the job hashes, indexes jobs by state, and compares states only inside scripts.

**Redis.** Every script, pipeline and popping or writing command is a step of its
own. A method that pops or decides in one command and writes in another is a record
in `open` from the one to the other; reads that only fetch (`EXISTS` before `HSET`
in `HeartbeatJob` and `SetJobResult`, the `EXISTS`, `HGET` and `HGETALL` of `Requeue`, the
`HGETALL` of a promotion) are one step with what they belong to, so an
erasure between two of them is left out; the loops carry what they have
read in `scan`, `orphans` and `promoting`. Everything else may happen in between.
go-redis refuses a command for a done context, but a `BRPOP` that already blocks may
still answer after `runCtx` has ended, and the ID it popped is then in no list. The
history variable `hit` collects the jobs that a mishap took from the very call
that carried them; `NothingLost` says that no other job which exists and has to run
drops out of every list, set and call. Erasing is the other way to lose a job:
the sweep goes by the indexes of Succeeded and Failed jobs, which `Requeue` does not
keep up to date, and `SweepSparesLive` says that it erases nothing that has not
ended but jobs in `hit` and jobs that have been requeued (`requeued`). Both kinds of loss
are denied by documents: `redis_lost` shows the first, section 5 says how to see
the second.

**Registry.** The two halves share no state. Requests with a key go through
look-up, creation and, on Redis, recording; `disturbed` collects the keys whose
requests overlapped or met a mishap, the cases in which Redis may create two
jobs (`redis_key`), against what the documents say. A request stands for the job its answer
names or, if the answer was lost, for the job it created (`Named`): repeating it is
what the key is for. Ages of servers are counted in heartbeat intervals: an interval ends when
all processes have sent their heartbeat (`Tick`), so only dead processes age.
`late` collects processes that started under a sweep holding a verdict on their
predecessor; the registry does not list these again, because a heartbeat without
an entry is refused.

**Faults** (`PgEngine`, `RedisEngine`, `Recurring`, `Registry`): a call fails with
nothing committed, or it was committed and its acknowledgement is lost (`AckLost`,
the last disjunct of `Hit`); a transaction that PostgreSQL aborts is the former; or
a dial times out. A
crashed process leaves its rows, keys and locks behind.

Operators marked *faulty variant* are definitions with a plausible bug. No
specification uses them; putting one in place of the definition it sits before
makes TLC report the property that `PROJECT.json` names for it.

## 3. Runs

| Run | Instance | Result |
| --- | --- | --- |
| `mem_core` | 1 job, 2 workers, any one manual request, all loops, fairness; 0.4M states | `TypeOK`, `Tracked`, `NoDanglingKeys`, `ActiveAccurate`, `CancelHitsItsJob` hold; `EventuallySettled` holds unless `Dequeue` has thrown (see `mem_unlock`) |
| `mem_clean` | 2 jobs with `RetryMax` 0 and -1 on 2 queues of limit 1, 2 workers, a cancel or a continuation, stop; 1.4M states | `ExactlyOneClaim`, `ParentResultIsOwn`, refinement of `JobLifecycle` hold: dead after exactly ten failures, and after one |
| `mem_unlock` | 2 jobs, 1 worker, delete and sweep | `NoFatalUnlock` violated: `Dequeue` of an erased job unlocks twice |
| `pg_core` | 1 job, 2 nodes with a worker each, all transactions interleaved; 0.8M states | `TypeOK`, `Findable`, `FailedOwned` hold without crashes |
| `pg_single` | 2 jobs with `RetryMax` 2 and -1, 2 workers of a node, 2 mishaps, 1 request, fairness; 0.2M states | `SingleRunner`, `RetryBudget`, `IrreversibleStable` hold; `EventuallySettled` holds unless dials have taken all workers of the process |
| `pg_retries` | 1 job, `RetryMax` 0; no mishap | `RetryMaxAsDocumented` violated: the job fails a second time |
| `recurring` | 2 nodes, 1 definition, 3 requests, 2 mishaps, fairness; 0.2M states | `LeaseExclusive`, `TickServed`, `LastRunIsReal`, `Reconciled`, `KeepsFiring` hold |
| `redis_core` | 1 job, 2 workers of a node, all loops, one request or mishap, steps as in section 2; 1.1M states | `TypeOK`, `NothingLost`, `SweepSparesLive` hold |
| `redis_lost` | 1 job, one graceful stop | `NeverLost` violated: the ID was popped and Processing is not recorded yet |
| `registry` | 4 requests on 2 keys, or 3 processes, 3 mishaps, each backend; 75k states | `OneJobPerKey`, `SameKeySameJob`, `RunningIsListed`, and under fairness `DeadServersLeave`, hold up to the stated exceptions |
| `redis_key` | Redis; overlapping requests, no mishap | `KeyNamesOneJob` violated: two jobs for one key |
| `recurring_dup` | 2 nodes, no mishap | `OncePerTick` violated: the lock is free again before the second node asks |

**Bounds.** `MaxApiOps` bounds requests that interfere with jobs, `MaxMishaps`
faults, `MaxQueue` the length of a queue (two elements of one job are the
interesting case), `AttemptCap` the failures that are counted; the engine only
compares that count with `RetryMax`, which is 2 in most runs, so that both retry and
exhaustion occur. `mem_clean` has a job with 0, which takes the default of ten, and one
with -1, and counts up to 11, one more than may happen; the code that reads `RetryMax`
is the same on every backend. `pg_single` has 2 and -1: ten failures with two mishaps
and fairness would exceed what TLC does in minutes, and `BudgetKept` covers every value. Two workers suffice for the races over a job, since a
race is between the one that holds it and the one that gets it next. Jobs
interact through slots, children and batches, hence two of them in `mem_clean` and
`pg_single`. `BatchSize` 2 lets one promotion move both. Where continuations
occur on PostgreSQL, clients leave an ID for the child. Definitions of recurring
jobs do not interact, so one is enough. On Redis `MaxEvents` counts requests and
mishaps together: one of them already meets every point between two commands, and
two workers and the loops interleave without any. Its run is punctual; late
heartbeats only add the double runs that `pg_core` has. `Registry` runs its halves
apart (`half` in `MCRegistry`), which loses no interleaving; three requests race
for one key while the fourth uses another, and `UnregisterAge` is 1 instead of 18
intervals, the least value that tells an old heartbeat from a dead server. Ticks of one definition do not overlap:
they are further apart than the 10s that a callback may take.

**Deadlock** is checked in the runs on PostgreSQL, Redis and `Recurring`. It is not
checked where the system may really rest: a memory engine that was stopped, or
taken down by `Dequeue`, does not come back with its data, clients of `registry`
stop sending, and in `pg_single` dials may take both workers of a process that goes
on running.

**Fairness** is weak fairness of each goroutine and ticker (Go schedules runnable
goroutines, and a handler ends at its deadline, by SIGKILL if need be), of the
passing of time (`Stale`, `Expire`) and of the restart of dead processes, which
a service manager provides. The sweep of `Registry` has strong fairness: it
competes with the heartbeat in one `select`, which picks at random among the tickers
that are ready. Crashes, faults and requests are not fair, and are bounded, so
liveness says what happens once they are over. `pg_single` counts a job
left in Failed as at rest, which a crash between two transactions can do (section 5,
`FailedOwned`). It exempts a process whose workers have all ended (section 5, `WorkersLast`). Continuations
of a job are fired while its worker lives; a crash may drop them.

## 4. Proofs

Every invariant, action property and refinement that a passing run checks, except
`SweepSparesLive`, is also a theorem, for any finite number of nodes and workers and any jobs, queues,
limits, retry settings (as the code reads them, see section 2), requests and mishaps that the named assumptions of the
modules allow (`EngineAssumption` and its like). These say what kind of set or number a
constant is. Two have content: no effective `RetryMax` exceeds the counting bound
`AttemptCap`, and on Redis no worker has the name of a loop or of the API, since
calls under way are told apart by who makes them.

| Theorem | States | Hypothesis |
| --- | --- | --- |
| `TypeCorrect`, `PgTypeCorrect`, `RedisTypeCorrect`, `RecurringTypeCorrect`, `RegistryTypeCorrect` | `TypeOK` of each module | |
| `NoJobLost`, `NoKeyDangles`, `CancelIsAimed`, `NoSlotLeaks` (memory) | `Tracked`, `NoDanglingKeys`, `CancelHitsItsJob`, `ActiveAccurate` | |
| `MutexHeld` (memory) | `NoFatalUnlock` | no sweep |
| `OneClaim`, `OwnResult`, `FinalIsFinal`, `LifecycleImplemented` (memory) | `ExactlyOneClaim`, `ParentResultIsOwn`, `IrreversibleStable`, `ImplementsLifecycle` | `Unattended` |
| `JobsStayFindable`, `EngineTablesRight` (PostgreSQL) | `Findable`; `ActiveAccurate` and `CancelHitsItsJob` | |
| `FailedHasOwner` (PostgreSQL) | `FailedOwned` | `Calm` |
| `NoDoubleRun`, `BudgetKept`, `NoResurrection` (PostgreSQL) | `SingleRunner`, `RetryBudget`, `IrreversibleStable` | `SingleNode` |
| `RedisNothingLost`, `RedisTablesRight` (Redis) | `NothingLost`; `ActiveAccurate` and `CancelHitsItsJob` | |
| `LeasesExclude`, `LastRunsAreReal`, `TicksServed` | `LeaseExclusive`, `LastRunIsReal`, `TickServed` | |
| `KeysNameOneJob`, `RepeatsAgree`, `RunningStaysListed` | `OneJobPerKey`, `SameKeySameJob`, `RunningIsListed` | |

**The hypotheses** are the deployments in which the code keeps these promises, and
are those of the run that checks them:

- `Unattended`: no manual requeue or delete, no orphan recovery, no sweep. Memory's
  queues carry no state check, so each of these can leave a second element behind;
  orphan recovery alone suffices (section 5). Schedules, cancels,
  continuations and stops are allowed.
- No sweep (`MutexHeld`): `mem_unlock` is the same property with the sweep.
- `Calm`: no crash, fault, deadline or cancel. One crash is enough to break it (section 5). Several nodes,
  late heartbeats, overlapping runs, requeues and deletes are allowed.
- `SingleNode`: one node, punctual heartbeats, no manual requeue or delete. With two
  coordinators, a job listed by both can be requeued from under its new worker, and
  `Requeue` checks the state in a transaction before the one that writes. Crashes,
  restarts, faults, lost acknowledgements, deadlines and cancels are allowed, in any
  number.

**Argument.** An action is a fragment of the engine beside a fragment of the store,
so there is one decomposition lemma per backend (`NextDecomposes` and its parts),
`EngineProofs` settles the engine half for all three, and the store half is proved
by operation.

- *Engine* (`EngineInv`). A worker past `Dequeue` holds a job (`HoldsJob`).
  `CancelHitsItsJob` is inductive because `Return` removes the entry of its own job
  whoever registered it; `ActiveAccurate` follows by adding or removing one element
  of a finite set; a crash or a restart resets both sides.
- *Memory* (`IInv`). `Tracked` needs that pushing, popping and promoting lose no other
  element of a queue. `MutexHeld` adds that queued IDs exist.
- *Claims* (`ClaimInv`). A queue holds each of its Enqueued jobs exactly once and the
  scheduled map exactly the Scheduled ones (`QueuesExact`, `KeysExact`); a started job
  has exactly one owner (`OneOwner`, `HasOwner`), whose program counter, state and
  attempt agree (`OwnerKnows`); stored output belongs to the owner (`ResultsOwn`).
  The refinement reads off, case by case, the abstract step of the one job that
  moves; that a job dies after exactly its budget of failures rests on
  `attempt[w] = failures[j]` and on `BudgetBounds`, which relates `effectiveRetryMax` to
  the grant for 0 and for negative values.
- *PostgreSQL* (`BaseInv`, `CalmInv`, `SoloInv`). `Findable` is inductive with the
  types. For `FailedOwned` every context has to be live, so that the call that
  moves a Failed job on is never refused. On one node an owner is alone because a
  stale Processing job is nobody's (`StaleIsFree`), everything the coordinator has
  listed or checked is stale (`ListedAbandoned`), and only Scheduled jobs have a
  scheduled row (`RowsExact`), so that neither recovery nor promotion touches a job
  that is held or has ended.
- *Redis* (`RedisInv`). A half-done call is what its caller waits for, and a worker
  has one at a time (`CallsSound`); otherwise a crash of one call could drop the claim
  of another. `NothingLost` then splits: a command on one job spares the lists,
  sets and carriers of all others (`Bystander`); one that writes the state also puts
  the job where the next reader looks (`WrittenSafe`); the rest are steps of the
  carrier itself, or a mishap that enters `hit`.
- *Recurring* (`LeaseInv`, `ServedBound`, `TickAlive`). A node has at most one callback per
  definition (`OwnersUnique`), so a `Release` that finds its own owner in the row
  cannot remove the lock of another; a call about to write `last_run` has enqueued
  (`UpdatesFollow`). Jobs enqueued for a tick plus callbacks that may still enqueue
  are at most the nodes (`ServedBound`). While a tick is unspoilt and unserved, a
  callback is about to enqueue, or the lock can be had and a callback has still to
  ask (`TickAlive`).
- *Registry* (`IInv`). One invariant per backend for the keys: on memory the map names
  the job of every key that has one, and no request fails; on PostgreSQL the unique
  index holds and an answer names a row of its key, past or present, as a request
  with a lost answer does; on Redis an undisturbed key has at most one request under
  way, no failed one, no entry before its SET and no job before its Enqueue. A listed running process is at most one interval old, and sweeps hold
  verdicts on running processes only if these are late.

`ServedBound`, `TickAlive`, `CallsSound` and `HoldsJob` were also checked by TLC on the
instances of `recurring` and `redis_core`.

Only model-checked: liveness, which needs fairness and `ENABLED` and is outside the
prover's reach (`EventuallySettled` on memory and PostgreSQL, `Reconciled`,
`KeepsFiring`, `DeadServersLeave`); and `SweepSparesLive`, which needs that a job
never requeued has one claim at a time on Redis, an invariant of the size of
`ClaimInv` that is not written yet. The violation runs are counterexamples and have
nothing to prove.

## 5. Not modelled, and the plan

Not modelled: configuration, CLI, metrics, OpenAPI (no state); counters (no
operation of the engine reads them); which job a recurring definition names;
recurring definitions and locks on memory and Redis; continuations on Redis; the
retries that go-redis makes on its own; PostgreSQL row locks (an aborted
transaction is a fault). `RetryDelay` is a choice of due time: its arithmetic
(one minute shifted left, 64 bits, capped) is beyond TLC's integers.

**Documents that the code does not follow.** The five violation runs are findings of
`PROJECT.json`. The models show six more disagreements, of the kind that TLC exhibits in
seconds; each property is stated in the module, and fails when it takes the place of
the properties of the named cfg with the constants changed as given:

| Property (cfg to start from) | Constants | What happens | What is said |
| --- | --- | --- | --- |
| `IrreversibleStable` of `MemoryEngine` (`mem_core`) | `Ops = {"orphan"}`, `MaxApiOps = 0` | the orphan scan ignores the state; a job waiting for its retry is queued a second time, and runs after it has ended | `storage.go:48`: "jobs in Processing state" |
| `FailedOwned` (`pg_single`) | `Ops = {"crash"}`, `MaxMishaps = 1`, `Spec` | a crash between Processing -> Failed and `ScheduleRetry` leaves a Failed job that nothing retries | `ROADMAP.md:58`: "never lost" |
| `CancelledIsRecorded` (`pg_single`) | `Ops = {"cancel"}`, `MaxMishaps = 0` | Cancelled is written with the context that the cancel ended; the write is refused and orphan recovery runs the job again | `SPECIFICATIONS.md:1439`: "terminal state is Cancelled" |
| `RequeueResets` (`pg_core`) | `Ops = {"requeue"}` | the failures of a requeued job stay counted | `SPECIFICATIONS.md:1430`: "Resets the retry counter" |
| `WorkersLast` (`pg_single`) | `Ops = {"dial"}`, `MaxMishaps = 1` | a dial that times out ends a worker goroutine for good | `SPECIFICATIONS.md:1024`: "continue" after every error of `Dequeue` |
| `OnlyTerminalErased` (`redis_core`) | `Ops = {"cleanup"}`, `MaxEvents = 0` | a recovered job waits in its queue and in the index of Failed jobs, and is erased by age | `storage.go:153`: "terminal states" |

A seventh is a single line of the code: `SPECIFICATIONS.md:510` and `:1430` let a client
requeue a Dead job, and `Requeue` of every backend refuses irreversible states, Dead
among them, as the `Check` of the models does.

Weaknesses that no document we know of denies are listed as hazards with a note, among
them: on Redis a deleted job is still run when its ID is popped, and the orphan scan may
run a job twice; a server that restarts under a sweep that has judged its predecessor is not
listed again (`late`); on all backends a worker that returns late removes the cancel entry
of the run that follows on the same node.

Next, in this order:

1. Proofs: the refinement of `JobLifecycle` by a single PostgreSQL node, whose
   crashes and recoveries the abstract specification does not have yet; what a
   manual requeue can and cannot break on several nodes; `SweepSparesLive`.
2. PostgreSQL: non-JSON output (`NonJson`), the check-then-write race of
   `Requeue` and `DeleteJob` against a finishing worker, two coordinators.
3. Recurring: contents of definitions, edits that `reload` does not see, and the
   read-modify-write of `UpdateRecurringLastRun` on Redis.
4. Continuations on Redis.
