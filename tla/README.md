# ComfyUI-NG in TLA+

This directory holds TLA+ modules for the core of ComfyUI-NG (`src/comfyng`): jobs,
workers, plugins, events, storage and the graph compiler, with TLC configurations that
model-check them on small instances and TLAPS proofs of what matters most. Paths below are relative to the repository.

## 1. The system

ComfyUI-NG accepts image-generation jobs over HTTP, schedules them on one asyncio
event loop, executes them in worker processes and keeps their results.

| Component | State it keeps | Operations | What is hard about it |
|---|---|---|---|
| Job records and repository (`core/jobs.py`) | status, attempt, revision per job | create, transition (compare-and-set), retry | stale callers, one attempt budget shared by automatic and manual retries |
| Scheduler (`scheduler/scheduler.py`) | queue, `_active`, `_tokens`, `_reservations`, `_wake`, `_control_lock` | submit, cancel, retry, stop; the `run` loop; one `_execute` task per attempt | every await is a preemption point; three dictionaries keyed by job, not by attempt |
| Scheduler queues (`scheduler/queues.py`, `priority.py`) | items, per-queue counts | enqueue, pop_next, remove | bounds, ageing, ties |
| Resource broker (`resources/broker.py`) | reservations, pressure | admit, release | fallback plans, balance of used and released |
| Node-result cache (`core/cache.py`) | entries, order, bytes | get, put, delete, evict_until | LRU against TTL against byte budget |
| Event bus and journal (`events/`) | journal, subscriptions | publish, replay, subscribe, close | delivery order, bounded queues, closing |
| Worker supervisor and worker (`workers/`, `runtime/entrypoint.py`) | generation, pending request, restart window | start, execute, cancel, heartbeat, recover, stop | late answers, restarts, the circuit breaker |
| Shared memory (`workers/shared_memory.py`) | leases, owners | create, attach, release, cleanup | a peer that dies |
| Plugin lifecycle (`plugins/lifecycle.py`, `worker.py`) | records, trust groups and their workers | load, execute, unload, sweep, pressure relief | locks per record, manager and group, a failure that touches the peers of a plugin |
| Plugin installer (`plugins/installer.py`, `environments.py`) | staging, installed trees, registry | install with rollback | partial failure, several installers, one lock for part of the work |
| Content store, collector, artifacts (`storage/`) | blobs, references, locks | put, add/remove reference, collect, publish | collector against writers, crashes |
| Model registry (`models/`) | known model files | scan, resolve | identity of files that change |
| Workflow graph (`graph/`) | none (pure) | validate, expand subgraphs, order, fuse, derive regions, plan | passes that rely on each other's results |
| Database, config, API, CLI, frontend, flux plugin | - | - | I/O and presentation |

How they interact: the API's lifespan (`api/app.py:211-254`) creates one broker,
journal, bus, repository, cache, dispatcher and scheduler and starts
`scheduler.run()`. Request handlers call `submit`, `cancel` and `retry`. The
scheduler writes every status to the repository first and then publishes
`job.<status>` on the bus. It asks the cache and the broker before it launches an
attempt and the dispatcher to execute it. The API wires in-memory stores;
`SqliteJobRepository` and `SqliteEventJournal` implement the same protocols and are
exercised with the same scheduler in `tests/integration/test_job_lifecycle.py`.

`PROJECT.json` lists every component with its status, and the hazards at their lines.

## 2. The modules

| Module | What it is |
|---|---|
| `JobLifecycle` | the contract of a job repository: the abstract specification |
| `ResourceBroker` | admission to the machine's budgets, fallback plans, pressure |
| `SchedulerQueues` | the waiting jobs, their limits and the choice of the next |
| `Admission` | records, queues and broker put together as the scheduler does |
| `MCAdmission` | the jobs of its instance |
| `AdmissionProofs` | theorems of `JobLifecycle` and `Admission`, with the sums and counts they need |
| `Scheduler` | the scheduler with clients, run loop and executors |
| `SchedulerProofs` | ownership of jobs, implementation of `JobLifecycle`; tokens, tasks, reservations, the two bounds, cancellation |
| `WorkerSupervisor` | one supervised worker: requests, monitor, restarts, stop, and its processes |
| `CommandService` | what a supervisor promises of the commands requested of it: the abstract specification |
| `SupervisorProofs` | its theorems |
| `ContentStore` | publication of artifacts in the content-addressed store against the collector |
| `ArtifactRegistry` | what the artifact store promises: the abstract specification |
| `MCContentStore` | the blobs of its instances |
| `StoreProofs` | its theorems |
| `EventLog` | what an event bus promises: the abstract specification |
| `EventBus` | the bus over either journal, its subscriptions and their consumers |
| `MCEventBus` | the filters of its instance |
| `EventBusProofs` | the bus implements the log; what a subscription receives: once, in order, what is missing counted |
| `PluginLifecycle` | the plugin runtime manager over its supervised workers |
| `MCPluginLifecycle` | the plugins of its instances |
| `PluginProofs` | its theorems: locks, records at rest, permissions within a group |
| `PluginInstaller` | concurrent installations with their rollback |
| `PluginCatalogue` | what an installer promises of the plugins listed: the abstract specification |
| `MCPluginInstaller` | the bundles of its instance |
| `InstallerProofs` | its theorems |
| `WorkflowGraph` | graphs, orders, layers, closures, the critical path |
| `Subgraphs` | inlining the calls of subgraphs |
| `GraphValidation` | the diagnostics of a graph |
| `GraphCompiler` | the passes from a graph to an execution plan |
| `GraphMeaning` | what a workflow computes, and the properties stated with it |
| `GraphProofs` | theorems of `GraphCompiler`: the control regions of a plan form a forest, in which loops are nested |
| `MCGraph` | the workflows of its instance |

### JobLifecycle

`status` and `attempt` are the two columns of a `JobRecord` its protocol depends on.
`Create`, `Transition` and `Retry` are `create`, `_transition_record` and
`_retry_record`; a refused call (`JobTransitionConflict`, `InvalidJobTransition`,
`DuplicateJob`) changes nothing and is a stutter. Left out: timestamps, payloads,
result and error columns, `revision` (it counts the writes).

### ResourceBroker, SchedulerQueues, Admission

`leases` is `_reservations`, reduced to the fallback action by which each estimate was selected; `_used` and
`available` are recomputed from it as in the code. `levels` is the monitor's memory; of the list of pressure events
only the level last told of each kind is kept. A GPU that is not there is a kind with limit 0: an estimate that names
a GPU asks for some of its memory, so it fits neither now nor ever, as `GPU_UNAVAILABLE` says. `items` lists the queue in the order of the
sequence numbers. `Merit` is the part of the score that does not change; the rate and the times are integers.

`Admission` is the scheduler with in-memory stores, where each handler runs without interruption up to the dispatcher or
the delay of a retry. It uses the actions of `JobLifecycle` for the records, so the promises of that module are checked on
its callers. `Scheduler` complements it: every await, but any choice of the next job, and slots for a broker.
A deferral makes `_launch_next` give up until something ends or the poll interval is over, with the deferred job, if still the best, first
again: jobs behind it wait although they might fit. `JobsEnd` says that this is never for ever.

### Scheduler

*Actors.* The run loop, the executor task of each attempt `<<job, attempt>>`, and
clients. Everything runs on one event loop, so a stretch of code without a suspending
await is atomic. `Suspends` says which stores are installed: FALSE (in-memory stores,
whose coroutines never suspend) or TRUE (SQLite stores, which suspend at every call).
Between two actions of one uninterrupted stretch `turn` names the actor that has the
event loop; everybody else waits (`Runs`). `Continue`, `Suspend` and `CallStore` are
the three ways an action ends.

*State.* `queue` is `SchedulerQueues` reduced to its members; `active` stands for
`_active` and `_tokens`, which are always changed together, and holds the attempt
registered for a job; `reserved` is `_reservations`; `granted` is what the broker counts
as used; `cancelled` the attempts whose token is set; `journal` the published lifecycle
events per job; `wake` and `stopping` the event and the flag. `pc` is the program counter
of an executor, `loop` that of `run`/`run_until_idle`, `lock` that of whoever holds
`_control_lock` (nobody ever holds it twice), `subject` the holder's job.

*Actions.* One per stretch between two awaits that matter. Client calls: `Submit`,
`ManualRetry`, `Cancel`, `Stop` begin a call, `Enqueue`, `Announce`, `CancelQueued`,
`CancelInFlight` finish it. Loop: `LoopTop` .. `LoopWake` are `run` and
`run_until_idle`; `LaunchPop` .. `Start` and `ServeFromCache` are `_launch_next`.
Executor: `ExecRun` .. `ExecRequeued` are `_execute` from the RUNNING transition to the
finally block. Names ending a line in pc such as "completed" mean that the terminal
status is written and the event and the finally block are still ahead.

*Abstractions.* Which item `pop_next` chooses is left open (any queued one), so every
result holds for every priority rule. The broker is a number of slots plus the set of
jobs it rejects. The cache has one key, and a present entry may still miss. The
dispatcher may return, raise a retryable or a final error, or observe the token; it
always ends. `job.created`, `job.retrying`, `job.deferred` and the cache events are not
recorded in `journal`. A write and the publication after it are one action where the
lock or the program order lets nobody tell the difference. Not modelled: `run_once`,
failures of a store, the cancellation of the `run()` task at shutdown, restarts.

### WorkerSupervisor

*Threads.* One per request, the monitor, and one that calls `stop()`. `record.condition`
is held around every access to the record, so each stretch under it, up to a wait, is one
action; what happens outside it (spawning, terminating, joining) is a step of its own, and
that is where the races are. `monitor` first stands for `start()`, which spawns the
first process before the thread exists.

*State.* The variables up to `restarts` are the fields of `_WorkerRecord`; `force` remembers for
which generation a restart was asked, though the code keeps only a reason: the property
`RestartHitsItsTarget` is about that difference. Processes are numbered by generation;
`inbox` and `outbox` are the two directions of a pipe, `closed` the transports closed on the
supervisor's side. `call` is where a request stands or how it ended.

*Abstractions.* Time: every timeout (startup, request, cancellation grace, watchdog,
joins) may expire whenever it is looked at. Heartbeats say only that the worker lives, "busy" and
"ready" are one status, UNLOAD is answered like EXECUTE, a command is requested once, and
the restart window may forget any number of old restarts. `stop()` is called once. A closed
process object raises when it is looked at, which ends the monitor or `stop()` as in the code.

*Abstract specification.* `CommandService` knows commands only: what has become of each, in whichever worker, and what its caller has been
told. A command is ordered once, started once and only while no other is worked on, and ends with one report or with its worker (`Lose`). A caller is told of a report that was
made, of a crash only when nothing of its command is left, and of a refusal only before anything is sent, so that in both cases the request may be
repeated; a timeout and a stop promise nothing. `Work` finds a command in the pipe of the worker it was sent to, in its execution thread, or in a report
under way, recorded or returned. `CommandsAreHonoured` is the refinement: generations, pipes, restarts and the circuit are invisible to it.

### ContentStore

*Processes.* Publishers, each one `publish()` of one artifact version (its reference, row and manifest carry its
name), and collectors. All sections under digest locks are one action once the locks are held, except that of the collector:
it lists the references in `CollectLock` and has read them in `CollectDecide`, while others remove references
under other locks. `Acquire` takes the locks of `acquire_many` one at a time.

*State.* `blobs`, `refs`, `manifests` are the files under the store's root, `rows` the committed rows, `version`
the version column (also of a row not committed yet), `database` the connection inside BEGIN IMMEDIATE, `locks` the
flocks. Files survive a `Crash`; locks and the open transaction do not.

*Abstractions.* Every blob may be old enough for the collector or not. All publications have the same owner and name,
so that versions compete. Copying, hashing and fsync belong to the write they serve; a write fails
before it has an effect. This leaves out a sync of the directory that fails after `os.link` (`imports.py:77-83`): the manifest is then there, and
`publish()` does not know that it has to remove it. An artifact has one blob; `Content` allows several, as references of models have.

*Promise.* `ArtifactRegistry` has only versions, what can be read and what was said: an artifact appears in one step, complete and under the next version,
or not at all. `Registry` maps the store to it: the version of an artifact is that of its committed row, 0 before; it can be read (`Readable`) if its row,
reference, manifest and blobs are there, as `get` and `open` need them; the outcome is pending until `publish()` returns or dies.
A publication whose commit is interrupted is the exception there too: it may appear unannounced (`PublishSilently`), and what it published may be taken away before it ends (`Lose`).

### EventBus and EventLog

*State.* `durable` says which journal is installed and is chosen at the start. An event is its position in `journal`; its
job and type are its kind. `appended` is the event a publisher has committed and not delivered. A subscription is
its `status`, `queue`, `dropped` counter and the `consumer` that calls `get()`; `received` and `since` are history.

*Actions.* With the journal in memory nothing suspends between `append` and the deliveries: `PublishInMemory` is one
step. With SQLite the coroutine goes on after the connection is closed: `AppendDurably`, then `DeliverAppended`, or
`Abandon` when the publisher is cancelled there. `Restart` opens the database in a new process.

`EventLog` says what is promised of both: a log that only grows, and for each event at most one moment, at which every open
reader that wants it is offered it. Buffering, dropping and receiving are invisible to it. `BusImplementsLog` is the refinement: what was offered
to a reader is the sum of what it received, holds and has counted as dropped.

Left out: payloads, the numbers within a job's stream, `limit` of a replay, events without a job over SQLite (refused).

### PluginLifecycle

*Processes.* Coroutines that call `load`, `execute` or `unload` (the idle sweep and the relief of memory pressure are calls to `unload`, preloading
calls to `load`), and one supervised worker per trust group. A lock is the queue of its holder and of those that
wait; `ready` is the ready queue of the event loop, first in, first out, which fixes who runs when several can. `call` is where a
coroutine stands, in an `await` of a lock or of a request.

*State.* `state` and `assigned` are the records, `groups` the manager's dictionary. Group objects have an identity of their own
(`heap`): a coroutine may hold one that is no longer listed, and a new worker answers under the old one's identifier.
`worker`, `loaded` and `served` are what the supervisor and the worker process know. A plugin in `Faulty` may raise; a worker in
`Crashing` may die at any time.

Left out: idle times (a plugin may be idle long enough or not), a coroutine cancelled while it holds a record. `Objects` bounds the group objects in use at once; an instance with as many as calls and groups
together, and one more, never runs out of them.

### PluginInstaller

*Processes.* One thread per `install()`. `pc` is its `InstallPhase`, or where the rollback stands. `staged` is what its staging directory holds,
`folders` and `tree` what is under `installed/`: per place whose bundle, and its parts. What a phase reads in a bundle is whether it refuses it (`Flaws`); the observer,
which is called after a phase has succeeded, may raise too (`Observed`). `MakeFolder` and `Move` are the `mkdir` and `os.replace` of the section
under the publication lock: a rollback, which does not take that lock, comes between them. Directories of `Stuck` cannot all be removed, which
`ignore_errors` hides. `Restart` kills all threads and tries again with the registry empty.

*Promise.* `PluginCatalogue` has what is found where the registry lists a plugin, and what `install()` has said. An installation lists its plugin whole, where none is listed, may withdraw it before
it fails, and keeps it once it has succeeded. `Catalogue` maps a place to its registration with what is under its path; what is installed but not listed is not seen.

### The graph modules

`GraphCompiler` has one action per pass of `GraphCompiler.compile`: `CheckStructure`, `ExpandSubgraphs`, `ValidateExpanded`, `PlanSteps`, `DeriveRegions`,
`BuildPlan`. Each is an operator on graphs; a pass that finds errors ends the compilation with them. `BuildPlan` checks the contracts in the
`__post_init__` of the plan and its parts, which raise `ValueError`. Identifiers are sequences, so that inlining a call
prefixes them as the code does with a separator. A cache key is the content that is hashed.

Left out: parsing of documents, the messages and places of diagnostics, estimated durations. Of a node's metadata only the kind
of a call and the bound of a loop are kept (`meta`).

*Faulty variants.* Definitions whose comment starts with "Fault:" or "Mutant:" are not part of the
specification: each is an action or operator with a plausible bug, used to see that the
property it is paired with in `PROJECT.json` notices.

## 3. What is checked

| Run | Instance | Shows |
|---|---|---|
| `admission` | 4 jobs (one fits only offloaded, one only with a smaller batch, one as it is or quantized, one has no estimate), 2 attempts, 2 places, queue of 3 with a limit of 2 on one name, 2 instants, fair loop and executors | budgets are kept and pressure told (`LoadIsBoundedAndTold`); records, queue, counters and leases agree (`BooksBalance`); order of service; no deferral for ever; records increase and outcomes are final (`RecordsAdvance`) |
| `memory` | 4 jobs, one too large for the machine, 2 attempts, queue of 2, 2 executors, 1 reservation, in-memory stores | limits, registrations and reservations, cancellation and journal order as the API wires the scheduler |
| `durable_retry` | 3 jobs, one too large for the machine and one cancelled or retried by hand, SQLite stores, queue of 2, 2 executors, 2 reservations, fair scheduling | while reservations leak, jobs are deferred and automatic retries refused: no job lost or queued twice, repository contract; no lost wake-up, every job ends, stop ends the loop (`LoopDoesItsWork`) |
| `supervisor` | 2 commands, restart limit 1, 2 generations, fair threads | one process, no forgotten call or work, the circuit; the supervisor implements the service of commands; requests return, crashes are handled |
| `publication` | 3 publications of 2 blobs, one run of a collector, fair processes | nothing referenced is deleted, rows complete, versions dense, failures undone, no deadlock of digest locks; the store implements `ArtifactRegistry` (`PublicationIsAtomic`) |
| `graph` | every wiring of up to five nodes of ten kinds that the instance lists: chains, joins, loops, switches, calls of subgraphs three deep, two workflows of loops that share a switch or end before one, and graphs with one fault each | compilation ends in a plan or in diagnostics; expansion keeps the meaning of every output; equal cache keys mean equal computations; the plan can be run; the critical path is longest; loops are nested |
| `plugins` | 2 coroutines, 3 plugins of one trust group, one with other permissions and another that raises, a worker that may die | no record is left half done; what is usable has a worker; plugins of a group object have its permissions; calls return |
| `events` | 2 publishers, 2 subscribers with different filters, buffers of 2, 3 events, either journal | events are received once; a client that resumes loses nothing but what is counted; the bus implements the log |
| `installer` | 4 installations of 3 versions of a package, of which the observer fails two and one is refused, one version that cannot be removed, one restart, fair threads | the installer implements `PluginCatalogue` (`InstallationIsAtomic`); a failure leaves nothing; installations end |
| `retry_leak`, `stop_race`, `stranded_plugin` | 1-2 jobs with SQLite stores; 1 command and 2 generations; 2 coroutines | violations, see below |

Some properties are conjunctions of named ones, each of which is stated and commented where it is defined.

*Bounds.* Two attempts show everything a retry does (an attempt before, one after, the
budget spent). Three jobs are needed for a queue of two that fills up during a backoff (`RetryRefused`), two executors
for one executor's finally block to meet another launch. In `memory` one reservation makes the jobs that need
resources compete. In `durable_retry` two let the next attempt be launched while the failed one still has its reservation, which then leaks, and
with the leak the two jobs compete for what is left; each of these states (a refused retry, two live attempts of a job, a leak, a deferral
because of it) is reached there. Its third job is one the broker rejects: it fills the queue as any other would, and leaves no executor to
interleave. Every counter is bounded by the program itself (attempts, queue, executors).

Reservations are of one size in `Scheduler`. A launch that makes one leak has found another one free, so leaks never take all of them
and every job ends in `durable_retry`. Not so in the code for a job that needs the whole machine: it waits for ever for a leaked reservation.

Two instants are enough for `admission`: merits differ by one or two, so that one unit of age makes a tie or turns an order.

For a worker, two commands show a late answer meeting the next request; two generations with a limit of one restart show a restart, and
the open circuit after the next crash. The invariants were also checked with three generations, where the restart window
lets go of the first restart, and are proved for any number.

In the store, two publications of the same two blobs can deadlock if they lock in different orders; a third one, of one
of them, lets a reference appear or disappear while the collector reads them.

Two publishers are what it takes to overtake, two subscribers to receive different events, and three events fill a buffer of two; with four events all properties hold as well
(14.5 million states). The bus is proved to implement the log for all of them.

In `plugins`, two coroutines over three plugins show every pair of calls, and one more plugin that neither of them is about, on which a failing group acts.
Two of three plugins may share a worker and the third may not.

In `installer`, two installations of one version compete, and two other versions of the package share its folder; the observer fails one installation after it was
moved and another after it was registered.

The workflows of `graph` are enumerated, not sampled: the shapes on which passes depend on each other (a loop in a branch, a switch in a body, a chain that leaves a loop, an
input wired through two calls) fit in five nodes, two collects before a switch in six.

*Deadlock* is not checked: publications, collections, installations and compilations end; the loop stops after `stop()` and the jobs end; a stopped
worker and answered requests leave nothing to do; the journal is full; plugins may be left alone.

*Fairness.* Strong fairness for the steps of a client call that has begun, of the loop
and of the executors (together, as each has finitely many steps): the event loop's ready queue and the waiters of `asyncio.Lock`
are served first in, first out, so an actor that is ready again and again gets its turn.
Strong and not weak, because another actor's uninterrupted stretch disables a ready step
for a moment. No fairness for `Submit`, `ManualRetry`, `Cancel` and `Stop`. Executors
include the dispatcher, so `JobsEnd` assumes that `dispatch()` ends and that a slot exists.

In `Admission` the loop and each executor are weakly fair: nothing disables a step of theirs but the other's progress.

In `WorkerSupervisor` the monitor, the requests and a begun `stop()` are weakly fair: they
are threads, and every wait of theirs has a timeout. The worker process has no
fairness: it may hang.

In `ContentStore` publishers and started collections are weakly fair: a process that does not crash goes on. A wait for the database may end in a
rollback, as its busy timeout sees to, so weak fairness is enough there. A wait for the lock of a digest has no timeout, and a rollback does not count as
going on (`AwaitsDigest`): that `PublicationsEnd` holds is due to the order in which locks are taken, not to failures.

In `PluginLifecycle` each call is strongly fair: the event loop serves its ready queue in order, locks are handed over in order and a request to a worker ends by
its timeout; a step of one call may be disabled for a moment by another that is ready before it. In `PluginInstaller` each
thread is weakly fair; the lock is taken once by each, so nobody is overtaken for ever.

*Findings of the scheduler* (all with SQLite stores; with in-memory stores the same properties hold in
run `memory`):

- `retry_leak`: a manual retry launched before the finally block of the failed attempt overwrites its reservation, which is never released.
- Without a run of its own: with SQLite stores `CancelledNeverCompletes` and `CancelledNeverRequeued` are violated. A cancellation accepted after the BEFORE_SAVE
  checkpoint (`scheduler.py:379`) is answered with a COMPLETED job, and one accepted while the executor waits for the control lock after its backoff (444) is forgotten.

*Findings of the supervisor:*

- `stop_race`: a `stop()` that overlaps a restart, or the first spawn, returns while the process
  being spawned goes on, becomes ready and serves requests. If it comes just after the old transport
  was closed it raises `ValueError` instead of returning.
- Without a run: `RestartHitsItsTarget` is violated. A restart asked for by a request that timed out while its worker was already being
  replaced is carried out on the healthy successor (`supervisor.py:501`).

*Findings of the plugin manager and the installer:*

- `stranded_plugin`: the cleanup of a `load()` that failed stops the worker of its group after another plugin has loaded into it. That plugin stays READY, `load()` returns at once and every
  `execute()` is refused.
- Without a run: `SharedWorkersMatch` is violated. `_acquire_group()` compares permissions before `load()` waits for the group's lock (`lifecycle.py:181`, `218`). While one `load()` waits, another of
  the group fails and its cleanup stops the worker and drops the group; a plugin with other permissions then starts a worker of the same name. Nothing tells the waiting `load()`, whose
  request goes to the new worker: its plugin becomes READY in a process with the permissions of the other, although "plugins sharing [a group] require identical permissions"
  (`lifecycle.py:182`). It takes four plugins and three calls (TLC finds it in seconds with `delta` added to the plugins of `stranded_plugin.cfg`, "none" for its permissions, all
  persistent and only loaded, and five objects), and was found when the property, which holds of two calls and three plugins, resisted its proof. What does hold, and is proved, is
  `GroupMembersMatch`: the books of every group object are right, also of those that nobody lists any more.
- Without a run, since no line promises otherwise: a worker whose start is abandoned can stay behind, so that the next start of its group finds that it "already exists"; two requests can reach one worker
  at once through a group object that is no longer listed, and one is refused as busy. The branches `lifecycle.py:210-213` and `298-300` are
  unreachable as long as `NothingIsHalfDone` holds.
- `SoundBundlesInstall` is violated: the rollback of one version removes the package's folder (`installer.py:371`) that another version's publication has just made, and the `os.replace` of a sound
  bundle fails. `InstalledIsRegistered` is violated: a plugin moved but not registered when the process ends, or any installed plugin with the
  registry in memory, is "already installed" for ever after. Besides, the digest that is registered is that of the bundle before `lockfile` and `.venv` were
  added, a `lockfile` of the bundle is overwritten, and a crash leaves its staging directory.

*Finding of the store*, without a run: `ContentStore!FailureLeavesNothing` is violated. A task cancelled while the database thread commits removes the manifest and the
reference of a row that is committed (`artifacts.py:147`).

*Observations about the bus:* `ResumeLosesNothing` is stated for the journal in memory. Over SQLite a subscriber may receive event 2 before event 1, and one that resumes after 2 never sees 1. A
`get()` that waits when its subscription is closed never returns.

*Observations about the compiler:*

- `LoopBodiesTerminate`, which quotes the diagnostic `malformed_loop_region` (`compiler.py:1133`), is violated: a loop of which one path ends at a collect may feed other nodes that lead to none.
- `BodiesAreOwned` is violated: `test_nested_condition_region_is_owned_by_enclosing_loop` (`tests/unit/graph/test_compiler.py:762`) shows the rule on one loop and one switch, and it is
  no rule. Parents are chosen by the size of their regions: a switch that takes what two collects of a loop return holds the body's nodes in its branches, but not the loop, which feeds
  both; when its region is smaller than the loop's, a switch of the body gets it for a parent (`SwitchAfter` in `MCGraph`). Of two loops whose bodies share a switch, one owns it
  (`SharedBody`). `BodiesAreNested` says what remains true: the loop must be outermost, and every control node it feeds must lead to one of its collects.
- A branch of a switch contains steps that other nodes also use (1170); a step's cacheability does not look at its ancestors' determinism (1456); the keys of
  fused steps contain node identifiers (998-1005), so equal chains do not share results.
- Two literals bound to one inner port of a subgraph: the later one wins (`subgraphs.py:157-168`). A call wired to itself is reported as `missing_source_node` (204).

## 4. What is proved

All theorems hold for every finite set of jobs and every value of the bounds.

`SchedulerProofs` needs no assumption beyond the types of the constants. The invariants
are not inductive alone: that an executor's compare-and-set finds the status it expects
rests on who owns the record. `IInv` adds that the lock is held for a job, what its
holder still knows of the record it read (`HolderKnowsStatus`), that a working executor
owns the current attempt and its status (`WorkerOwnsRecord`), that only one executor is
inside the lock (`ExecutorHoldsLock`), and that a queued item stands for a QUEUED record
nobody has in hand (`QueueHoldsQueued`). From it follow `TypeCorrect`, `NoJobIsEverLost`,
`EveryItemIsQueuedOnce`, both together as `JobsHaveTheirPlace`, and, step by step, `SchedulerImplementsRepository`: every write
is a legal call of `JobLifecycle`, so no conflict can surface in the scheduler.

The second half of the module assumes `Exclusion` (with SQLite stores nobody retries by hand),
without which run `retry_leak` refutes the conclusions. `RInv` says that an executor past
its terminal write still finds that write in the record (`ClosingIsCurrent`), which is
what makes the finally block's pop-by-job-identifier hit its own entries. `ConcurrencyBound`
adds a place kept free for the launch in progress, `QueueNeverOverflows` one kept for
whoever will enqueue without asking (`Pending`); the latter needs no `Exclusion`. `AttemptsAccountedFor` and `LimitsAlwaysHold` put them
together as the runs check them.
`CancellationsHold` assumes in-memory stores, as the property does. `CInv` says that an actor in the middle of a stretch holds the event loop
(`StretchIsUninterrupted`), so that `cancel()` sets the token of an attempt that has a checkpoint ahead (`CancelInTime`), that a cancelled attempt passes none
(`CancelledIsStopped`), and that its record is not yet finished, queued or in the hands of the cache (`CancelledHasNoResult`).
`JournalsAreMonotone`, under `Exclusion`, covers SQLite stores as well, over which run `memory` does not check the property. The record goes forward first and the journal
follows: no job is published beyond its record, and the last event is strictly behind it as long as one is still due (`JournalFollows`); a job that a full queue
refused is due none but the one of its failure (`RefusedIsFailed`). Every step tells nothing, writes a record or publishes from one.

`AdmissionProofs` proves the three properties of the contract (`JobLifecycle`) directly, and those of `Admission` from the
assumptions its modules make on their constants: any jobs, plans, budgets, queues, merits and rates.
- What is reserved is a fold over the leases. `SumGrows` says that one more summand adds itself to the sum whatever the order in which the fold
takes its elements; it goes by induction on the number of summands, in the form `NatInductionOnSets`, which follows from the least-element principle.
- `BrokerInv`: no sampled budget is exceeded and the level told is that of the sum. `AdmittedFits` and `RejectedFitsNever` read `Admit` as a whole: the plan chosen
fits what is left, and a refusal for ever means that no plan but a smaller batch fits the idle machine (`RejectionsAreFinal`).
- `QueuesInv`: one item a job, and the counters are the numbers of items. A deferral or a requeue takes an item from its place and puts one at the end; the order of the others stays.
`NextIsFirst` shows that `pop_next` always finds an item: its key orders the items totally.
- `SystemInv` joins them: the queued jobs are the QUEUED records, the leases are those of the active jobs that do not wait for a retry, and no item was queued in the future
(`BooksStayBalanced`, `LoadStaysBoundedAndTold`). Run `admission` is an instance of it.
- `ServiceIsOrdered` rests on the score being linear in time at one rate for all (`ScoreIsLinear`), so that the clock moves no two jobs past each other.

`SupervisorProofs` needs only the types of the constants, so its theorems hold for any number
of restarts. `ProcessesAreLimited` is `OneProcess` and `CircuitIsFinal`. The first says nothing of who is alive; `IInv` adds that only the last process spawned can be,
and that none is when the monitor is about to spawn (`OnlyTheLastLives`), which in turn needs that the transport
the monitor works on is the last one (`MonitorKnowsTransport`). `CallsStayAnswerable` adds that nobody has
heard of a command before its request (`NewIsUnheard`) and that a pending command has no outcome yet.
`AbandonedWorkIsAlwaysKilled` looks at a command from the moment its order is in the pipe: it is ordered, worked on and answered at most once and by the worker it was sent to
(`WorkedOnce`), work has no outcome in its caller's hands (`WorkHasNoOutcome`), and whoever gives up waiting leaves a restart behind before anybody else is sent to the
worker (`WorkIsAwaited`).

`SupervisorImplementsService` shows that each step of the supervisor, a worker or a caller is a step of `CommandService` or stutters (`ServiceStep`). Its invariant `ServeInv` adds that
only the last process spawned has anything in its pipe, and none when its worker has been given up (`PastIsSilent`), that a command has one reply at most there (`RepliedOnce`), and that a
command whose outcome is a report or a crash is neither worked on nor under way any more (`OverIsOver`). The last holds for a crash because `_recover` fails the pending commands only once the old
process and its pipe are gone. `WorkOf` draws from these that a command is in one place at a time, so that `Work` does not depend on a choice; two commands are never worked on together because only the last process lives.

`StoreProofs`: `ReferencesResolve` rests on what a collector knows under its lock (`CollectorSeesReferences`): every
reference to its digest is on its list, since a new one needs the lock. `RowsAreSound` is `RowsAreComplete` and `VersionsAreDense`. The first and `FailuresAreUndone` follow from
how far each publication has come (`Progress`); both except the publications whose commit may be interrupted. `VersionsStayDense` rests on the one writer of the database: whoever has
read the highest version and not yet inserted is the writer, and so still holds the next one (`WriterHasNext`).

`StoreImplementsRegistry` shows that each step of the store is a step of `ArtifactRegistry` or stutters (`RegistryStep`). Only a commit adds a row: it makes an artifact readable since the reference and the manifest
are there by then (`Standing`) and the blobs of a reference are never collected (`ReadableHasReference`, from `ReferencesResolve`); and its version is the next
one since the writer holds it (`WriterHasNext`). No failure takes a row's manifest or reference away, unless its commit was interrupted (`Progress`).

`EventBusProofs`: each step of the bus is a step of `EventLog` or stutters (`Refinement`), for any publishers, filters and
buffers. It rests on `IInv`: an appended event is in the journal and owed by one publisher only (`AppendedOnce`), so that offering it removes it from what is pending,
and an absent subscription has nothing (`AbsentHasNothing`), so that it opens with nothing offered. That a full buffer loses one event and counts one makes
the sum of received, buffered and dropped grow by exactly one with each delivery.

In the same module, what is said of a subscription is said of its received and its buffered events together (`Seen`), to which a delivery
adds one at the end and from which a full buffer takes one (`OneMore`). `EventsAreReceivedOnce`, over either journal, needs that an event still owed
has been seen by nobody (`PendingIsUnseen`). `ResumingIsSafe` needs the journal in memory, where nothing is ever appended and undelivered
(`MemoryDeliversAtOnce`), so that each event is newer than all that was seen (`InOrder`) and an open subscription has seen the last event due to it
(`MissingIsCounted`).

`PluginProofs`: for any plugins, groups, permissions, policies, calls and failures, and any bound on group objects. What a call holds and waits for is a function of where it stands
(`Wants`, `Awaits`), and the queues of all locks hold exactly the calls that want them (`LocksBalance`); who is resumed has its lock (`ReadyHaveLocks`). All steps do one of few things to
the queues: stay, join one, leave at most two, or leave and join (`RelockKeeps`, `StayStep`, `EnterStep`, `SwitchStep`, `EndStep`). From the queues follows that one call at a time is past
the queue of a record (`OwnRecord`), and so that a record in a passing state is in the hands of the call that has its lock (`RecordFits`): this is what `NothingIsLeftHalfDone`
needs. The one step that writes records without their locks, `GroupFailed`, only makes records FAILED; `UnloadedAreEvicted` says that an unloading call may find its record so.
`UsableAlwaysHaveWorkers` needs `UsableAreAssigned`, which includes BUSY records, and `GroupMembersAlwaysMatch` needs that who waits to load into a group object, listed or not, has its
permissions (`LoadersMatch`).

`InstallerProofs`: for any installations, flaws and observers. That what the registry lists is installed (`RegisteredIsInstalled`) is not inductive: `IInv` adds what each phase has staged (`StagedSoFar`), that the place of who is about to move is free
(`MovesToFreePlace`), that a published installation still has its place until it removes it (`HolderHasPlace`, `PlaceHasHolder`), and that a registration is held
by one that will withdraw it before it removes anything (`RecordHasHolder`). `FailureLeavesNothing` and `OneInstallation`
follow from the same invariant. `InstallerImplementsCatalogue` shows that each step is one of `PluginCatalogue` or stutters: a move goes to a place that nobody has, and a removal is of a bundle
that nobody has registered any more, so that neither is seen (`ListedIsWhole`); whoever registers finds nobody registered; and who is about to return is still registered (`ReturnsRegistered`).

`GraphProofs`: for any catalogue, registries and workflows. `PassInv` collects what each pass leaves to the next ones: what is laid out has no validation error, a control step says which, the regions
are those derived from the drafts, and a plan has passed its contracts. For `LoopsAreNested`, edges of a valid graph join its nodes (`ValidEdges`), so that what feeds a node is what
leads to it (`FeedingIsMutual`), and each control node is the only member of its step (`ControlRunsItself`). A parent of a control node in the loop's body is the loop; or a loop whose body holds
the node too, and then in the body since the loop is outermost; or a node that the first one leads to, and then in the body since the loop ends what it controls (`ParentsStayInBody`).
A member of a region has a parent, since of finitely many regions one is the smallest (`MembersHaveParents`), and depths fall along parents, so the way up cannot stay in the body (`LoopIsAbove`).
`RegionsAreAForest` says that parents, each chosen by itself, fit together: two regions around a control node differ in size or in place, so it has one parent
(`OneParent`), and the shallowest region on the way up has none, hence is in no other (`RootIsAbove`). TLC agrees on the workflows of run `graph`.

Only model-checked: the other properties of the graph modules, which speak of functions defined by recursion over a graph (layers, chains, path lengths, keys, meanings), of which no value can be
established for every graph without induction over it; and the
liveness properties, which are out of the prover's reach. What is refuted by a run is not stated as a theorem, and the two assumptions above that exclude it (`Exclusion`, in-memory stores) are in the
theorems' statements.

## 5. Not modelled

- Hardware probing and thread budgets, database connection and migrations (but for transactions, where a component uses them), configuration, API, command line, node generator, frontend, flux plugin: I/O and
  presentation, or code without state of its own.
- Plugin manifests, compatibility and the model registry: parsing and comparison of documents and files.
- Shared memory objects: one dictionary under one lock. A worker opens a segment by name (`reverse_shared`, `runtime/entrypoint.py:167`) for the length of
  one command and outside the store's leases.
- The node-result cache as such: `Scheduler` has a cache whose entries may be missed, which covers every eviction.
- Of modelled components: imports of external files, links and damaged blobs in the store; heartbeats and the STOPPING event as messages, a second `stop()` and the table of records of the supervisor; stores that fail
  and the cancellation of `run()` in the scheduler; an interrupt in the installer, whose rollback is for `Exception` only.

Next steps would be imports on top of `ContentStore`.
