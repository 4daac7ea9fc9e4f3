# A TLA+ model of the simulation service

This directory specifies the run of a simulation: from the request that starts
it and the input it names, through the JetStream queue and the workers, to the
solved result, its stored series, the answers read from them and its deletion.
It models the code of `src/api/simulation/`, `src/worker/`, `src/simulation/`
and what they use of `src/core/` and `src/shared/`. Line numbers below are lines
of those files; `PROJECT.json` maps every definition to its lines.

## The system

| Part | State it keeps | Operations | Talks to |
|---|---|---|---|
| Run requests (`api/simulation/service.py`) | an open request: its sessions, the uploaded file, the row it read | start from a file, start from CRM readings, delete | local database, storage, queue, audit log |
| JetStream queue (`core/queue/helper.py`, external) | one message per simulation, its delivery count, the deliveries not yet acked | publish, deliver to one worker of the queue group, ack, nak, in-progress, redeliver after `ack_wait`, stop at `max_deliver` | API, workers |
| Dispatcher (`worker/dispatcher.py`) | one task per delivery | handle a message along the failure matrix of the module's docstring | queue, persistence, storage, CRM database, solver pool |
| Persistence (`worker/persistence.py`) | an open transaction with the lock of one row | `save_success`, `save_failure` | local database, storage, audit log |
| Worker process (`worker/main.py`) | running or shutting down, the in-flight tasks, the solver pool | start, signal, drain, close | dispatcher, queue |
| Solver pool and temp files (`worker/main.py`, `worker/timeseries.py`) | solver processes, series files in the temp directory | submit, break, rebuild, write, remove, sweep at start | dispatcher |
| Stores (`core/database`, `core/storage`, `core/audit_log`) | rows and result trees, objects, audit entries | insert, conditional update, delete; put, get, delete; append | everyone above |
| Solver (`simulation/`) | the cascade of a key's iterations so far | iterate, roll up, refuse | solver process |
| Loading and checks (`shared/data_loading.py`, `shared/problem_size.py`, `shared/crm_*.py`, `api/simulation/upload_shape.py`) | what a request or a worker has read so far | parse, count, pre-flight, fetch, pivot | CRM database |
| Reading (`api/simulation/routes.py`, `timeseries_reader.py`, `mappers.py`) | an open stream and what a reader keeps of it | list, get, stream or sample the series | local database, storage |
| Around them (`core/`: security, middleware, realtime, health, logging, metrics, tracing, i18n, config) | none that a run depends on | filter requests, emit hints, observe | - |

What is hard in it:

- **Interleaving.** Every `await` of a task or a request lets any other task,
  worker or request act. A lost NATS connection makes the broker redeliver a
  message whose first task still works; both may reach `save_success`.
- **Failure between two stores.** A run ends in three stores (row and totals,
  series object, audit log) and in the queue; each step can fail or be applied
  with its reply lost, and a worker can die between any two.
- **Delivery counts.** Three limits (`_MAX_SOLVER_CRASH_DELIVERIES`,
  `_MAX_DELIVERIES`, `max_deliver`) bound retries of different kinds.
- **Shutdown.** The subscription goes on receiving while the tasks drain.
- **Deletes.** A user may delete a simulation at any moment of its run, and
  while its series are being read.
- **Processes under a process.** A solver process that dies is noticed later, by
  a thread, and takes every solve of its pool with it; the pool is replaced by
  the next submit, slots and temporary files have other owners.
- **Two builds at once.** Every worker writes the durable consumer's settings
  when it starts, with one request to read them and another to write them.
- **The same question asked twice.** The size limit, the gaps and the
  duplicates of an input are judged by the request and again by the worker, by
  other code, on data that changes in between.
- **Streams cut anywhere.** The series are read in chunks that may end inside a
  `NaN`, an escape or a name.

What makes each part correct:

- requests: a message is published only for a row that exists with its input;
  what a failed request leaves behind is failed or cleaned up;
- queue use: nothing unfinished is acked; nothing is delivered beside a live task;
- dispatcher: every published run ends, and its file is deleted then and not before;
- persistence: a run ends once, is reported once, and totals and series match;
- worker process: it takes no more runs than it can solve, every solve ends
  and frees what it held, a crash is blamed on the pool that crashed, and a
  shutdown leaves the rest to a redelivery;
- consumer settings: they are one build's, none of an earlier build is left once
  a worker serves, and the consumer's bindings survive every rewrite;
- input: the request's verdict is the worker's, an upload is refused early when
  it is too large and not when it fits, and no reading is lost or doubled on the
  way;
- solver: energy is neither made nor lost along the cascade, and rates are shares;
- reader: an answer is the stored document, whole or sampled, however it was cut.

`PROJECT.json` lists the hazards one by one with the line where each bites and
the property that covers it, or why none does yet.

## Modules

Four groups, each with its own composition. They meet at the values one hands
to the next: a run's input, a solve's outcome, a stored object. A later group
keeps of an earlier one only what it needs of it.

```
Faults     Broker                            Faults
   |         |                                  |
   |       Store                          ConsumerConfig   SolverPool
   |      /     \                                    \     /
  Dispatcher    Api          RunLifecycle          WorkerProcess
        \       /            (abstract)               /      \
     SimulationService  --implements-->   MCWorkerProcess   WorkerProcessProofs
        /           \
   MCService     SimulationServiceProofs      Upload       SeriesDocument
                      |                       |               |
                RunOutcomeProofs           Readings     TimeseriesReader   Solve
                                              |                     \     /
                                           RunInput                RunResult
                                          /       \                /       \
                                  MCRunInput  RunInputProofs  MCRunResult  RunResultProofs
                                                                                |
                                                                           StreamProofs
```

`SumLemmas`, about sums over finite sets, is extended by `RunInputProofs` and
`RunResultProofs`; `FoldLemmas`, about folds over sequences, is instantiated by
`StreamProofs` for each of its four folds.

### The run (`SimulationService`)

- **`Faults`** counts the faults a run injects. A step that can fail has one
  disjunct per way of failing, guarded by `Fails(kind)`. The kinds are listed
  there. A kind is a thing that happens to the program (a statement that
  raises, a reply that is lost, a process that dies), never an assumption
  about what the program does next.
- **`Broker`** is the work queue as the code configures it: one message per
  simulation with its delivery count. `Deliverable` holds `max_deliver` and
  `max_ack_pending`. An ack of any delivery settles the message. The delay of a
  nak is left out: a returned message may come back at any time.
- **`Store`** holds the rows (status, error, totals and the lock of an open
  transaction), the objects (uploaded file, series) and the committed audit
  entries. Results are named by the delivery that computed them: two deliveries
  of one simulation may compute different results, as the key and the CRM
  readings are read again each time.
- **`Dispatcher`** has one action per stretch of code between two awaits of
  `_handle_message`, `_process`, `save_success` and `save_failure`. `phase[d]` is
  the await the task of delivery `d` is at:

  | phases | code |
  |---|---|
  | `read_row`, `read_key`, `load`, `queued`, `solve` | `_process`, steps 1 to 5 |
  | `claim`, `upload`, `commit`, `report_success` | `save_success`: conditional UPDATE, upload inside the transaction, commit, audit entry |
  | `stale_upload` | the same upload, after the connection with the lock was dropped |
  | `fail`, `report_failure` | `save_failure` called from `_process` |
  | `unhandled`, `report_unhandled` | `save_failure` called from the catch-all of `_handle_message` |
  | `ack`, `ack_release`, `release`, `nak` | the answer, and the delete of the file after it |
  | `done`, `dead` | the task returned, or ended with its process or by cancellation |

  Besides the tasks it has the `ack_wait` clock (`Lapse`: no in-progress ack
  reaches the broker), the solver pool breaking under all its solves, the loss
  and return of the NATS connection, and the shutdown sequence: `Shutdown` takes
  the snapshot `_drain_inflight` waits for, `Close` cancels what is left of it,
  drains the subscription and shuts the pool down, `Exit` cancels the rest.
- **`Api`** has one action per stretch between two awaits of `start_simulation`,
  `start_simulation_from_crm`, `_mark_failed_to_queue` and `delete_simulation`.
  `staged` is the set of audit entries waiting on a request's own CRM session.
- **`RunLifecycle`** is the abstract specification: a run is accepted with its
  input, waits, ends once, and what is shown of it stays until it is removed.
- **`SimulationService`** composes them: `Next` is a step of the workers and the
  broker, or a step of the API, or rest once nothing is left to do. It states the
  properties, the refinement mapping to `RunLifecycle` and the inductive
  invariant.
- **`MCService`** is what TLC runs. The proofs stack up in
  **`SimulationServiceProofs`** (types and the inductive invariant) and
  **`RunOutcomeProofs`** (how a run ends, the refinement, and who works on what).

### The worker process (`WorkerProcess`)

- **`ConsumerConfig`** is `subscribe_durable` and `ensure_consumer_config`, one
  action per request to the broker (read, update, subscribe), for every worker;
  `seen[w]` is the configuration a worker read, perhaps outdated when it writes.
  A configuration is the settings builds declare and the `bindings` (deliver
  subject, queue group and filter) they do not: an update writes back the whole
  configuration that was read with the drifted settings replaced, so that a
  fresh one in its place would lose the bindings. Any of the requests may raise,
  a write or a creation also after it was applied (`RequestRaises`).
- **`SolverPool`** is `_SolverPool` over `ProcessPoolExecutor`: a pool has a
  number, a process of it dies (`dying`), the executor's thread notices it later
  (`broken`) and fails every call it holds, and `submit` replaces a broken pool.
  It also holds what the solver process does (solve, create the series file,
  write it, return) and the files themselves, which exist from their creation on:
  a process killed while it writes leaves a part of one.
- **`WorkerProcess`** is `main()` from the sweep of `/tmp`, the connection
  retries, the pool size computed from CPUs and quota, and the subscription, to
  SIGTERM, drain, close, the end of the event loop and the wait for the solver
  processes; and of a task the part between the semaphore and the removal of the
  series file. It may be killed anywhere; `/tmp` survives. Jobs are numbered in
  the order they arrive, which is the order of the semaphore's waiters
  (`FirstInLine`). **`WorkerProcessProofs`** holds the proofs about it and about
  `ConsumerConfig`.

What a task does to its run is the subject of `Dispatcher`; the pool there is a
set of calls that all fail together, here it is what makes them do so.

### The input (`RunInput`)

- **`Upload`** is a file as the API counts it without parsing it
  (`upload_shape.py`) and as the worker parses it (`data_loading.py`): a file is
  what the two can tell apart. Both know its columns, those with unusable cells
  and its rows. Of a CSV the count sees line feeds: `joined` rows are parted from
  the next by a bare carriage return, which only pandas takes for the end of a
  line, and `filler` line feeds end no row (blank lines, quoted fields). Of a
  workbook it sees the dimension record, which may be short, long or missing. So
  the count may be off on either side (`MayCountLow`, `MayCountHigh`).
  `TooLarge` is the limit both apply.
- **`Readings`** is the CRM's table of readings, how often each one is there,
  and every query on it: the two of the summary, the fetch, the periods' local
  days; the verdict of the pre-flight (`crm_preflight.evaluate`) and the pivot
  (`build_dataframe`).
- **`RunInput`** has one action per query or check, first in the request, then
  in the worker, with `CrmChanges` (imports, deleted readings or meters, an edited
  or deleted key) between any two. Its last section holds the inductive
  invariants of **`RunInputProofs`**.

### The result (`RunResult`)

- **`Solve`** is `run_simulation`, one action per iteration: FIXED and PRORATA
  shares, what is consumed, the residual and the surplus fed to the next, the
  roll-ups and rates.
- **`SeriesDocument`** is what `write_json` writes, as symbols of the size a
  reader can tell apart, and `_pieces`, which splits a stream at its strings.
- **`TimeseriesReader`** is the two consumers of these pieces:
  `as_api_response` (the whole document, NaN and Infinity as null) and
  `_IterationReader` (each iteration's own series, sampled).
- **`RunResult`** composes them along the life of a result: solve, temporary
  file, object, commit of the rows, and a request that opens the object and reads
  it chunk by chunk while the run may be deleted. The document may also be an
  older one, with values JSON does not have. **`RunResultProofs`** holds the
  proofs about it and about `Solve`, over the lemmas of **`SumLemmas`**;
  **`StreamProofs`** those about `SeriesDocument` and `as_api_response`, over
  **`FoldLemmas`**.

### Abstractions

In the run: the contents of files, keys, readings and results (a result is the
delivery that made it), the text of errors (their kind is kept where paths
differ), waiting times, and the lists of rows a delete cascades to. The
in-process fallback without a pool, which only tests use, is left out, and so
are messages that do not decode: the API publishes none.

In the input: a reading is its meter and its instant, and its energy the
meter's; the key tree, which `start_from_crm` reads twice, is read once, and
iterations of one number come in any order. A column of the pivoted frame is a
pair of positions, one that asks for a name and one that has it. The values of
CRM readings are finite: the refusal of a NaN in them (`dispatcher.py:706`),
a permanent failure like that of a gap, is left out.

Of a failure's timing: an ack or nak while NATS is down is lost, although the
client may still send it after it reconnects; an exception of the key mapper,
which would reach the catch-all as one of the row read does, is left out of
`ReadKey`; the read and the commit of `_mark_failed_to_queue` are one step. A
commit, of the audit log's entry too, may be applied with its reply lost. In
`ConsumerConfig`, `js.subscribe` is one step, though the client looks the
consumer up before it creates one; `backoff`, which helper.py would reconcile,
is declared by no build.

In the result: the solver divides in floating point, the model in whole units,
rounding down, and the instance uses amounts every quotient divides, so that
rounding never decides a property. The checked document has two of the seven
series of an iteration and one of the five of a consumer, and none of the rate
series. A document that ends inside a string is left out, as `write_json` writes
none, and so is a client that disconnects. Arrays' shapes are types here. What
a reader holds is counted in letters kept back and in pieces not yet yielded;
the string buffer of `_pieces`, which grows with a name, is not counted.

## What is checked

The first three runs are parameters of `MCService`; two workers `w1`, `w2`, a file
simulation `f1` and a CRM simulation `c1`, one solver process a worker. Worker
symmetry is used where no liveness is checked. In a run with `OneRequestSpec` one
of the two simulations is refused at once, so that the other is followed alone,
under more faults and deliveries; both are explored, as different initial
states. `MaxDeliver` is `MaxDeliveries + 1`, as in the code; 10 and 11 become 2
and 3, or 3 and 4 where the solver's own limit (3, here 2) must be passed
first.

| Run | Instance | Shows |
|---|---|---|
| `one_run` | one request, deletes, 4 deliveries, 13 kinds of faults, any two | `AckedIsSettled`, `SourceKeptWhilePending`, `TotalsMatchSeries`, `ReportedOnce`, `TerminalIsFinal`, the inductive invariant `InStep`, and `KeepsPromise`: the service implements `RunLifecycle` |
| `two_runs` | both requests, 3 deliveries, unreadable counts, dropped database connections, publishes whose answer is lost, no loss of NATS | `OneRunAtATime`, `NoBacklog`, `SuccessHasSeries`, `OnlyALatePublishRewrites` |
| `every_run_ends` | one request, 3 deliveries, two faults, fair | `EveryRunEnds`, `InputReleased` |
| `worker_process` | two builds of the worker over an older build's consumer or none; 3 deliveries, 4 pools, 2 attempts to connect, 3 CPUs, with a quota of one or none; any two faults of connection, requests about the settings, solver process, storage, signal, kill; fair | `UploadHasItsFile`, `FilesHaveOwners`, `SolvesFitThePool`, `SettingsOfOneBuild`, `Reconciled`, `CrashesAreItsOwn`, `EverySolveEnds`, `ComesUp` |
| `inputs` | 4 meters, 3 instants in two local days, 7 keys (a name twice, a name that needs trimming, a consumer left out of an iteration, no participant at all), at most 6 cells and 9 rows; uploads of up to 4 rows, around the limit, counted right, low, high or not at all; two changes of the CRM | `AcceptedRunsAreSolved`, `EnergyIsKept`, `NothingIsDoubled`, `OversizeStopsEarly`, `FittingUploadsPass` |
| `results` | 2 consumers, 2 timesteps, 53 keys of up to 3 iterations, 6 consumptions, 3 productions; the result of 3 keys and 2 older documents read back in chunks of 1, 3 or 20 symbols, whole or with 1 to 3 points | `EnergyIsAccountedFor`, `NoEnergyFromNowhere`, `RatesAreShares`, `HeadlineAddsUp`, `StreamIsTheDocument`, `SampleIsTheSeries`, `ReadersHoldLittle`, `DetailMatchesSeries`, `NotFoundMeansDeleted` |

Every passing run also checks the type invariant of its module, `two_runs` and
`every_run_ends` excepted, which share that of `one_run`.

Two faults are enough in the runs of `MCService` for the cases that matter: a
fault that makes a second task start beside a first (lost connection, hung
database) and a fault at its worst moment in either. Three deliveries let two
tasks of one simulation run beside each other and a third find what they left.

Faults left out of `one_run`, and why: `publish_lost` (a publish that raises
though the broker has the message) lets `_mark_failed_to_queue` overwrite a
finished row, and `db_drop` (a connection dropped under a row lock) lets an
upload without the lock overwrite the series of another delivery. Both are taken
in `two_runs`; `TerminalIsFinal` and `TotalsMatchSeries` do not hold with them,
and what holds instead is checked there: a row that says SUCCESS always has
series under its key, if not always those of its totals (`SuccessHasSeries`),
and the one step that rewrites a closed row is the failure a request records for
a publish whose answer was lost (`OnlyALatePublishRewrites`). `every_run_ends`
allows as many faults as `MaxDeliveries`: with one more a run whose last
deliveries cannot record their failure stays PENDING, as dispatcher.py:136-139
says. `InputReleased` excepts two ways to leak the file, both in the code: a
worker that dies between its ack and the delete, and the catch-all, which does
not delete it at all. A delete that storage did not carry out is a third, and
its fault, `delete_lost`, is not in this run.

`worker_process` does not check deadlock: a worker to which no message comes
waits. Two solver processes and three deliveries make a solve crash beside an
innocent one, with a third waiting for a slot; two faults are a second crash
while the first is being dealt with, or a kill after it. A quota of one CPU
gives the pool one process, so that everything queues behind one slot. In
`inputs`, the limit of 6 cells is what two participants, three timesteps and one
iteration need, so that one row or one iteration more is too much; two changes
are a change between the two queries of a summary and one between the check and
the worker. In `results`, every read of a stream may return another of the three
sizes: chunks of one symbol cut every token everywhere, and one of 20 holds
several strings; `TooLarge` lies between the written documents of one and of two
iterations.

Preconditions some properties name. `NoEnergyFromNowhere` and the sharing half
of `RatesAreShares` speak of iterations that share out no more than they have:
FIXED and PRORATA consumers of one iteration may exceed it together, and the
solver does not refuse such a key. The sharing rate of a key of several
iterations is in no property, since its denominator is the first iteration's
(see `rollups`). `AcceptedRunsAreSolved` excludes keys whose names coincide once
trimmed, or differ between iterations, and keys that name nobody: the pre-flight
lets them pass and the worker fails the run. It and `EnergyIsKept` speak of an unchanged CRM;
`NothingIsDoubled` holds whatever changed, as the pivot checks again.
`OversizeStopsEarly` and `FittingUploadsPass` name what the count of an upload
may get wrong, as it does so in both directions; that it errs high only is what
`upload_count` refutes.

### Disagreements between texts and code

Each but the last is a run that TLC is expected to violate; `PROJECT.json` quotes
the texts. The last is a comment that a property of a passing run contradicts.

| Run | Property | What happens |
|---|---|---|
| `hiccup` | `HiccupIsRetried` | an error of the local database in `_snapshot_simulation` is not wrapped as transient and fails the run |
| `delete_race` | `DeleteRemovesResults` | a delete reads `result_storage_key`, a worker commits, the DELETE takes the row: the series stay |
| `audit` | `CreationIsAudited` | the CREATED entry is staged on a session nothing commits |
| `shutdown` | `ShutdownLeavesRuns` | a message received during the drain meets a pool that was shut down and is failed |
| `rollups` | `EnergyTotalsAreSummed` | a key's available production is that of its first iteration, not the sum over its iterations |
| `upload_count` | `OversizeIsUncounted` | a CSV with rows parted by bare carriage returns, or a workbook with a short dimension record, is counted below its rows and queued though it is too large; the comments say the count errs high |
| `worker_process` | `Reconciled` (holds) | a consumer of an earlier build gets the new `ack_wait` and `max_ack_pending`; dispatcher.py:104-107 and 110-113 say it keeps its old ones |

### Fairness

Weak fairness of each task's next step and each request's next step: the event
loop resumes a coroutine whose await is over, and every await of the code has a
timeout or an answer. Of delivery and of `ack_wait`: JetStream's own clock.
Of restart, reconnect and the end of a shutdown: the orchestrator restarts the
container, nats-py reconnects, `_drain_inflight` is bounded by a timeout. No
fault is fair, and no user decision.

In `worker_process`: weak fairness of the steps of `main()` and of the restart,
of the worker's own requests to the broker, of each task, of the solver
processes and of the executor's thread that notices a dead one. The other
worker's steps are not fair: it may stop between reading and writing the
settings. The runs of `RunInput` and `RunResult` check safety only: nothing in
them waits for anything but its own next step.

## What is proved

TLAPS checks the theorems below for every set of simulations, workers, jobs,
meters, keys, readings, uploads, consumers and timesteps, every limit, and any
number of faults of every kind but those a row names. They rest on the
assumptions the modules state, which TLC evaluates in every run: limits are
positive, file simulations are simulations, settings, limits and amounts are
natural numbers, keys and meters are finite, a trimmed name has nothing left to
trim, and documents have the form `json.dumps` gives them: in a name every quote
and backslash is escaped (`Names`), and in a number every minus stands before a
digit (`NumberTexts`). Old documents may hold any such names and values. What
the worker writes is proved to have that form, for the series that are amounts
of energy; the rate series of an iteration are not in the model. Each row's
property is the one TLC checks; each theorem is listed in `PROJECT.json`.

| Theorem | Property | Under |
|---|---|---|
| `TypeCorrect` | `TypeOK` of the service | |
| `InStepHolds` | `InStep` | |
| `AckedRunsAreSettled` | `AckedIsSettled` | |
| `SourceOutlivesPending` | `SourceKeptWhilePending` | |
| `SuccessKeepsSeries` | `SuccessHasSeries` | |
| `LateStepsLeaveEndedRuns` | `OnlyALatePublishRewrites` | |
| `TotalsKeepMatch` | `TotalsMatchSeries` | no `db_drop` |
| `EndedRunsStay` | `TerminalIsFinal` | no `publish_lost` |
| `EndingsAreReportedOnce` | `ReportedOnce` | no `publish_lost` |
| `ServiceKeepsPromise` | `KeepsPromise` | neither |
| `RunsAreAlone` | `OneRunAtATime` | no `link` |
| `NoWorkerQueues` | `NoBacklog` | no `link`, no `stall`, `MaxAckPending <= PoolSize` |
| `SettingsAreOneBuilds` | `SettingsOfOneBuild` | |
| `ConsumerIsReconciled` | `Reconciled` | |
| `WorkerIsSteady`, `WorkerTypeCorrect` | `Steady`, `TypeOK` of the worker | |
| `SavedRunsHaveTheirFile` | `UploadHasItsFile` | |
| `NoFileIsLeft` | `FilesHaveOwners` | |
| `AwaitedSolvesFit` | `SolvesFitThePool` | |
| `NoInheritedCrash` | `CrashesAreItsOwn` | |
| `InputTypeCorrect` | `TypeOK` of the input | |
| `ReadingsSolvedOnce` | `NothingIsDoubled` | |
| `OversizeUploadsStopEarly` | `OversizeStopsEarly` | |
| `FittingUploadsAreAccepted` | `FittingUploadsPass` | |
| `AcceptedRunsSucceed` | `AcceptedRunsAreSolved` | |
| `NoEnergyIsLost` | `EnergyIsKept` | |
| `ResultTypes` | `TypeOK` of the result | |
| `CascadeAccountsForAll` | `EnergyIsAccountedFor` | |
| `CascadeMakesNoEnergy` | `NoEnergyFromNowhere` | |
| `RollUpsBalance` | `HeadlineAddsUp` | |
| `RatesStayShares` | `RatesAreShares` | at least one timestep |
| `OnlyDeletedIsNotFound` | `NotFoundMeansDeleted` | |
| `StreamsTheDocument` | `StreamIsTheDocument` | |
| `StreamsHoldLittle` | `ReadersHoldLittle` | |

Each hypothesis of the third column is the exclusion the run that checks the
property makes too, and for the same reason. A lost publish and a dropped lock
do break what they are excluded from: what holds with them is in the rows
without a hypothesis. With a lost link (`link`) a redelivery runs beside the first
task. `stall` is a heartbeat that does not get through, after which the broker
no longer waits for a task that works on. `MaxAckPending <= PoolSize` is what
`worker/main.py:286` passes. A series without a timestep has no rate to compare
a total with.

**The inductive invariant of the run.** `AckedIsSettled` alone is not inductive:
an ack happens steps after the row was found closed. `InStep` says what holds in
between, in four parts.
`RowBeforeMessage` orders a request: the row is committed before the message is
published, and a request that may still clean up either has no message or a
closed row. `ClosedBeforeAck` carries a task's knowledge: in a phase that
reports, acks or releases, the row is closed, and it never opens again.
`LockKeepsPending` says a transaction of `save_success` holds the lock of a row
that is PENDING, which is why no other writer comes between its claim and its
commit. `SourceBeforeRow` says the file is there from before the row.

Every step of a worker has one shape, `OnlyCloses`: it closes a PENDING row or
leaves it alone, settles only messages of closed rows, deletes only their files.
A step of that shape keeps everything but the facts about the moved task and the
locks (`OnlyClosesKeeps`, `TaskMoveKeeps`, `WorkerMoveKeeps`); those are proved
action by action. A step of a request touches one simulation, and its row only
while no worker holds it (`RequestKeeps`). That two transactions never hold one
lock comes from `DeliveryDistinct`: simulation and count name a delivery.

**How a run ends.** Seen from one run, most steps are `Quiet`: they leave its
row, series and log alone and take no task into a phase that does not
(`StepOfRun`). What is left is a handful: the upload, the commit, `save_failure`,
the reports, the request that gives a run up. Over `InStep`, each property needs
one more invariant, proved for those steps alone: the series are stored before
the commit (`SeriesBeforeSuccess`), they are the commit's own while the lock is
held (`SeriesOfItsCommit`), a request that may give its run up has no task beside
it (`QueuedLast`), and whoever is to report finds no report in the log
(`ReportsInOrder`). These are written beside `InStep` and were checked with TLC
before they were proved.

**The refinement.** Seen through the mapping to `RunLifecycle`, a step either
leaves every life as it was (`Stays`) or takes one run through one step of the
abstract specification: a request accepts it, a commit or `save_failure` ends it,
a delete removes it.

**Who works on what.** A step does one of five things to the message of a run:
nothing, hands it to a task, answers for it, lets its `ack_wait` lapse, or
publishes it. So the task that works is the newest delivery (`WorkingIsNewest`),
and the broker waits for it (`UnansweredIsPending`); counting the tasks of a
worker against `max_ack_pending` gives `NoBacklog`.

**The worker process.** The settings in the broker only ever change to what one
worker declares, whatever it read before (`SettingsChange`). That none of an
earlier build is left under a subscribed worker needs `SubscribesOverDeclared`:
a worker goes on to subscribe only over no consumer or over settings a running
build declares, and every configuration, stored or read, has the bindings of its
creation, so that what is evolved from one has them too. `Steady` relates a job's task, its
call, the pool the call was submitted to, its file and the slots: a free slot and
the jobs that hold one add up to the size of the pool. It is proved job by job,
with one lemma for what any step may do to a job.

**The input.** Four invariants say what is known at each stage (the last section
of `RunInput`). A fifth, `RefusalStands`, says that a refusal is the last that
happens to an upload. `InputTypes` needs that a finite tree can be put in order,
which is where `from_crm_allocation_key` gets its sequence from. `MatrixIsRead`
says the matrix is what was read and what is solved was checked; the properties
that hold whatever the CRM did follow from it. `VerdictStands` and `CountStands`
say that the request's verdict and its count of an upload are still true where
nothing changed, so that the worker's second verdict, the pivot and the solver's
checks can be compared with the first: trimming a name twice is trimming it once
(`TrimmedTwice`), a meter whose rows are as many as its instants has no
duplicate (`SumCounts`), a list of distinct names selects one column each
(`ColumnsType`). `EnergyIsKept` compares sums in two orders: over the instants
of the matrix, of what all meters injected then, and over the meters of what
each injected in the period (`SumExchange`); and the reported gaps, meter by
meter, with the zeros in the matrix, name by name (`SumReindex`). The two
properties of uploads set the count against the rows (`CountType`): where
nothing that may make it low is in the file it is no less, and where nothing
that may make it high is there it is no more.

**The cascade.** `EnergyIsAccountedFor` and `NoEnergyFromNowhere` are equations
between sums over iterations, consumers and timesteps. The library defines a sum
by recursion over a set; `SumLemmas` shows that the recursion has one solution,
and draws from it what the proofs need (an element added, two sums added, sums
compared or scaled). What is usually shown by induction over a finite set is shown
there on a smallest counterexample, from the well-foundedness of strict
inclusion. `CascadeBalances` adds to the two properties that an iteration's
consumers get no more than they ask for and than was allocated to them, that the
totals balance, and what the roll-ups are taken from. The quotients are those of
the code in whole units, rounded down.

**Not found.** A row that says SUCCESS has an object that is not empty. For a
new run this is the order of upload and commit; that `write_json` writes no empty
document, whatever the series, is proved over its definition.

**The stream.** `_pieces` folds symbols into pieces and `as_api_response` folds
pieces into an answer, each starting from what it kept of the chunk before. The
proof compares them with a third fold that knows of no chunk, `ReadSymbol`: it
reads symbols one by one, holds back the letters of NaN and Infinity, and gives
out the rest. It takes three steps.

1. *Chunks do not matter* (`ChunkReads`). What the two folds leave after a chunk
   (the string they are inside of, the letters held back, what is on its way) is
   what `ReadSymbol` makes of its symbols (`Matches`). This rests on one fact about
   `_nulls`: cut after a symbol that is none of the letters, a run can be
   replaced in two parts (`NullsInParts`), which is what `UpToLetters` relies on.
2. *Documents read as they should* (`ReadsDocument`), by the grammar of
   `WriteJson`, one lemma for each of its operators: a part of a document, read
   from between two strings, is given out with null for its non-finite values and
   leaves the reader between two strings again (`Reads`). Names are read through
   their escapes (`ReadsString`); numbers are where a minus is held back and must
   not be taken for the start of -Infinity (`ReadsNumber`).
3. *The request* (`RequestStreams`). While a request reads, what storage has
   still to send of the object, read on from what it has kept, gives the whole
   answer. So what is sent is always the start of it, and at the end all of it but
   the suffix; and that the suffix is not empty is why a response broken off is
   never a whole one. `StoredIsWritten` says that the object is the document of the
   iterations written, which no step changes once a request may read, though a run
   may be solved, stored, committed and deleted beside it.

`StreamsHoldLittle` is drawn from the same invariant: the reading state remembers
the most letters ever held (`most`), and over a document these are at most three,
those of -Infinity. Before the proofs, TLC checked what of the two invariants it
can evaluate, and both properties, in `results`. What a fold does is proved in `FoldLemmas` from the
community modules' definition, which chooses positions of a set: the choice has
one outcome, and the fold of a sequence with one more element is one more step.

Only model-checked:

- The liveness properties (`EveryRunEnds`, `InputReleased`, `EverySolveEnds`,
  `ComesUp`): fairness needs ENABLED, which is out of the prover's reach.
- `SampleIsTheSeries` and `DetailMatchesSeries`. The first is about a second
  parser, `_IterationReader`, which finds its place in a document by counting
  braces and cuts lists at their commas, so that it would need an invariant of
  its own over the grammar of documents; the first of the three steps above
  would serve it, the second would not. The second property rests on the first,
  and on `SetToSortSeq`, which is defined over all permutations.
- The runs of the section on disagreements.

## Not modelled, and plan

Left out, because nothing of the modelled state depends on it: the list of
simulations with its filters and pages, the copying of fields by schemas and
mappers, security and tenancy filters, realtime hints (sent after both commits),
configuration, logging, metrics, tracing, i18n, health probes and the callbacks
of the NATS client that only log, the poller of queue depth.

Left out though it is state: the client of a connection whose `add_stream` raised
(`core/queue/init.py:97` leaves it open; no run sees it), the savepoint of the
audit log, and the shapes of the CRM's SQL beyond what each query counts. The
request's own warnings may be outdated by the time the run is solved; no text
promises otherwise. The row limit and the check for injection are not repeated
between the summary and the fetch of one attempt; a run that grew past the row
limit there is solved if it fits the cells.

Hazards no property covers are listed with the reason in `PROJECT.json`: a
request that dies between commit and publish (a row PENDING for good), a worker
that dies between the ack and the delete of the file, an upload that raised though
storage kept it. Each is a step of the model, and nothing in the code repairs it.

What is left to prove is `SampleIsTheSeries`; then `DetailMatchesSeries`, that
the totals committed and the series stored are one solve's.

## Running

| Module | Configurations |
|---|---|
| `MCService` | `MCOneRun`, `MCTwoRuns`, `MCEveryRunEnds`; violated: `MCHiccup`, `MCDeleteRace`, `MCAudit`, `MCShutdown` |
| `MCWorkerProcess` | `MCWorker` |
| `MCRunInput` | `MCInput`; violated: `MCUploadCount` |
| `MCRunResult` | `MCResult`; violated: `MCRollUps` |

`tlc -config MCOneRun.cfg MCService.tla`, and so on; the largest runs take three or
four minutes. `tlapm M.tla` for each of the eight modules named `...Proofs` or
`...Lemmas`; each checks its own theorems, in a minute or so, `StreamProofs` in
ten.
