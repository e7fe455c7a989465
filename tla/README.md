# DistroSync in TLA+

A TLA+ development of the DistroSync task broker: modules translated from the
Python source, TLC runs on small instances, and TLAPS proofs for any instance.

## The system

| part | source | what it does |
|---|---|---|
| BrokerServer | `broker/server.py` | TCP commands PRODUCE, CONSUME, REGISTER, HEARTBEAT, ACK, NACK, DLQ_LIST/REPLAY/PURGE, STATS; start-up recovery; HTTP triggers |
| QueueManager | `broker/queue_manager.py` | pending queues, in-flight registry, completed archive, retry-or-dead-letter decision |
| DeadLetterQueue | `broker/dead_letter.py` | ordered dict of permanently failed tasks |
| WorkerRegistry | `broker/worker_registry.py` | workers, heartbeats, tasks each worker holds, eviction loop |
| WalStore | `persistence/wal_store.py` | SQLite tables `tasks` and `dead_letter_queue` |
| AdaptiveLoadShedder | `broker/load_shedder.py` | token bucket per queue, rate adjusted by depth and latency |
| MetricsCollector | `broker/metrics_collector.py` | counters, tasks being timed, latency samples |
| Worker | `worker/base_worker.py`, `worker/task_executor.py`, `run_worker.py` | CONSUME / execute / ACK or NACK, heartbeat coroutine, reconnection |
| Producer | `producer/client.py`, `producer/backoff.py` | PRODUCE with exponential backoff |
| HTTP API, dashboard | `broker/http_api.py`, `dashboard/` | statistics and demo triggers |

A handler of the server drives the QueueManager, then the WorkerRegistry and the
MetricsCollector, then (if persistence is on) the WalStore. The eviction loop
calls back into the QueueManager. On start-up the server reloads the unfinished
rows of `tasks`. A PRODUCE first asks the load shedder, which looks at the depth
and the latency of the queue. A worker uses one connection for two coroutines.

## Modules

The life of a task inside the broker:

- `TaskLedger` what a task broker promises: the moves a task may make. Abstract.
- `BrokerTypes` constants and value sets shared by the modules below.
- `DeadLetterQueue` the ordered dict `dlq`.
- `QueueManager` one action per method of QueueManager, and the DLQ operations
  that also move tasks. `QueueLedger` maps it to `TaskLedger`, which it implements.
- `WorkerRegistry` registration, heartbeats, task tracking, eviction, time.
- `WalStore` the two tables; one operator per transaction.
- `Broker` composes them: one action per command handler or HTTP trigger, the
  worker processes as the broker sees them, raising WalStore calls, crashes and
  recovery. `BrokerLedger` maps its two tables to `TaskLedger`, payload by payload;
  they implement it with one exception that the constant `Losses` allows: a crash
  may take the dead letter that DLQ_REPLAY was moving.
- `MetricsCollector` counters and timed tasks; `MonitoredBroker` is `Broker` with
  the `record_` call of every handler.

The two ends of the connections:

- `LoadShedder` bucket, adjusted rate, hint. `Producers` composes it with the
  clients, their backoff and their connections, for one queue.
- `WorkerCycle` what the broker relies on in a worker. Abstract.
- `WorkerConnection` the consume and heartbeat coroutines of one worker, the
  connection lock, the wire, the handlers at the other end, shutdown,
  cancellation and reconnection. Implements `WorkerCycle`, which is how `Broker`
  takes a worker to behave; so the two can be read separately.

`MCQueueManager`, `MCWorkerRegistry`, `MCBroker`, `MCMonitored`, `MCProducers` and
`MCWorkerConnection` are the instances for TLC. The modules `*Proofs` hold the
theorems. `TaskEffects` and `BrokerEffects` define what the methods and the steps
of the broker do to the Task objects, the rows and the answers; the proofs are
written in these terms.

Operators whose names begin with `M` and whose comment says "Mutant" are
deliberately wrong variants of the definition that follows. They take part in
no specification; each shows that some property can tell the right definition
from a plausible mistake.

### State

`queues`, `in_flight`, `completed`, `dlq` are the keys of the code's containers;
the Task objects are `task`, indexed by id. `created` is the insertion order of
the dict `_queues`, which the wildcard CONSUME walks. Ids are 1, 2, ... in order
of creation, which stands for uuid4 plus `created_at`. A payload is the id of the
submission it came with, 0 is `{}`; a replay with persistence creates a new task
with the old payload, so payloads follow work across ids. `age` is
`now - last_heartbeat` in seconds. `walTasks` and `walDlq` are the tables.

`up` holds the workers whose connection the broker serves; `executing` is the task
of each worker *process*. A process that loses its connection, or its broker, goes
on: failing heartbeats are only logged (`base_worker.py:224`), and `execute()` runs
to its end (`ExecutionEnds`), after which neither ACK nor NACK can be sent. Then the
process may connect and register again, under the same id, as `run_worker.py` does.
So after an eviction or a restart of the broker two processes may execute one task,
although `server.py:745` says of the first that it "is no longer alive"; with
`OneRunner` stated of all processes whatever the broker knows of them, TLC finds
this in seven states. `OneRunner` says how far it goes.

History variables, which no guard reads: `answered` (submissions answered "ok"),
`acked` (ACKs answered "ok"), `removed` (purged or reset by an operator) in
`Broker`; `floor`, `nominal`, `accepted`, `promised` in `Producers`; `session`,
`reports`, `stopping` in `WorkerConnection`.

`LoadShedder` computes with exact integers where the code has floats: time in
ticks, tokens in fractions so small that every rate is a whole number of them.
Depth and latency change freely, within their sets, between requests.

`WorkerConnection` has one request or answer per coroutine in `up` or `down`.
`stale` holds requests that were in the socket when a connection broke: the
broker may still handle them, at any later time. A worker that is cancelled or
fails closes its connection and may run again on the same object; so may one whose
`run` was about to return, when `wait_closed` raises after a reset.

### Atomicity

The broker is one asyncio event loop. None of its locks is held across an await
that suspends, so a lock is always free when asked for, acquiring it does not
suspend, and a handler runs from its first change of state to its reply without
another coroutine in between. Hence one action per handler, also where the code
releases and takes a lock again (`negative_acknowledge`, `evict_dead_workers`).
What interleaves is handlers, the eviction loop, time, and the processes outside.

`handle_connection` finds the end of a connection behind the requests that were
sent on it. In `Broker` a worker therefore leaves `up` when the broker comes to that
end: a request handled after the connection broke is one handled before `WorkerLost`,
and a task handed out to nobody is HandleConsume, `WorkerLost`, `ExecutionEnds`. What
this leaves out is a request of the old connection handled after the same id has
registered on a new one; `WorkerConnection` has it (`stale`) and shows that such a
report is the only one of its delivery.

In the worker the lock *is* held across awaits: it pairs a request with its
answer. There a step ends where the coroutine awaits the lock, an answer, a sleep
or `execute()`.

Each WalStore method commits once. A handler with one commit that crashes before
it is a crash before the handler (the memory is lost anyway), and after it a crash
after the handler. `_handle_dlq_replay` has two commits and so gets
`CrashDuringReplay`. Recovery writes rows one at a time, but writes back what it
read, so a crash during recovery is a crash after it. `synchronous=NORMAL` keeps
commits across a crash of the process, which is the crash modelled; loss of power
is not.

A WalStore call may also raise. The tables then stay as they were, the memory
keeps what the handler did before the call, and the client gets no answer: each
handler has that outcome beside the normal one, up to `MaxWalFailures` times. A
`replay_dlq_task` or `purge_dlq` that raises comes first in its handler and
changes nothing, which is no step.

## Runs

| run | instance | shows |
|---|---|---|
| `queue_manager` | 2 queues, 3 tasks, budget 2 | types, exclusive placement, status against place, reachability by the wildcard, FIFO of fresh tasks, refinement of `TaskLedger` |
| `worker_registry` | 2 workers, the code's 6/2/10 s | detection in time, live workers stay, silent workers go in the end |
| `broker_chaos` | 2 tasks, 2 mortal workers, 1 broker crash, WAL, unlimited silence | WAL against memory, acked work never again, one durable copy, loss only by a crash, purged stays purged, the tables implement `TaskLedger` |
| `broker_prompt` | 2 tasks, one mortal and one lasting worker, 1 broker crash, with and without WAL | no orphan, one runner, every task settles |
| `monitored` | 2 tasks, 1 worker (wildcard or bound to the queue), 1 crash, 1 raising WalStore call, with and without WAL | the invariants of `broker_chaos` that survive a failed write; timed tasks and counters agree with the queues |
| `producers` | 2 producers with 1 and 2 payloads, 1 broken connection | a payload accepted at most once and in order, admission between the minimum and the nominal rate, the hint holds, every call ends |
| `worker_connection` | 2 deliveries, 2 broken connections | answers reach who asked, one report per delivery, nothing left of an earlier run, refinement of `WorkerCycle`, heartbeats flow, shutdown ends the run |

Bounds and why they are enough:

- The retry budget 2 is the least with both a retry and a dead letter. Two tasks
  are the least with an order and with a replay that creates a second id; three in
  `queue_manager` let two retried tasks surround a fresh one.
- `MaxAttempts` bounds how often a task may be handed out. In `queue_manager`,
  `broker_chaos` and the violation runs it is above the budget, so that evictions
  beyond it occur; in `broker_prompt` it is never reached, so it does not stop any
  task from settling, because there a worker is cut off by `WorkerLost` at most
  once (`Relapses = FALSE`; elsewhere any number of times). `MaxDispatches` bounds
  the counters in `monitored`: four dispatches are two tasks handed out twice.
- The broker runs scale the timeouts: to 0/1/1 in `broker_chaos` and `monitored`,
  to 1/1/2 in `broker_prompt` and the violation runs. What the properties there
  see of time is whether a worker is evicted before or after it heartbeats, not
  when; the values of the code are in `worker_registry`, and the proofs about
  ages hold for any.
- `MaxSilence` above the timeout lets running workers be evicted (zombies);
  equal to it, running workers heartbeat in time.
- One queue suffices in `Broker`: what depends on several is the walk of the
  wildcard, which `queue_manager` checks. `SAMPLES` 1 makes the deque of latencies
  full after one.
- `producers` has a bucket of one token, 2 and 1 tokens/s, 3 ticks/s, a backoff of
  one second, one retry. The rate then needs fractions of a token, a poll of the
  statistics between two requests refills in part, jitter can exceed the hint, a
  producer can take the token another waits for, and both can give up.
- `worker_connection`: two deliveries let a late report of the first meet the
  second; two breaks let the connection that replaced a broken one break too.
- Worker ids are symmetric in `broker_chaos` and the violation runs on `MCBroker`
  (no liveness is checked there).

`DurableLifecycle` is checked without failing writes: after a `save_task` of
DLQ_REPLAY raised, the task lives in memory only, the tables call it gone, and its
next retry or dead letter writes it again. `CHECK_DEADLOCK` is off in
`worker_connection` only, where `run` may return.

Five runs end in a counterexample, each to a sentence of the repository:

- `retry_budget`: evictions exceed `max_retries` (`queue_manager.py:103`).
- `reused_id`: re-registration forgets the task held (`worker_registry.py:26`).
- `replay_crash`: a crash inside DLQ_REPLAY loses the task (`README.md:14`).
- `purge`: replay-all brings back what DLQ_PURGE deleted (`server.py:564`).
- `peek_limit`: a dead letter is stored without its payload
  (`dead_letter.py:43`); the limit 100 is scaled to 1.

`broker_prompt` therefore assumes that an id is not registered again before its
eviction (`ReuseIds = FALSE`). After it, and after a restart of the broker, it may be:
`run_worker.py` waits 15 s before it registers the same id again, longer than timeout
and check interval together. A container that is restarted at once under the fixed
`WORKER_ID` of `docker-compose.yml` is the other case, that of `reused_id`.
The passing broker runs keep the HTTP replay-all away from the WAL
(`DashboardReplay = FALSE`): beside it not only `PurgedStaysPurged` fails, but
`AckedNeverRunsAgain` and `OneDurableCopy` too, for a dead letter that DLQ_REPLAY
queued again is queued a second time under its old id.
`NoOrphanInFlight` also needs the prompt heartbeats of that run: `assign_task`
does nothing for an evicted worker that still polls, and with `MaxSilence` above the
timeout TLC refutes it.

### Fairness

All of it is weak, and of steps that the code takes by itself once it can.

- `WRFairness`, `BrokerFairness`: the passing of time, the eviction check when it
  is due (an asyncio task that nothing cancels), the heartbeat coroutine of a
  running worker, and, for the workers that stay, connecting and polling, which
  `run_worker.py` and `BaseWorker.run` do without end. A worker that runs a task
  reports it, and one without a connection drops it: `execute()` returns or
  raises. Nothing is assumed of producers, operators or mortal workers. Time
  stands still while the eviction check is due: the event loop is not blocked for
  a second.
- `ProducersFairness`: time, the sends and reads of a client, and that the broker
  handles a request it has received. Nothing of pressure, polling or breaks.
- `ConnectionFairness`: each of the two coroutines goes on when its await is over,
  and the broker handles a request. None on `execute()`, on breaks, on shutdown
  or on stale requests; `ShutdownEndsRun` says itself that it needs `execute()`
  to return.

A broken connection is noticed by both ends. Neither client nor worker has a read
timeout, so behind a peer that vanishes without a reset they would wait for ever,
and `EveryCallEnds`, `HeartbeatsFlow` and `ShutdownEndsRun` would not hold.

## Proofs

Every safety property of every passing run is also a theorem, for every value of
the constants that the named assumptions (`TypesAssumption`, `WRAssumption`,
`BrokerAssumption`, `MetricsAssumption`, `MonitoredAssumption`,
`ShedderAssumption`, `ProducersAssumption`, `ConnectionAssumption`) allow.
`PROJECT.json` lists them.

### Components

- `QueueManagerProofs`: `QMTypeOK`, `StatusNamesPlace`, `ExclusivePlacement`,
  `QueueOfTaskExists`. None is inductive: that a queue holds no task twice depends
  on the tasks elsewhere. `QMInd` says that each container *lists* (each member
  once, nothing else) the tasks with the status and queue name it stands for, and
  that ids not yet used have no object. Every action then changes some Task
  objects, and the lemmas at the head of the module give the effect on the lists
  (append, prepend, tail, concatenation, dropping positions). `Named` adds that
  `_queues` has the queue of every Task object as a key.
- `QueueLedgerProofs`: QueueManager implements `TaskLedger`. The mapping reads a
  task's entry off its status and the id counter. With `QMInd` the guards, which
  ask the containers, become guards on entries, and each action moves the entries
  of one set of tasks from one state to another. `FreshTasksInOrder` needs `Used`:
  a task that was in flight or a dead letter is never fresh again, so what returns
  to a queue, at whichever end, takes no part in the order.
- `BrokerStepProofs`, first part: `WRTypeOK`, `DetectedInTime`, `LiveWorkersStay`.
  The last needs that the age of a running, registered worker never exceeds
  `MaxSilence`.
- `ProducersProofs`: `BetweenFloorAndNominal`, `AcceptedOnce`, `RetryHintHolds` and
  the types. The first says nothing of the time since the last refill;
  `ShedderInv` counts that time at either extreme rate, and the adjusted rate lies
  between them. For the second, `ClientsInv` follows a payload through request,
  queue and answer. For the third, `HintInv` says that the tokens present plus
  what the promised rate adds in the time left to wait cover one token; the
  rounding of `retry_after` and the jitter only add to that time.
- `WorkerConnectionProofs`: `RepliesMatch`, `NothingLeftBehind`, `ReportedOnce`, the
  types and the refinement of `WorkerCycle`. `LockOK` says who is in the queue of
  the lock, `WireOK` that the one message on the wire belongs to the coroutine
  that waits for it, and `SessionOK` relates where `run` is to what the broker saw.
  `ReportOK` says that a report of a delivery is in at most one place (wire, socket
  of a broken connection, broker), and that none was sent while `run` may still
  send one. The NACK after a failed ACK is harmless because the ACK fails only
  with the connection.

### Broker

The proofs go in three layers. The last part of `QueueManagerProofs` reduces every
method to its effect on the Task objects (`Created`, `HandedOut`, `Completed`,
`Failed`, `Revived`, `Dropped`, `Requeued`), which is where `QMInd` and the lists
are used. `BrokerStepProofs` and `DurableProofs` take these effects as hypotheses
and show what a step preserves; they need no fact about sequences. `BrokerProofs`
puts the two together, handler by handler, and states the theorems.

- `OneRunner`, `NoOrphanInFlight`: `HoldersInv` (a connected worker executes a task
  it is listed with, no task is listed twice, what is listed is in flight or was
  forgotten by a reset) and `OwnedInv` (every task in flight is listed for a
  registered worker). Both rest on connected workers never being evicted. A process
  without connection may execute a task that is listed for it, for another worker
  or for none; `OneRunner` follows because the first two exclude each other.
- `AckedNeverRunsAgain`, `PurgedStaysPurged`, `OneDurableCopy`: a payload is carried
  by one id at a time, as a Task object, as a row or both. `Linked` says how the
  rows of an id relate to its object after any failing write or crash (a dead
  letter's row excludes a task row, a row and an object have the same payload);
  `CarryInv` says that no two ids carry a payload, that a removed one is not
  carried, and that an acknowledged one may not run.
- `WalTracksMemory`: with `Linked` each step adds at most one task to the difference,
  and only if it counts a failed write.
- `LossBoundedByFaults`: likewise for lost payloads, with failed writes and crashes.
  It holds beside the dashboard's replay-all, after which `Linked` and `CarryInv` do
  not: `Kept` is what remains of `Linked` then (an object and its rows have the same
  payload, and not the empty one; a dead letter has no task row), and `Dated` says
  that what was answered has an id.
- `DurableLifecycle`: `Settled` says that a live task has its row, and one in
  flight a row in flight; then every handler makes a move of `TaskLedger` on the
  payload it is about, and a move under a new id (DLQ_REPLAY) is a move of the
  same payload.
- `DeadLettersKeepPayload`, `NothingLost`, `RetryBudget`: three properties that a
  run refutes, proved under hypotheses that exclude what the counterexample shows
  (and, for the second, the others in the table below). The first two follow from
  `Kept`; `Budgeted` adds to the last that a pending task has an attempt left.

`MonitoredProofs` carries this to `MonitoredBroker`, whose steps are steps of
`Broker`: its types, `TimedTasksLive` (`Timed`: in terms of the Task objects),
`EveryAckTimed`, which needs it, and `CountersBalance`. For the last, `Balanced`
counts the tasks in flight and the dead letters as finite sets; each handler
changes one of them by one task and one counter by one. The sum of the counters
of all queues is a fold over a finite function. What it does under an increment
is proved by induction over the finite subsets of the domain, in the form "a
non-empty set of subsets has a smallest one".

### Hypotheses

Some theorems have a hypothesis beside the assumptions. All but the last in the
table are needed: when the constants of a broker run are changed so that it fails,
TLC refutes the property, with two tasks and at most two workers.

| hypothesis | of | why |
|---|---|---|
| `~DashboardReplay` | `BrokerAckedNeverRunsAgain`, `PurgedStaysPurged`, `OneDurableCopy`, `WalTracksMemory`, `TablesImplementLedger` | the HTTP replay-all does not write the WAL (run `purge`) |
| `~ReuseIds` | `BrokerNoOrphan` | re-registration before the eviction forgets the task held (run `reused_id`) |
| `MaxSilence <= HEARTBEAT_TIMEOUT` | `BrokerNoOrphan`; `OneRunner` says so itself | an evicted worker goes on executing and polling |
| `[]ShortDLQ` | `BrokerLossBounded`, `TablesImplementLedger`, `DeadLettersKeepPayload`, `NothingLost` | beyond the limit of `peek` the payload is not found (run `peek_limit`) |
| `[]NoFailedWrite` | `BrokerTablesImplementLedger`, `NothingLost` | a raising `save_task` leaves the task in memory only |
| `[][ReplayIsWhole]` | `BrokerNothingLost` | a crash between the commits of DLQ_REPLAY (run `replay_crash`) |
| `[][NoAttemptCut]` | `BrokerRetryBudget` | evictions that requeue a task, and recoveries, do not look at the budget (run `retry_budget`); evictions of idle workers are allowed |
| `IsFiniteSet(Queues)` | `MonitoredCountersBalance` | a sum over infinitely many counters means nothing; a dict is finite |

### Only model-checked

Liveness (`SilentWorkerEvicted`, `EveryTaskSettles`, `EveryCallEnds`,
`HeartbeatsFlow`, `ShutdownEndsRun`): it rests on fairness and so on ENABLED,
about which the prover cannot reason.

## Not modelled

- Task functions and the process pool: behind `execute()`, which in the model
  returns, raises or takes as long as it likes.
- Framing, JSON, malformed requests, read-only commands, HTTP parsing, static
  files, the dashboard, benchmarks and the load generator: no state of the system.
- The sliding windows, rates and percentiles of MetricsCollector and the latency
  samples of WorkerRegistry: arithmetic on timestamps. `LoadShedder` takes the
  latency to be anything. Running totals that only statistics read, among them
  `total_produced`; `_task_queues`, which nothing reads.
- The metadata table and `delete_task` of WalStore, which the broker never uses.
- Graceful `stop`: what it waits for depends on the version of asyncio, and
  commits do not need it. Cancellation of a worker while it connects, and a
  `shutdown` before `run` has connected, which `run` overwrites.
- Several queues in `Producers`: their buckets share two statistics counters only.
- The replay-all trigger looks at the oldest 1000 dead letters, more than any
  instance has.
