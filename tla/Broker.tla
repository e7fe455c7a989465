------------------------------- MODULE Broker -------------------------------
(***************************************************************************)
(* broker/server.py: the command handlers and HTTP triggers of the broker, *)
(* each of which drives the QueueManager, the WorkerRegistry and the       *)
(* WalStore in turn; start-up recovery; and the worker processes as seen   *)
(* from the broker (worker/base_worker.py: one task at a time, CONSUME     *)
(* then ACK or NACK).  No handler suspends between its first change of     *)
(* state and its reply, so a handler is one action.  A crash of the broker *)
(* process falls between two commits of the WalStore; only DLQ_REPLAY has  *)
(* two, so it alone has an action for a crash halfway.                     *)
(***************************************************************************)
EXTENDS QueueManager, WorkerRegistry, WalStore

CONSTANTS WalModes,        \* with or without --db-path: a subset of BOOLEAN
          PeekLimit,       \* the limit in _handle_nack's peek (100)
          DashboardReplay, \* is the HTTP replay-all used beside the WAL?
          Mortal,          \* the workers that may die or lose the connection
          MaxCrashes,      \* bound: crashes of the broker
          MaxWalFailures   \* bound: WalStore calls that raise

ASSUME BrokerAssumption ==
  /\ WalModes \subseteq BOOLEAN
  /\ PeekLimit \in Nat
  /\ DashboardReplay \in BOOLEAN
  /\ Mortal \subseteq Workers
  /\ MaxCrashes \in Nat
  /\ MaxWalFailures \in Nat

VARIABLES wal_enabled,  \* self.wal_store is not None
          executing,    \* the task each worker process is working on
          crashes,      \* how often the broker has crashed
          wal_failures, \* how often a WalStore call has raised
          acked,        \* history: payloads whose ACK was answered "ok"
          answered,     \* history: payloads whose PRODUCE was answered "ok"
          removed       \* history: payloads an operator purged or reset

brokerVars == <<queues, created, in_flight, completed, dlq, task, nextId,
                registered, age, in_flight_tasks, sinceCheck, up, dropped,
                walTasks, walDlq, wal_enabled, executing, crashes,
                wal_failures, acked, answered, removed>>

durable == <<walTasks, walDlq, wal_failures>>

unobserved == <<wal_enabled, crashes, acked, answered, removed>>

(* A WalStore call the handler makes only `if self.wal_store`.             *)
Persist(A) ==
  /\ IF wal_enabled THEN A ELSE UNCHANGED walVars
  /\ UNCHANGED wal_failures

(* The call raises: SQLite refuses the statement and the tables stay as    *)
(* they were.  handle_connection logs the exception and closes the         *)
(* connection: what the handler changed in memory stays, no answer goes    *)
(* out.                                                                    *)
Raises ==
  /\ wal_enabled
  /\ wal_failures < MaxWalFailures
  /\ wal_failures' = wal_failures + 1

WalRaises == Raises /\ UNCHANGED walVars

BrokerInit ==
  /\ Recovered([t \in {} |-> NoRow], queues, created, task)
  /\ in_flight = {} /\ completed = {} /\ DLQInit /\ nextId = 1
  /\ WRInit
  /\ WALInit
  /\ wal_enabled \in WalModes
  /\ executing = [w \in Workers |-> None]
  /\ crashes = 0
  /\ wal_failures = 0
  /\ acked = {}
  /\ answered = {}
  /\ removed = {}

-----------------------------------------------------------------------------
(* _handle_produce, once the load shedder has let the request through.     *)
HandleProduce(q) ==
  /\ Enqueue(q, nextId)
  /\ \/ /\ Persist(SaveTask(nextId, q, nextId) /\ UNCHANGED walDlq)
        /\ answered' = answered \cup {nextId}
     \/ WalRaises /\ UNCHANGED answered
  /\ UNCHANGED <<wrVars, executing, wal_enabled, crashes, acked, removed>>

(* What _handle_consume does after dequeue returned task t for worker w.   *)
(* A worker whose connection is closed has to register again.              *)
HandOut(w, t) ==
  /\ AssignTask(w, t)
  /\ \/ /\ Persist(/\ UpdateTaskStatus(t, "in_flight", task[t].attempts + 1)
                   /\ UNCHANGED walDlq)
        /\ executing' = [executing EXCEPT ![w] = t]
        /\ UNCHANGED up
     \/ /\ WalRaises
        /\ up' = up \ {w}
        /\ UNCHANGED executing
  /\ UNCHANGED <<registered, age, sinceCheck, dropped, unobserved>>

HandleConsume(w, q) ==
  /\ w \in up /\ executing[w] = None
  /\ Dequeue(q, w)
  /\ HandOut(w, Head(queues[q]))

HandleConsumeEmpty(w, q) ==
  /\ w \in up /\ executing[w] = None
  /\ DequeueEmpty(q)
  /\ UNCHANGED <<wrVars, durable, executing, unobserved>>

(* CONSUME of "*".                                                         *)
HandleConsumeAny(w) ==
  /\ w \in up /\ executing[w] = None
  /\ DequeueAny(w)
  /\ \E q \in Queues : queues'[q] # queues[q] /\ HandOut(w, Head(queues[q]))

(* One task at a time: a process connects again after it left its run.     *)
HandleRegister(w) ==
  /\ executing[w] = None
  /\ Register(w)
  /\ UNCHANGED <<qmVars, durable, executing, unobserved>>

HandleHeartbeat(w) ==
  /\ RecordHeartbeat(w)
  /\ UNCHANGED <<qmVars, durable, executing, unobserved>>

(* The worker is done with its task and asks for the next one, whatever    *)
(* the broker answered.                                                    *)
Finished(w) == executing' = [executing EXCEPT ![w] = None]

HandleAck(w) ==
  LET t == executing[w]
  IN  /\ w \in up /\ t # None
      /\ \/ /\ Acknowledge(t)
            /\ CompleteTask(w, t)
            /\ \/ /\ Persist(MarkDone(t) /\ UNCHANGED walDlq)
                  /\ acked' = acked \cup {task[t].payload}
                  /\ UNCHANGED up
               \/ /\ WalRaises
                  /\ up' = up \ {w}
                  /\ UNCHANGED acked
         \/ /\ t \notin in_flight
            /\ UNCHANGED <<qmVars, durable, in_flight_tasks, acked, up>>
      /\ Finished(w)
      /\ UNCHANGED <<registered, age, sinceCheck, dropped,
                     wal_enabled, crashes, answered, removed>>

(* The row _handle_nack writes for a dead letter: the payload is looked up *)
(* among the first PeekLimit entries of the DLQ, and is {} if not there.   *)
DeadLetterRow(t) ==
  [queue_name |-> task[t].queue_name,
   attempts   |-> task[t].attempts,
   payload    |-> IF t \in Peek(PeekLimit)' THEN task[t].payload ELSE 0]

(* Mutant: the NACK of a task that is not in flight reaches the table.     *)
MHandleNack(w) ==
  LET t == executing[w]
  IN  /\ w \in up /\ t # None
      /\ IF t \in in_flight
         THEN NegativeAcknowledge(t) /\ CompleteTask(w, t)
         ELSE UNCHANGED <<qmVars, in_flight_tasks>>
      /\ Persist(IF t \in in_flight /\ Exhausted(t)
                 THEN AddToDlq(t, DeadLetterRow(t))
                 ELSE /\ UpdateTaskStatus(t, "pending", task[t].attempts)
                      /\ UNCHANGED walDlq)
      /\ Finished(w)
      /\ UNCHANGED <<registered, age, sinceCheck, dropped, up, unobserved>>

HandleNack(w) ==
  LET t == executing[w]
  IN  /\ w \in up /\ t # None
      /\ \/ /\ NegativeAcknowledge(t)
            /\ CompleteTask(w, t)
            /\ \/ /\ Persist(IF Exhausted(t)
                             THEN AddToDlq(t, DeadLetterRow(t))
                             ELSE /\ UpdateTaskStatus(t, "pending",
                                                      task[t].attempts)
                                  /\ UNCHANGED walDlq)
                  /\ UNCHANGED up
               \/ WalRaises /\ up' = up \ {w}
         \/ /\ t \notin in_flight
            /\ UNCHANGED <<qmVars, durable, in_flight_tasks, up>>
      /\ Finished(w)
      /\ UNCHANGED <<registered, age, sinceCheck, dropped, unobserved>>

-----------------------------------------------------------------------------
(* Mutant: the replayed task is not saved under its new id.                *)
MHandleDlqReplay(t) ==
  /\ IF wal_enabled
     THEN /\ ReplayDlqTask(t)
          /\ Enqueue(walDlq[t].queue_name, walDlq[t].payload)
          /\ UNCHANGED <<walTasks, wal_failures>>
     ELSE DlqRetry(t) /\ UNCHANGED durable
  /\ UNCHANGED <<wrVars, executing, unobserved>>

(* _handle_dlq_replay.  With a WAL the dead letter comes back as a new     *)
(* task, and the in-memory DLQ is not touched; save_task is the second of  *)
(* two calls, and if it raises the dead letter is gone from the tables.    *)
HandleDlqReplay(t) ==
  /\ IF wal_enabled
     THEN /\ ReplayDlqTask(t)
          /\ Enqueue(walDlq[t].queue_name, walDlq[t].payload)
          /\ \/ /\ SaveTask(nextId, walDlq[t].queue_name, walDlq[t].payload)
                /\ UNCHANGED wal_failures
             \/ Raises /\ UNCHANGED walTasks
     ELSE DlqRetry(t) /\ UNCHANGED durable
  /\ UNCHANGED <<wrVars, executing, unobserved>>

(* The payloads a purge of the queues in Q deletes.                        *)
PurgedPayloads(Q) ==
  IF wal_enabled
  THEN {walDlq[t].payload : t \in {u \in TaskId : walDlq[u].queue_name \in Q}}
  ELSE {task[t].payload : t \in {u \in Range(dlq) : task[u].queue_name \in Q}}

(* _handle_dlq_purge of one queue, or of all.                              *)
HandleDlqPurge(Q) ==
  /\ Q = Queues \/ \E q \in Queues : Q = {q}
  /\ IF wal_enabled
     THEN PurgeDlq(Q) /\ UNCHANGED <<qmVars, walTasks, wal_failures>>
     ELSE /\ \/ Q = Queues /\ DlqPurge
             \/ \E q \in Queues : Q = {q} /\ DlqPurgeQueue(q)
          /\ UNCHANGED durable
  /\ removed' = removed \cup PurgedPayloads(Q)
  /\ UNCHANGED <<wrVars, executing, wal_enabled, crashes, acked, answered>>

(* _replay_dlq_handler: the in-memory DLQ only, with or without a WAL.     *)
ReplayDlqHandler ==
  /\ wal_enabled => DashboardReplay
  /\ DlqRetryAll
  /\ UNCHANGED <<wrVars, durable, executing, unobserved>>

(* Mutant: the tables are not cleared.                                     *)
MResetHandler ==
  /\ Reset
  /\ removed' = removed \cup 1..(nextId - 1)
  /\ UNCHANGED <<wrVars, durable, executing, wal_enabled, crashes, acked,
                 answered>>

(* _reset_handler: registry and workers are left as they are.  If the      *)
(* tables cannot be cleared the memory is empty, and the operator is told  *)
(* of an error.                                                            *)
ResetHandler ==
  /\ Reset
  /\ \/ /\ Persist(ClearAllData)
        /\ removed' = removed \cup 1..(nextId - 1)
     \/ WalRaises /\ UNCHANGED removed
  /\ UNCHANGED <<wrVars, executing, wal_enabled, crashes, acked, answered>>

-----------------------------------------------------------------------------
(* evict_dead_workers, requeuing included; the WAL is not told.            *)
BrokerEvict ==
  /\ EvictDeadWorkers
  /\ RequeueEach(Orphans)
  /\ UNCHANGED <<durable, executing, unobserved>>

BrokerTick ==
  /\ Tick
  /\ UNCHANGED <<qmVars, durable, executing, unobserved>>

(* The connection of w is gone, by the death of its process, by itself or  *)
(* by the HTTP trigger.  What the worker had sent on it was read before    *)
(* its end.                                                                *)
WorkerLost(w) ==
  /\ w \in Mortal
  /\ WorkerDies(w) \/ CrashWorker(w)
  /\ UNCHANGED <<qmVars, durable, executing, unobserved>>

(* The task of a process without connection comes to its end: the process  *)
(* is dead, or execute() is over and the ACK or NACK cannot be sent.  The  *)
(* result is dropped; run_worker.py connects again later.                  *)
ExecutionEnds(w) ==
  /\ w \notin up /\ executing[w] # None
  /\ Finished(w)
  /\ UNCHANGED <<qmVars, wrVars, durable, unobserved>>

(* The broker process dies and starts again: the memory is gone, the rows  *)
(* of the tasks table are enqueued again.  Workers lose their connections, *)
(* the new registry knows none of them, and a process in the middle of     *)
(* execute() goes on: its heartbeats fail, which it only logs.             *)
Restart ==
  /\ crashes < MaxCrashes
  /\ crashes' = crashes + 1
  /\ Recovered([t \in LoadPendingTasks |-> walTasks[t]],
               queues', created', task')
  /\ in_flight' = {} /\ completed' = {} /\ dlq' = << >>
  /\ ResetLoaded
  /\ registered' = {} /\ up' = {} /\ sinceCheck' = 0
  /\ Forget(Workers)
  /\ UNCHANGED <<nextId, dropped, executing, wal_enabled, wal_failures, acked,
                 answered, removed>>

CrashAndRecover == Restart /\ UNCHANGED walDlq

(* The crash comes between the two commits of _handle_dlq_replay.          *)
CrashDuringReplay(t) ==
  /\ wal_enabled
  /\ Restart
  /\ ReplayDlqTask(t)

BrokerNext ==
  \/ \E q \in Queues : HandleProduce(q)
  \/ \E w \in Workers : \/ \E q \in Queues : \/ HandleConsume(w, q)
                                              \/ HandleConsumeEmpty(w, q)
                        \/ HandleConsumeAny(w)
                        \/ HandleRegister(w)
                        \/ HandleHeartbeat(w)
                        \/ HandleAck(w)
                        \/ HandleNack(w)
                        \/ WorkerLost(w)
                        \/ ExecutionEnds(w)
  \/ \E t \in TaskId : HandleDlqReplay(t) \/ CrashDuringReplay(t)
  \/ \E Q \in SUBSET Queues : HandleDlqPurge(Q)
  \/ ReplayDlqHandler
  \/ ResetHandler
  \/ BrokerEvict
  \/ BrokerTick
  \/ CrashAndRecover

BrokerSpec == BrokerInit /\ [][BrokerNext]_brokerVars

(* Time passes and the eviction task runs when it is due.  A worker whose  *)
(* process does not die (re)connects, polls without end and sends its      *)
(* heartbeats; execute() returns or raises, and either is reported.        *)
BrokerFairness ==
  /\ WF_brokerVars(BrokerTick)
  /\ WF_brokerVars(BrokerEvict)
  /\ \A w \in Workers :
       /\ WF_brokerVars(HandleHeartbeat(w))
       /\ WF_brokerVars(HandleAck(w) \/ HandleNack(w))
       /\ WF_brokerVars(ExecutionEnds(w))
  /\ \A w \in Workers \ Mortal :
       /\ WF_brokerVars(HandleRegister(w))
       /\ WF_brokerVars(HandleConsumeAny(w))

FairBrokerSpec == BrokerSpec /\ BrokerFairness

-----------------------------------------------------------------------------
(* The values of the broker's state, component by component.               *)
BrokerTypeOK ==
  /\ QMTypeOK
  /\ WRTypeOK
  /\ WALTypeOK
  /\ wal_enabled \in BOOLEAN
  /\ executing \in [Workers -> TaskId \cup {None}]
  /\ crashes \in 0..MaxCrashes
  /\ wal_failures \in 0..MaxWalFailures
  /\ acked \subseteq Payload
  /\ answered \subseteq TaskId
  /\ removed \subseteq Payload

(* Tasks the broker still has to get done.                                 *)
Live == Queued \cup in_flight

(* Live tasks that a restart would not find again as they are.             *)
Undurable ==
  {t \in Live : \/ t \notin LoadPendingTasks
                \/ walTasks[t].queue_name # task[t].queue_name
                \/ walTasks[t].payload # task[t].payload
                \/ walTasks[t].attempts # task[t].attempts}

(* What a restart would load is what the running broker has to do, no task *)
(* more and no task less, each with its queue, payload and attempts: every *)
(* handler that moves a task also writes the WAL, and evict_dead_workers,  *)
(* which does not, changes nothing that recovery reads.  A WalStore call   *)
(* that raises leaves at most the one task it was about behind.            *)
WalTracksMemory ==
  wal_enabled => /\ Cardinality(Undurable) <= wal_failures
                 /\ wal_failures = 0 => LoadPendingTasks \subseteq Live

(* Once the broker has answered "ok" to the ACK of a task, its payload is  *)
(* never queued nor handed out again: not by a restart of the broker, an   *)
(* eviction, a late NACK of a worker believed dead, or a DLQ_REPLAY.  (The *)
(* HTTP replay-all beside a WAL is DashboardReplay.)  The payload 0 that a *)
(* peek too short leaves is nobody's submission.                           *)
AckedNeverRunsAgain == \A t \in Live : task[t].payload \notin acked \ {0}

(* A payload has one durable row: in the tasks table or in the DLQ table,  *)
(* never in both, whatever retries, replays and crashes it went through.   *)
OneDurableCopy ==
  LET Holds(p) == {<<"tasks", t>> : t \in {u \in TaskId :
                     walTasks[u] # NoRow /\ walTasks[u].payload = p}}
                  \cup {<<"dlq", t>> : t \in {u \in TaskId :
                     walDlq[u] # NoRow /\ walDlq[u].payload = p}}
  IN  \A p \in Payload \ {0} : Cardinality(Holds(p)) <= 1

(* Payloads the broker owes its producers ...                              *)
Owed == answered \ removed

(* ... and no longer has on disk.                                          *)
Lost == {p \in Owed : \A t \in TaskId :
           /\ walTasks[t] = NoRow \/ walTasks[t].payload # p
           /\ walDlq[t] = NoRow \/ walDlq[t].payload # p}

(* With persistence, an accepted task leaves the disk only by a crash or a *)
(* failing write, and each of them costs at most the one task that         *)
(* DLQ_REPLAY was moving.                                                  *)
LossBoundedByFaults ==
  wal_enabled => Cardinality(Lost) <= crashes + wal_failures

(* README.md: persistence is "ensuring zero data loss during process       *)
(* crashes".                                                               *)
NothingLost == wal_enabled => Lost = {}

(* DLQ_PURGE: "purged tasks are permanently deleted".  No task with a      *)
(* payload that was purged or reset is ever queued or handed out again.    *)
PurgedStaysPurged == \A t \in Live : task[t].payload \notin removed \ {0}

(* worker_registry.py on in_flight_tasks: "This prevents tasks from being  *)
(* silently lost when a worker crashes".  A task in flight is listed for a *)
(* registered worker, so that the eviction of that worker requeues it, or  *)
(* the process that executes it is still there to answer.                  *)
NoOrphanInFlight ==
  \A t \in in_flight : \/ \E w \in registered : t \in in_flight_tasks[w]
                       \/ \E w \in up : executing[w] = t

(* The broker still knows of the run of w: w is connected, or the registry *)
(* lists the task for it.                                                  *)
KnownRun(w) ==
  executing[w] # None /\ (w \in up \/ executing[w] \in in_flight_tasks[w])

(* If connected workers are never silent beyond the timeout, a task that a *)
(* second process executes is one whose first process has lost its         *)
(* connection and its entry, by an eviction or a restart of the broker:    *)
(* execute() goes on without a connection, and the broker must not hand    *)
(* the task out again before it has given the first run up.                *)
OneRunner ==
  MaxSilence <= HEARTBEAT_TIMEOUT =>
    \A v, w \in Workers : KnownRun(v) /\ KnownRun(w)
                             /\ executing[v] = executing[w] => v = w

(* queue_manager.py on max_retries: "Maximum number of attempts before a   *)
(* task is sent to the Dead Letter Queue".                                 *)
RetryBudget == \A t \in TaskId : task[t].attempts <= MaxRetries

(* dead_letter.py: each dead letter "retains its full history: original    *)
(* payload, queue name, attempt count".  The durable row of a dead letter  *)
(* has the payload of the task.                                            *)
DeadLettersKeepPayload ==
  \A t \in TaskId : walDlq[t] # NoRow => walDlq[t].payload # 0

(* Every task the broker accepted is acknowledged or dead-lettered in the  *)
(* end, unless an operator removes it or a crash takes it: whatever dies,  *)
(* some worker that stays gets every task back, and the retry budget stops *)
(* a task that always fails.                                               *)
EveryTaskSettles ==
  \A p \in TaskId :
    p \in Owed ~>
      \/ p \notin Owed \/ p \in acked
      \/ \E t \in Range(dlq) : task[t].payload = p
      \/ \E t \in TaskId : walDlq[t] # NoRow /\ walDlq[t].payload = p
      \/ IF wal_enabled THEN p \in Lost ELSE crashes > 0

=============================================================================
