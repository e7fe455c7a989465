---------------------------- MODULE BrokerProofs ----------------------------
(***************************************************************************)
(* Theorems about the Broker, for any queues, workers, number of tasks,    *)
(* retry budget, timing, number of crashes and of failing writes: its      *)
(* types; who holds and who executes a task in flight; that acknowledged   *)
(* and purged work stays away; how the tables of the WalStore follow the   *)
(* memory, what may be lost, and that they implement TaskLedger; and under *)
(* which conditions the promises hold that the code does not keep in       *)
(* general. The methods of the QueueManager are reduced here to their      *)
(* effects on the Task objects; what the steps with these effects preserve *)
(* is proved in BrokerStepProofs and DurableProofs.                        *)
(***************************************************************************)
EXTENDS BrokerStepProofs, DurableProofs, QueueManagerProofs

-----------------------------------------------------------------------------
(* The containers of the QueueManager, told by the status of the tasks.    *)
LEMMA IndTasks == QMInd => TasksOK
<1> SUFFICES ASSUME QMInd PROVE TasksOK
  OBVIOUS
<1>1. Range(dlq) = {t \in TaskId : task[t].status = "dead_lettered"}
  BY DEF QMInd, Placed, Lists, Having
<1>2. in_flight = {t \in TaskId : task[t].status = "in_flight"}
  BY DEF QMInd, Placed, Having
<1>3. \A q \in Queues : Range(queues[q]) = Pending(task, q)
  BY DEF QMInd, Placed, Lists
<1>4. \A t \in TaskId : task[t].status = "pending" => task[t].queue_name \in Queues
  BY DEF QMInd, ObjectsOK, Task, NoTask
<1>5. Queued = {t \in TaskId : task[t].status = "pending"}
  BY <1>3, <1>4 DEF Queued, Pending
<1> QED BY <1>1, <1>2, <1>5 DEF TasksOK, QMInd, ObjectsOK

-----------------------------------------------------------------------------
(* CONSUME of a named queue and CONSUME of "*", when there is a task: the  *)
(* head of some queue q goes to worker w.                                  *)
Pops(w, q) ==
  /\ w \in up /\ executing[w] = None
  /\ PopLeft(q, w)
  /\ created' \in Seq(Queues)
  /\ HandOut(w, Head(queues[q]))

LEMMA ConsumePops ==
  ASSUME QMInd, NEW w \in Workers, NEW q \in Queues, HandleConsume(w, q)
  PROVE  Pops(w, q)
BY EnsureQueueType DEF HandleConsume, Dequeue, Pops, QMInd, ObjectsOK

LEMMA ConsumeAnyPops ==
  ASSUME QMInd, NEW w \in Workers, HandleConsumeAny(w)
  PROVE  \E q \in Queues : Pops(w, q)
<1>1. PICK i \in DOMAIN created : PopLeft(created[i], w)
  BY DEF HandleConsumeAny, DequeueAny
<1>2. created[i] \in Queues
  BY <1>1, ElementOfSeq DEF QMInd, ObjectsOK
<1>3. PICK q \in Queues : queues'[q] # queues[q] /\ HandOut(w, Head(queues[q]))
  BY DEF HandleConsumeAny
<1>4. q = created[i]
  BY <1>1, <1>2, <1>3 DEF PopLeft, QMInd, Placed
<1>5. created' \in Seq(Queues)
  BY DEF HandleConsumeAny, DequeueAny, QMInd, ObjectsOK
<1> QED BY <1>1, <1>2, <1>3, <1>4, <1>5 DEF HandleConsumeAny, Pops

BrokerInd == QMInd /\ WRTypeOK /\ TablesOK /\ HistoryOK

LEMMA BrokerIndType == BrokerInd => BrokerTypeOK
BY IndType DEF BrokerInd, TablesOK, HistoryOK, BrokerTypeOK

(* The rows of a start with an empty task table.                           *)
LEMMA BrokerInitInd == BrokerInit => BrokerInd
<1> SUFFICES ASSUME BrokerInit PROVE BrokerInd
  OBVIOUS
<1> DEFINE rows == [t \in {} |-> NoRow]
<1>1. /\ DOMAIN rows \subseteq TaskId
      /\ \A t \in DOMAIN rows : /\ rows[t].queue_name \in Queues
                                /\ rows[t].payload \in Payload
                                /\ rows[t].attempts \in Nat
      /\ TaskId \ DOMAIN rows = TaskId
  OBVIOUS
<1>2. Recovered(rows, queues, created, task)
  BY DEF BrokerInit
<1> HIDE DEF rows
<1>3. /\ queues = [q \in Queues |-> queues[q]]
      /\ \A q \in Queues : Lists(queues[q], Pending(task, q))
      /\ created \in Seq(Queues)
      /\ task \in [TaskId -> Task \cup {NoTask}]
      /\ \A t \in TaskId : task[t] = NoTask
      /\ \A t \in TaskId : /\ task[t].status \in {"pending", "none"}
                           /\ task[t].assigned_worker = None
  BY <1>1, <1>2, RecoveredLists
<1>4. nextId = 1 /\ nextId \in 1..(MaxTasks + 1)
  BY TypesAssumption DEF BrokerInit
<1>5. ObjectsOK
  BY <1>3, <1>4 DEF ObjectsOK
<1>6. \A st \in {"in_flight", "done", "dead_lettered"} : Having(task, st) = {}
  BY <1>3 DEF Having
<1>7. QMInd
  BY <1>3, <1>5, <1>6, ListsEmpty, Zenon DEF QMInd, Placed, BrokerInit, DLQInit
<1>8. WRTypeOK
  BY WRAssumption DEF BrokerInit, WRInit, WRTypeOK
<1>9. TablesOK
  BY DEF BrokerInit, WALInit, TablesOK, WALTypeOK
<1>10. HistoryOK
  BY BrokerAssumption DEF BrokerInit, HistoryOK
<1> QED BY <1>7, <1>8, <1>9, <1>10 DEF BrokerInd

(* A start after a crash, from the rows of the task table.                 *)
LEMMA RestartEffect ==
  ASSUME BrokerInd, Restart
  PROVE  QMInd' /\ Reloaded
<1> DEFINE rows == [t \in LoadPendingTasks |-> walTasks[t]]
<1>1. DOMAIN rows = LoadPendingTasks /\ LoadPendingTasks \subseteq TaskId
  BY DEF LoadPendingTasks
<1>2. \A t \in LoadPendingTasks : rows[t] = walTasks[t] /\ walTasks[t] \in TaskRow
  BY DEF LoadPendingTasks, BrokerInd, TablesOK, WALTypeOK
<1>3. Recovered(rows, queues', created', task')
  BY DEF Restart
<1> HIDE DEF rows
<1>4. \A t \in DOMAIN rows : /\ rows[t].queue_name \in Queues
                             /\ rows[t].payload \in Payload
                             /\ rows[t].attempts \in Nat
  BY <1>1, <1>2 DEF TaskRow
<1>5. /\ queues' = [q \in Queues |-> queues'[q]]
      /\ \A q \in Queues : Lists(queues'[q], Pending(task', q))
      /\ created' \in Seq(Queues)
      /\ task' \in [TaskId -> Task \cup {NoTask}]
      /\ \A t \in LoadPendingTasks : /\ task'[t].status = "pending"
                                     /\ task'[t].queue_name = rows[t].queue_name
                                     /\ task'[t].payload = rows[t].payload
                                     /\ task'[t].attempts = rows[t].attempts
      /\ \A t \in TaskId \ LoadPendingTasks : task'[t] = NoTask
      /\ \A t \in TaskId : /\ task'[t].status \in {"pending", "none"}
                           /\ task'[t].assigned_worker = None
  BY <1>1, <1>3, <1>4, RecoveredLists
<1>6. /\ nextId' = nextId /\ nextId \in 1..(MaxTasks + 1)
      /\ in_flight' = {} /\ completed' = {} /\ dlq' = << >>
  BY DEF Restart, BrokerInd, QMInd, ObjectsOK
<1>7. \A t \in TaskId : t >= nextId => t \notin LoadPendingTasks
  BY DEF LoadPendingTasks, BrokerInd, TablesOK
<1>8. ObjectsOK'
  BY <1>5, <1>6, <1>7 DEF ObjectsOK
<1>9. \A st \in {"in_flight", "done", "dead_lettered"} : Having(task', st) = {}
  BY <1>5 DEF Having
<1>10. QMInd'
  BY <1>5, <1>6, <1>8, <1>9, ListsEmpty, Zenon DEF QMInd, Placed
<1> QED BY <1>2, <1>5, <1>10 DEF Reloaded

-----------------------------------------------------------------------------
(* A step of the broker keeps the invariant of the QueueManager and has    *)
(* the effects that BrokerStepProofs relies on, one lemma per handler.     *)
Steps == QMInd' /\ BrokerMoves

LEMMA BrokerIndTyped == BrokerInd => Typed
BY IndTasks DEF BrokerInd, Typed

LEMMA ProduceSteps ==
  ASSUME BrokerInd, NEW q \in Queues, HandleProduce(q)
  PROVE  Steps
<1>1. nextId \in Payload
  BY TypesAssumption DEF HandleProduce, Enqueue, BrokerInd, QMInd, ObjectsOK, Payload
<1>2. Created(q, nextId) /\ QMInd'
  BY <1>1, EnqueueInd, EnqueueEffect DEF HandleProduce, BrokerInd
<1> QED BY <1>2 DEF Steps, BrokerMoves

LEMMA ConsumeSteps ==
  ASSUME BrokerInd, NEW w \in Workers,
         HandleConsumeAny(w) \/ \E q \in Queues : HandleConsume(w, q)
  PROVE  Steps
<1>1. PICK q \in Queues : Pops(w, q)
  BY ConsumePops, ConsumeAnyPops DEF BrokerInd
<1>2. QMInd' /\ HandedOut(Head(queues[q]))
  BY <1>1, PopLeftInd, PopLeftEffect DEF Pops, BrokerInd
<1>3. Head(queues[q]) \in TaskId /\ Delivers(w, Head(queues[q]))
  BY <1>1, <1>2 DEF Pops, Delivers, HandedOut
<1> QED BY <1>2, <1>3 DEF Steps, BrokerMoves

LEMMA ReportSteps ==
  ASSUME BrokerInd, NEW w \in Workers, HandleAck(w) \/ HandleNack(w)
  PROVE  Steps
<1> DEFINE t == executing[w]
<1>1. t \in TaskId
  BY Zenon DEF HandleAck, HandleNack, BrokerInd, HistoryOK
<1>2. CASE t \notin in_flight
  <2>1. UNCHANGED qmVars
    BY <1>2, Zenon DEF HandleAck, HandleNack, Acknowledge, NegativeAcknowledge
  <2>2. QMInd'
    BY <2>1 DEF BrokerInd, QMInd, ObjectsOK, Placed, qmVars
  <2> QED BY <1>2, <2>2 DEF Steps, BrokerMoves
<1>3. CASE t \in in_flight /\ HandleAck(w)
  <2>1. Acknowledge(t)
    BY <1>3 DEF HandleAck
  <2>2. QMInd' /\ Completed(t)
    BY <1>1, <2>1, AcknowledgeInd, AcknowledgeEffect, Zenon DEF BrokerInd
  <2> QED BY <1>3, <2>2 DEF Steps, BrokerMoves
<1>4. CASE t \in in_flight /\ HandleNack(w)
  <2>1. NegativeAcknowledge(t)
    BY <1>4, Zenon DEF HandleNack
  <2>2. QMInd' /\ Failed(t)
    BY <1>1, <2>1, NegativeAcknowledgeInd, NegativeAcknowledgeEffect DEF BrokerInd
  <2> QED BY <1>4, <2>2 DEF Steps, BrokerMoves
<1> QED BY <1>2, <1>3, <1>4

LEMMA ReplaySteps ==
  ASSUME BrokerInd, NEW t \in TaskId, HandleDlqReplay(t)
  PROVE  Steps
<1>1. CASE wal_enabled
  <2>1. ReplayDlqTask(t) /\ Enqueue(walDlq[t].queue_name, walDlq[t].payload)
    BY <1>1 DEF HandleDlqReplay
  <2>2. walDlq[t].queue_name \in Queues /\ walDlq[t].payload \in Payload
    BY <2>1 DEF ReplayDlqTask, BrokerInd, TablesOK, WALTypeOK, DlqRow
  <2>3. QMInd' /\ Created(walDlq[t].queue_name, walDlq[t].payload)
    BY <2>1, <2>2, EnqueueInd, EnqueueEffect DEF BrokerInd
  <2> QED BY <1>1, <2>3 DEF Steps, BrokerMoves, Replays
<1>2. CASE ~wal_enabled
  <2>1. QMInd' /\ Revived({t})
    BY <1>2, DlqRetryInd, DlqRetryEffect DEF HandleDlqReplay, BrokerInd
  <2> QED BY <1>2, <2>1, Zenon DEF Steps, BrokerMoves, Replays
<1> QED BY <1>1, <1>2

LEMMA PurgeSteps ==
  ASSUME BrokerInd, NEW Q \in SUBSET Queues, HandleDlqPurge(Q)
  PROVE  Steps
<1>1. CASE wal_enabled
  <2>1. UNCHANGED qmVars
    BY <1>1 DEF HandleDlqPurge
  <2>2. QMInd'
    BY <2>1 DEF BrokerInd, QMInd, ObjectsOK, Placed, qmVars
  <2>3. Purges(Q)
    BY <1>1, <2>1, Zenon DEF Purges, qmVars
  <2> QED BY <2>2, <2>3 DEF Steps, BrokerMoves
<1>2. CASE ~wal_enabled
  <2>1. \/ Q = Queues /\ DlqPurge
        \/ \E q \in Queues : Q = {q} /\ DlqPurgeQueue(q)
    BY <1>2 DEF HandleDlqPurge
  <2>2. QMInd'
    BY <2>1, DlqPurgeInd, DlqRemoveInd, Zenon DEF BrokerInd, DlqPurge, DlqPurgeQueue, DlqRemove
  <2>3. Purges(Q)
    BY <1>2, <2>1, DropEffect, Zenon DEF Purges, BrokerInd
  <2> QED BY <2>2, <2>3 DEF Steps, BrokerMoves
<1> QED BY <1>1, <1>2

LEMMA OtherSteps ==
  ASSUME BrokerInd, \/ ReplayDlqHandler \/ ResetHandler \/ BrokerEvict
                    \/ RegistryOnly \/ CrashAndRecover
                    \/ \E t \in TaskId : CrashDuringReplay(t)
  PROVE  Steps
<1>1. CASE ReplayDlqHandler
  BY <1>1, DlqRetryAllInd, DlqRetryAllEffect, Zenon
     DEF ReplayDlqHandler, BrokerInd, Steps, BrokerMoves
<1>2. CASE ResetHandler
  BY <1>2, ResetInd DEF ResetHandler, BrokerInd, Steps, BrokerMoves
<1>3. CASE BrokerEvict
  BY <1>3, RequeueEachInd, RequeueEachEffect DEF BrokerEvict, BrokerInd, Steps, BrokerMoves
<1>4. CASE RegistryOnly
  <2>1. UNCHANGED qmVars \/ \E q \in Queues : DequeueEmpty(q)
    BY <1>4 DEF RegistryOnly, BrokerTick, HandleRegister, HandleHeartbeat,
                WorkerLost, ExecutionEnds, HandleConsumeEmpty
  <2>2. ASSUME UNCHANGED qmVars PROVE QMInd'
    BY <2>2 DEF BrokerInd, QMInd, ObjectsOK, Placed, qmVars
  <2>3. QMInd'
    BY <2>1, <2>2, DequeueEmptyInd, Zenon DEF BrokerInd, DequeueEmpty
  <2> QED BY <1>4, <2>3 DEF Steps, BrokerMoves
<1>5. ASSUME Restart, \/ UNCHANGED walDlq
                      \/ wal_enabled /\ \E t \in TaskId : ReplayDlqTask(t)
      PROVE  Steps
  BY <1>5, RestartEffect DEF Crashes, Steps, BrokerMoves
<1> QED BY <1>1, <1>2, <1>3, <1>4, <1>5, Zenon DEF CrashAndRecover, CrashDuringReplay

LEMMA BrokerSteps ==
  ASSUME BrokerInd, BrokerNext
  PROVE  Steps
BY ProduceSteps, ConsumeSteps, ReportSteps, ReplaySteps, PurgeSteps, OtherSteps,
   Zenon DEF BrokerNext, RegistryOnly

(* Every step of the broker preserves the types.                           *)
LEMMA BrokerStepInd == BrokerInd /\ [BrokerNext]_brokerVars => BrokerInd'
<1>1. ASSUME BrokerInd, UNCHANGED brokerVars PROVE BrokerInd'
  BY <1>1 DEF brokerVars, BrokerInd, QMInd, ObjectsOK, Placed, WRTypeOK,
              TablesOK, WALTypeOK, HistoryOK, NoRow
<1>2. ASSUME BrokerInd, BrokerNext PROVE BrokerInd'
  BY <1>2, BrokerSteps, BrokerIndTyped, TypeStep, Zenon DEF Steps, RestOK, BrokerInd
<1> QED BY <1>1, <1>2, Zenon

(* The composition of the broker's components stays in range: after any    *)
(* requests, evictions, failing writes, crashes and recoveries, the        *)
(* queues, the Task objects, the registry, the rows of both tables and     *)
(* what each worker executes are of the form the code expects.             *)
THEOREM BrokerTypeCorrect == BrokerSpec => []BrokerTypeOK
BY BrokerInitInd, BrokerStepInd, BrokerIndType, PTL DEF BrokerSpec

-----------------------------------------------------------------------------
(* Who holds a task in flight.                                             *)

LEMMA HoldersNext ==
  ASSUME MaxSilence <= HEARTBEAT_TIMEOUT
  PROVE  BrokerInd /\ HoldersInv /\ [BrokerNext]_brokerVars => HoldersInv'
<1>1. ASSUME HoldersInv, UNCHANGED brokerVars PROVE HoldersInv'
  BY <1>1, Zenon DEF brokerVars, HoldersInv, LiveInv
<1>2. ASSUME BrokerInd, HoldersInv, BrokerNext PROVE HoldersInv'
  BY <1>2, BrokerSteps, BrokerIndTyped, HoldersStep, Zenon DEF Steps
<1> QED BY <1>1, <1>2

LEMMA OwnedNext ==
  ASSUME ~ReuseIds
  PROVE  BrokerInd /\ HoldersInv /\ OwnedInv /\ [BrokerNext]_brokerVars => OwnedInv'
<1>1. ASSUME OwnedInv, UNCHANGED brokerVars PROVE OwnedInv'
  BY <1>1 DEF brokerVars, OwnedInv
<1>2. ASSUME BrokerInd, HoldersInv, OwnedInv, BrokerNext PROVE OwnedInv'
  BY <1>2, BrokerSteps, BrokerIndTyped, OwnedStep, Zenon DEF Steps
<1> QED BY <1>1, <1>2, Zenon

(* At the start no worker is known and no task exists.                     *)
LEMMA HoldersInit == BrokerInit => HoldersInv /\ OwnedInv
<1> SUFFICES ASSUME BrokerInit PROVE HoldersInv /\ OwnedInv
  OBVIOUS
<1>1. in_flight = {} /\ QMInd
  BY BrokerInitInd DEF BrokerInit, BrokerInd
<1>2. \A t \in TaskId : task[t].status # "in_flight"
  BY <1>1 DEF QMInd, Placed, Having
<1> QED BY <1>2 DEF BrokerInit, WRInit, HoldersInv, LiveInv, OwnedInv

(* If connected workers are never silent beyond the timeout, the broker    *)
(* hands a task to a second process while the first still executes it only *)
(* when the first has lost its connection, and with it its entry in the    *)
(* registry, whatever is requeued after a failure, an eviction, a reset or *)
(* a restart of the broker.                                                *)
THEOREM BrokerOneRunner == BrokerSpec => []OneRunner
<1>1. CASE MaxSilence <= HEARTBEAT_TIMEOUT
  <2>1. BrokerInd /\ HoldersInv => OneRunner
    <3>1. BrokerInd /\ HoldersInv => \A w \in Workers :
            KnownRun(w) => executing[w] \in in_flight_tasks[w]
      BY Zenon DEF HoldersInv, KnownRun
    <3> QED BY <3>1, Zenon DEF HoldersInv, OneRunner
  <2> QED BY <1>1, <2>1, BrokerInitInd, BrokerStepInd, HoldersInit, HoldersNext,
             PTL DEF BrokerSpec
<1>2. CASE ~(MaxSilence <= HEARTBEAT_TIMEOUT)
  <2>1. OneRunner
    BY <1>2 DEF OneRunner
  <2> QED BY <2>1, PTL
<1> QED BY <1>1, <1>2

(* If moreover no id is registered again before its eviction, every task   *)
(* in flight is listed for a registered worker, whose eviction requeues it *)
(* if the worker falls silent: no death of a worker, failing write or      *)
(* crash of the broker leaves a task in flight that nobody answers for.    *)
THEOREM BrokerNoOrphan ==
  ASSUME ~ReuseIds, MaxSilence <= HEARTBEAT_TIMEOUT
  PROVE  BrokerSpec => []NoOrphanInFlight
<1>1. BrokerInd /\ OwnedInv => NoOrphanInFlight
  BY BrokerIndTyped DEF Typed, TasksOK, OwnedInv, NoOrphanInFlight
<1> QED BY <1>1, BrokerInitInd, BrokerStepInd, HoldersInit, HoldersNext,
           OwnedNext, PTL DEF BrokerSpec

-----------------------------------------------------------------------------
(* The tables and the memory.                                              *)

LEMMA DurableInit == BrokerInit => Linked /\ CarryInv /\ Kept /\ Dated
<1> SUFFICES ASSUME BrokerInit PROVE Linked /\ CarryInv /\ Kept /\ Dated
  OBVIOUS
<1>1. \A t \in TaskId : walTasks[t] = NoRow /\ walDlq[t] = NoRow
  BY DEF BrokerInit, WALInit
<1>2. \A t \in TaskId : task[t] = NoTask
  BY BrokerInitInd DEF BrokerInit, BrokerInd, QMInd, ObjectsOK, TaskId
<1>3. acked = {} /\ removed = {} /\ answered = {}
  BY DEF BrokerInit
<1>4. Linked /\ CarryInv
  BY <1>1, <1>2, <1>3 DEF Linked, LinkedAt, CarryInv, Carries, MayRun, Runnable, NoTask
<1>5. Kept /\ Dated
  BY <1>1, <1>2, <1>3 DEF Kept, KeptAt, Dated, NoTask
<1> QED BY <1>4, <1>5

(* Every entry of the in-memory DLQ is within reach of _handle_nack's      *)
(* peek, which takes the first PeekLimit (100) of them.                    *)
ShortDLQ == Len(dlq) <= PeekLimit

LEMMA ShortDLQPeek == QMInd /\ ShortDLQ => Peek(PeekLimit) = Range(dlq)
<1> SUFFICES ASSUME QMInd, ShortDLQ PROVE Peek(PeekLimit) = Range(dlq)
  OBVIOUS
<1>1. dlq \in Seq(TaskId)
  BY DEF QMInd, Placed, Lists, Having
<1>2. /\ DOMAIN dlq = 1..Len(dlq) /\ Len(dlq) \in Nat
      /\ \A j \in DOMAIN dlq : j <= PeekLimit
  BY <1>1, BrokerAssumption DEF ShortDLQ
<1> QED BY <1>2 DEF Peek, Range

(* Every step with what it does to the tables.                             *)
Logged ==
  /\ Typed /\ TasksOK' /\ HistoryOK'
  /\ DurableMoves \/ (DashboardReplay /\ ReplayedAll)
  /\ ShortDLQ' => Peek(PeekLimit)' = Range(dlq')

LEMMA LoggedNext == BrokerInd /\ [BrokerNext]_brokerVars => Logged
<1> SUFFICES ASSUME BrokerInd, [BrokerNext]_brokerVars PROVE Logged
  BY Zenon
<1>1. (QMInd => TasksOK)' /\ (QMInd /\ ShortDLQ => Peek(PeekLimit) = Range(dlq))'
  BY IndTasks, ShortDLQPeek, PTL
<1>2. Typed /\ BrokerInd'
  BY BrokerIndTyped, BrokerStepInd, Zenon
<1>3. ASSUME UNCHANGED brokerVars PROVE DurableMoves
  BY <1>3 DEF brokerVars, Quiet, durable, history, DurableMoves
<1>4. ASSUME BrokerNext PROVE DurableMoves \/ (DashboardReplay /\ ReplayedAll)
  BY <1>2, <1>4, BrokerSteps, LoggedEffects, Zenon DEF Steps
<1> QED BY <1>1, <1>2, <1>3, <1>4, Zenon DEF BrokerInd, Logged

LEMMA PlainNext ==
  ASSUME ~DashboardReplay
  PROVE  BrokerInd /\ [BrokerNext]_brokerVars => Logged /\ DurableMoves
BY LoggedNext, Zenon DEF Logged

(* What of it holds beside the dashboard's replay-all too.                 *)
LEMMA KeptNext ==
  /\ BrokerInd /\ Kept /\ [BrokerNext]_brokerVars /\ ShortDLQ' => Kept'
  /\ BrokerInd /\ Dated /\ [BrokerNext]_brokerVars => Dated'
BY LoggedNext, KeptStep, DatedStep, Zenon DEF Logged

LEMMA DurableNext ==
  ASSUME ~DashboardReplay
  PROVE  BrokerInd /\ Linked /\ CarryInv /\ [BrokerNext]_brokerVars
           => Linked' /\ CarryInv'
BY PlainNext, LinkedStep, CarryStep, Zenon DEF Logged

(* The tasks of the running broker carry their payloads.                   *)
LEMMA LiveCarries ==
  ASSUME BrokerInd, NEW t \in Live
  PROVE  /\ t \in TaskId /\ task[t].payload \in Payload
         /\ MayRun(t, task[t].payload) /\ Carries(t, task[t].payload)
<1>1. t \in TaskId /\ task[t].status \in {"pending", "in_flight"}
  BY BrokerIndTyped, UndurableTasks, Zenon DEF Typed, UndurableSets
<1>2. task[t].payload \in Payload
  BY <1>1 DEF BrokerInd, QMInd, ObjectsOK, Task, NoTask
<1> QED BY <1>1, <1>2 DEF MayRun, Carries, Runnable

(* Once the broker has answered "ok" to the ACK of a task, its payload is  *)
(* never queued or handed out again, whatever evictions, late answers,     *)
(* replays, failing writes, crashes and recoveries follow, as long as the  *)
(* dashboard's replay-all is not used beside a WAL.                        *)
THEOREM BrokerAckedNeverRunsAgain ==
  ASSUME ~DashboardReplay
  PROVE  BrokerSpec => []AckedNeverRunsAgain
<1>1. BrokerInd /\ CarryInv => AckedNeverRunsAgain
  BY LiveCarries, Zenon DEF CarryInv, Submission, AckedNeverRunsAgain
<1> QED BY <1>1, BrokerInitInd, BrokerStepInd, DurableInit, DurableNext,
           PTL DEF BrokerSpec

(* A payload that DLQ_PURGE or a reset removed is never queued or handed   *)
(* out again, by a restart or otherwise, if the dashboard's replay-all is  *)
(* not used beside a WAL.                                                  *)
THEOREM BrokerPurgedStaysPurged ==
  ASSUME ~DashboardReplay
  PROVE  BrokerSpec => []PurgedStaysPurged
<1>1. BrokerInd /\ CarryInv => PurgedStaysPurged
  BY LiveCarries DEF CarryInv, Submission, PurgedStaysPurged
<1> QED BY <1>1, BrokerInitInd, BrokerStepInd, DurableInit, DurableNext,
           PTL DEF BrokerSpec

(* A payload has at most one durable row, in one of the two tables: a      *)
(* retry, a dead letter, a replay under a new id and a recovery move the   *)
(* row and never duplicate it.                                             *)
THEOREM BrokerOneDurableCopy ==
  ASSUME ~DashboardReplay
  PROVE  BrokerSpec => []OneDurableCopy
<1>1. ASSUME Linked, CarryInv PROVE OneDurableCopy
  <2> DEFINE TaskIds(p) == {u \in TaskId : walTasks[u] # NoRow /\ walTasks[u].payload = p}
             DlqIds(p)  == {u \in TaskId : walDlq[u] # NoRow /\ walDlq[u].payload = p}
             Holds(p)   == {<<"tasks", t>> : t \in TaskIds(p)}
                             \cup {<<"dlq", t>> : t \in DlqIds(p)}
  <2>1. SUFFICES ASSUME NEW p \in Payload \ {0} PROVE Cardinality(Holds(p)) <= 1
    BY DEF OneDurableCopy
  <2>2. \A t, u \in TaskIds(p) \cup DlqIds(p) : t = u
    BY <1>1 DEF CarryInv, Carries, Submission
  <2>3. \A t \in TaskIds(p) : t \notin DlqIds(p)
    BY <1>1 DEF Linked, LinkedAt
  <2>4. \A x, y \in Holds(p) : x = y
    BY <2>2, <2>3
  <2> QED BY <2>4, AtMostOne
<1> QED BY <1>1, BrokerInitInd, BrokerStepInd, DurableInit, DurableNext,
           PTL DEF BrokerSpec

LEMMA WalTracksNext ==
  ASSUME ~DashboardReplay
  PROVE  BrokerInd /\ Linked /\ WalTracksMemory /\ [BrokerNext]_brokerVars
           => WalTracksMemory'
<1> SUFFICES ASSUME BrokerInd, Linked, WalTracksMemory, [BrokerNext]_brokerVars,
                    wal_enabled'
             PROVE  WalTracksMemory'
  BY Zenon DEF WalTracksMemory
<1>1. (TasksOK => UndurableSets)'
  BY UndurableTasks, PTL
<1>2. Typed /\ DurableMoves /\ UndurableSets /\ UndurableSets'
  BY <1>1, PlainNext, UndurableTasks, Zenon DEF Logged, Typed
<1>3. wal_enabled /\ wal_failures \in Nat
  BY <1>2 DEF DurableMoves, Typed, HistoryOK
<1>4. LoadedLive
  BY <1>2, <1>3, Zenon DEF WalTracksMemory, UndurableSets, LoadedLive, LoadPendingTasks
<1>5. LoadedLive' /\ UndurableBound
  BY <1>2, <1>3, <1>4, LoadedLiveStep, UndurableStep, Zenon
<1> DEFINE U == {t \in TaskId : UndurableAt(t)}
           V == {t \in TaskId : UndurableAt(t)'}
<1>6. \/ V \subseteq U /\ wal_failures' \in {wal_failures, wal_failures + 1}
      \/ \E x : V \subseteq U \cup {x} /\ wal_failures' = wal_failures + 1
  BY <1>5 DEF UndurableBound
<1>7. Undurable = U /\ Undurable' = V
  BY <1>2, Zenon DEF UndurableSets
<1>8. Cardinality(V) <= wal_failures'
  <2>1. U \in SUBSET TaskId /\ V \in SUBSET TaskId /\ Cardinality(U) <= wal_failures
    BY <1>3, <1>7, Zenon DEF WalTracksMemory
  <2> HIDE DEF U, V
  <2> QED BY <1>3, <1>6, <2>1, CountGrows, Zenon
<1>9. wal_failures' = 0 => LoadPendingTasks' \subseteq Live'
  BY <1>2, <1>5, Zenon DEF UndurableSets, LoadedLive, LoadPendingTasks
<1> QED BY <1>7, <1>8, <1>9, Zenon DEF WalTracksMemory

LEMMA TablesEmptyInit ==
  ASSUME BrokerInit
  PROVE  Live = {} /\ Undurable = {} /\ LoadPendingTasks = {} /\ answered = {}
<1>1. \A t \in TaskId : walTasks[t] = NoRow /\ task[t] = NoTask
  BY BrokerInitInd DEF BrokerInit, WALInit, BrokerInd, QMInd, ObjectsOK, TaskId
<1>2. TasksOK
  BY BrokerInitInd, IndTasks DEF BrokerInd
<1> QED BY <1>1, <1>2, UndurableTasks
        DEF UndurableSets, UndurableAt, NoTask, LoadPendingTasks, BrokerInit

(* With a WAL, what a restart would load is what the running broker has to *)
(* do, each task with its queue, payload and attempts, after any sequence  *)
(* of requests, evictions, crashes and recoveries; every write that fails  *)
(* leaves at most the one task it was about behind.                        *)
THEOREM BrokerWalTracksMemory ==
  ASSUME ~DashboardReplay
  PROVE  BrokerSpec => []WalTracksMemory
<1>1. BrokerInit => WalTracksMemory
  BY TablesEmptyInit, FS_EmptySet DEF WalTracksMemory, BrokerInit
<1> QED BY <1>1, BrokerInitInd, BrokerStepInd, DurableInit, DurableNext,
           WalTracksNext, PTL DEF BrokerSpec

-----------------------------------------------------------------------------
LEMMA LossNext ==
  BrokerInd /\ Kept /\ Dated /\ LossBoundedByFaults /\ [BrokerNext]_brokerVars /\ ShortDLQ'
    => LossBoundedByFaults'
<1> SUFFICES ASSUME BrokerInd, Kept, Dated, LossBoundedByFaults,
                    [BrokerNext]_brokerVars, ShortDLQ', wal_enabled'
             PROVE  LossBoundedByFaults'
  BY Zenon DEF LossBoundedByFaults
<1>1. (HistoryOK => Lost = {p \in TaskId : LostAt(p)})'
  BY LostPayloads, PTL
<1>2. /\ Typed /\ TasksOK' /\ HistoryOK /\ HistoryOK'
      /\ DurableMoves \/ ReplayedAll
      /\ Peek(PeekLimit)' = Range(dlq')
  BY LoggedNext, Zenon DEF Logged, Typed
<1>3. wal_enabled /\ Faults \in Nat
  <2>1. wal_enabled' = wal_enabled
    BY <1>2, Zenon DEF DurableMoves, ReplayedAll
  <2>2. crashes \in Nat /\ wal_failures \in Nat
    BY <1>2, BrokerAssumption DEF HistoryOK
  <2> QED BY <2>1, <2>2 DEF Faults
<1>4. LostBound
  BY <1>2, <1>3, LostStep, Zenon
<1> DEFINE L == {p \in TaskId : LostAt(p)}
           M == {p \in TaskId : LostAt(p)'}
<1>5. \/ M \subseteq L /\ Faults' \in {Faults, Faults + 1}
      \/ \E x : M \subseteq L \cup {x} /\ Faults' = Faults + 1
  BY <1>4 DEF LostBound
<1>6. Lost = L /\ Lost' = M
  BY <1>1, <1>2, LostPayloads, Zenon
<1>7. Cardinality(M) <= Faults'
  <2>1. L \in SUBSET TaskId /\ M \in SUBSET TaskId /\ Cardinality(L) <= Faults
    BY <1>3, <1>6, Zenon DEF LossBoundedByFaults, Faults
  <2> HIDE DEF L, M
  <2> QED BY <1>3, <1>5, <2>1, CountGrows, Zenon
<1> QED BY <1>6, <1>7, Zenon DEF LossBoundedByFaults, Faults

(* With a WAL, an accepted task leaves the disk only by a crash or a       *)
(* failing write, at most one task for each, as long as the in-memory DLQ  *)
(* stays within the limit of _handle_nack's peek.  (Beyond the limit the   *)
(* dead letter's row has no payload.)  The dashboard's replay-all, which   *)
(* leaves the table behind, loses nothing: the row of the dead letter      *)
(* stays until DLQ_REPLAY or DLQ_PURGE takes it.                           *)
THEOREM BrokerLossBounded == BrokerSpec /\ []ShortDLQ => []LossBoundedByFaults
<1>1. BrokerInit => LossBoundedByFaults
  <2>1. BrokerInit => Lost = {} /\ crashes + wal_failures = 0
    BY TablesEmptyInit DEF Lost, Owed, BrokerInit
  <2> QED BY <2>1, FS_EmptySet DEF LossBoundedByFaults
<1> QED BY <1>1, BrokerInitInd, BrokerStepInd, DurableInit, KeptNext, LossNext, PTL
        DEF BrokerSpec

-----------------------------------------------------------------------------
(* The tables implement the ledger.                                        *)
NoFailedWrite == wal_failures = 0

LEMMA LedgerInitial == BrokerInit => Settled /\ DurableLedger!LedgerInit
<1> SUFFICES ASSUME BrokerInit PROVE Settled /\ DurableLedger!LedgerInit
  OBVIOUS
<1>1. \A t \in TaskId : walTasks[t] = NoRow /\ walDlq[t] = NoRow /\ task[t] = NoTask
  BY BrokerInitInd DEF BrokerInit, WALInit, BrokerInd, QMInd, ObjectsOK, TaskId
<1>2. Settled
  BY <1>1 DEF Settled, SettledAt, NoTask
<1>3. TablesTell
  BY DurableInit, TablesTold
<1>4. \A p \in TaskId : LedgerOfTables[p] = "new"
  BY <1>3, TablesEmptyInit DEF TablesTell
<1> QED BY <1>2, <1>3, <1>4, Zenon DEF TablesTell, DurableLedger!LedgerInit

LEMMA LedgerNextStep ==
  ASSUME ~DashboardReplay
  PROVE  /\ BrokerInd /\ Linked /\ CarryInv /\ Settled
         /\ [BrokerNext]_brokerVars
         /\ Linked' /\ CarryInv' /\ ShortDLQ' /\ NoFailedWrite /\ NoFailedWrite'
         => Settled' /\ [DurableLedger!LedgerNext]_LedgerOfTables
<1> SUFFICES ASSUME BrokerInd, Linked, CarryInv, Settled, [BrokerNext]_brokerVars,
                    Linked', CarryInv', ShortDLQ', NoFailedWrite, NoFailedWrite'
             PROVE  /\ Settled'
                    /\ DurableLedger!LedgerNext \/ LedgerOfTables' = LedgerOfTables
  BY Zenon
<1>1. (Linked /\ CarryInv => TablesTell)'
  BY TablesTold, PTL
<1>2. /\ Typed /\ DurableMoves /\ TasksOK' /\ Peek(PeekLimit)' = Range(dlq')
      /\ TablesTell /\ TablesTell'
  BY <1>1, PlainNext, TablesTold, Zenon DEF Logged
<1>3. wal_failures' = wal_failures
  BY DEF NoFailedWrite
<1> QED BY <1>2, <1>3, TablesStep, Zenon

(* The two tables alone implement TaskLedger, payload by payload, through  *)
(* evictions, late answers, replays under a new id, crashes between any    *)
(* two handlers or commits, and recoveries: in every behaviour in which no *)
(* write fails, the in-memory DLQ stays within the limit of the peek and   *)
(* the dashboard's replay-all is not used, each step of the broker is a    *)
(* step of the ledger or none.                                             *)
THEOREM BrokerTablesImplementLedger ==
  ASSUME ~DashboardReplay
  PROVE  BrokerSpec /\ []ShortDLQ /\ []NoFailedWrite => DurableLifecycle
BY BrokerInitInd, BrokerStepInd, DurableInit, DurableNext, LedgerInitial,
   LedgerNextStep, PTL DEF BrokerSpec, DurableLifecycle, DurableLedger!LedgerSpec

-----------------------------------------------------------------------------
(* What keeps the three promises that the code breaks otherwise.           *)

(* Every dead letter in the DLQ table still has the payload of its task,   *)
(* through retries, replays (the dashboard's too) and recoveries, as long  *)
(* as the in-memory DLQ stays within the limit of _handle_nack's peek: the *)
(* limit is the only way to lose it.                                       *)
THEOREM BrokerDeadLettersKeepPayload ==
  BrokerSpec /\ []ShortDLQ => []DeadLettersKeepPayload
<1>1. Kept => DeadLettersKeepPayload
  BY DEF Kept, KeptAt, DeadLettersKeepPayload
<1> QED BY <1>1, BrokerInitInd, BrokerStepInd, DurableInit, KeptNext, PTL DEF BrokerSpec

LEMMA NothingLostNext ==
  /\ BrokerInd /\ Kept /\ Dated /\ NothingLost
  /\ [BrokerNext]_brokerVars /\ [ReplayIsWhole]_brokerVars
  /\ ShortDLQ' /\ NoFailedWrite /\ NoFailedWrite'
  => NothingLost'
<1> SUFFICES ASSUME BrokerInd, Kept, Dated, NothingLost, [BrokerNext]_brokerVars,
                    [ReplayIsWhole]_brokerVars, ShortDLQ', NoFailedWrite,
                    NoFailedWrite', wal_enabled'
             PROVE  NothingLost'
  BY Zenon DEF NothingLost
<1>1. (HistoryOK => Lost = {p \in TaskId : LostAt(p)})'
  BY LostPayloads, PTL
<1>2. /\ Typed /\ TasksOK' /\ HistoryOK /\ HistoryOK'
      /\ DurableMoves \/ ReplayedAll
      /\ Peek(PeekLimit)' = Range(dlq')
  BY LoggedNext, Zenon DEF Logged, Typed
<1>3. wal_enabled /\ wal_failures' = wal_failures
  BY <1>2, Zenon DEF DurableMoves, ReplayedAll, NoFailedWrite
<1>4. crashes' # crashes => UNCHANGED walDlq
  BY CrashKeepsDlq, Zenon DEF brokerVars
<1>5. \A p \in TaskId : LostAt(p)' => LostAt(p)
  BY <1>2, <1>3, <1>4, NothingLostStep, Zenon
<1>6. \A p \in TaskId : ~LostAt(p)
  BY <1>2, <1>3, LostPayloads, Zenon DEF NothingLost
<1> QED BY <1>1, <1>2, <1>5, <1>6, Zenon DEF NothingLost

(* With a WAL no accepted task is lost, whenever else the broker crashes,  *)
(* if it does not die between the two commits of DLQ_REPLAY, no write      *)
(* fails and the in-memory DLQ stays within the limit of _handle_nack's    *)
(* peek: there is no other way to lose one, also beside the dashboard's    *)
(* replay-all.                                                             *)
THEOREM BrokerNothingLost ==
  BrokerSpec /\ []ShortDLQ /\ []NoFailedWrite /\ [][ReplayIsWhole]_brokerVars
    => []NothingLost
<1>1. BrokerInit => NothingLost
  BY TablesEmptyInit DEF NothingLost, Lost, Owed
<1> QED BY <1>1, BrokerInitInd, BrokerStepInd, DurableInit, KeptNext, NothingLostNext,
           PTL DEF BrokerSpec

(* No attempt is cut short: no eviction takes a task in flight from its    *)
(* worker, though workers without one may be evicted, and the broker does  *)
(* not crash.                                                              *)
NoAttemptCut ==
  (BrokerEvict => Orphans \cap in_flight = {}) /\ crashes' = crashes

LEMMA BudgetNext ==
  BrokerInd /\ Budgeted /\ [BrokerNext]_brokerVars /\ [NoAttemptCut]_brokerVars
    => Budgeted'
<1>1. ASSUME Budgeted, UNCHANGED brokerVars PROVE Budgeted'
  BY <1>1 DEF brokerVars, Budgeted, qmVars
<1>2. ASSUME BrokerInd, Budgeted, BrokerNext, NoAttemptCut PROVE Budgeted'
  <2>1. Typed /\ BrokerMoves
    BY <1>2, BrokerSteps, BrokerIndTyped, Zenon DEF Steps
  <2> QED BY <1>2, <2>1, BudgetStep, Zenon DEF NoAttemptCut
<1> QED BY <1>1, <1>2, Zenon

(* No task is handed out more than max_retries times between its creation  *)
(* or its last replay and its dead letter, if no attempt is cut short by   *)
(* an eviction or a crash: _handle_nack keeps the budget, and only         *)
(* requeue_worker_tasks and the recovery, which do not look at it, exceed  *)
(* it.                                                                     *)
THEOREM BrokerRetryBudget ==
  BrokerSpec /\ [][NoAttemptCut]_brokerVars => []RetryBudget
<1>1. BrokerInit => Budgeted
  <2>1. BrokerInit => \A t \in TaskId : task[t] = NoTask
    BY BrokerInitInd DEF BrokerInit, BrokerInd, QMInd, ObjectsOK, TaskId, QMInit
  <2>2. NoTask.attempts = 0 /\ NoTask.status # "pending" /\ 0 <= MaxRetries
    BY TypesAssumption DEF NoTask
  <2> QED BY <2>1, <2>2, Zenon DEF Budgeted
<1>2. Budgeted => RetryBudget
  BY DEF Budgeted, RetryBudget
<1> QED BY <1>1, <1>2, BrokerInitInd, BrokerStepInd, BudgetNext, PTL DEF BrokerSpec

=============================================================================
