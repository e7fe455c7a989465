-------------------------- MODULE BrokerStepProofs --------------------------
(***************************************************************************)
(* Proofs about the WorkerRegistry, for any set of workers and any values  *)
(* of the timing constants; and what the steps of the Broker preserve,     *)
(* given what they do to the Task objects.  The lemmas here need no fact   *)
(* about deques and ordered dicts: BrokerProofs derives the effects below  *)
(* from the methods of the QueueManager, and the theorems about the Broker *)
(* from these lemmas.                                                      *)
(***************************************************************************)
EXTENDS BrokerEffects, TLAPS

-----------------------------------------------------------------------------
(* An object that no task uses, the numbers among the values, and the rows *)
(* of the id that is next.                                                 *)
LEMMA BlankStatus == NoTask.status = "none"
BY DEF NoTask

LEMMA TypedInts ==
  ASSUME Typed
  PROVE  /\ nextId \in Int /\ 0 < nextId
         /\ Payload \subseteq Int /\ Submission \subseteq Int
         /\ TaskId \subseteq Submission
BY TypesAssumption DEF Typed, TasksOK, Payload, Submission, TaskId

LEMMA NextRowless ==
  ASSUME Typed, nextId \in TaskId
  PROVE  walTasks[nextId] = NoRow /\ walDlq[nextId] = NoRow
<1>1. nextId >= nextId
  BY TypedInts
<1> QED BY <1>1, Zenon DEF Typed, TablesOK

-----------------------------------------------------------------------------
(* The WorkerRegistry by itself.                                           *)

(* Every step of the registry keeps its state in range.                    *)
LEMMA WRTypeStep == WRTypeOK /\ [WRNext]_wrVars => WRTypeOK'
<1> SUFFICES ASSUME WRTypeOK, [WRNext]_wrVars PROVE WRTypeOK'
  OBVIOUS
<1> USE WRAssumption DEF WRTypeOK
<1>1. ASSUME NEW w \in Workers, Register(w) PROVE WRTypeOK'
  BY <1>1 DEF Register, Forget
<1>2. ASSUME NEW w \in Workers, RecordHeartbeat(w) PROVE WRTypeOK'
  BY <1>2 DEF RecordHeartbeat
<1>3. ASSUME NEW w \in Workers, CrashWorker(w) PROVE WRTypeOK'
  BY <1>3 DEF CrashWorker, Disconnect
<1>4. ASSUME NEW w \in Workers, WorkerDies(w) PROVE WRTypeOK'
  BY <1>4 DEF WorkerDies, Disconnect
<1>5. ASSUME NEW w \in Workers, Unregister(w) PROVE WRTypeOK'
  BY <1>5 DEF Unregister, Forget
<1>6. ASSUME NEW w \in Workers, NEW t \in TaskId,
             AssignTask(w, t) \/ CompleteTask(w, t),
             UNCHANGED <<registered, age, sinceCheck, up, dropped>>
      PROVE  WRTypeOK'
  BY <1>6 DEF AssignTask, CompleteTask
<1>7. ASSUME EvictDeadWorkers PROVE WRTypeOK'
  BY <1>7 DEF EvictDeadWorkers, Forget, Expired
<1>8. ASSUME Tick PROVE WRTypeOK'
  BY <1>8 DEF Tick
<1>9. CASE UNCHANGED wrVars
  BY <1>9 DEF wrVars
<1> QED
  BY <1>1, <1>2, <1>3, <1>4, <1>5, <1>6, <1>7, <1>8, <1>9 DEF WRNext

(* The registry's state stays in range, and an id that is not registered   *)
(* has no age and no tasks.                                                *)
THEOREM WRTypeCorrect == WRSpec => []WRTypeOK
<1>1. WRInit => WRTypeOK
  BY WRAssumption DEF WRInit, WRTypeOK
<1> QED
  BY <1>1, WRTypeStep, PTL DEF WRSpec

-----------------------------------------------------------------------------
(* The eviction loop detects a silent worker within CHECK_INTERVAL of its  *)
(* timeout, whatever the timing constants.                                 *)
THEOREM WRDetectedInTime == WRSpec => []DetectedInTime
<1>1. WRInit => DetectedInTime
  BY DEF WRInit, DetectedInTime
<1>2. WRTypeOK /\ DetectedInTime /\ [WRNext]_wrVars => DetectedInTime'
  <2> SUFFICES ASSUME WRTypeOK, DetectedInTime, [WRNext]_wrVars
               PROVE  DetectedInTime'
    OBVIOUS
  <2> USE WRAssumption DEF WRTypeOK, DetectedInTime
  <2>1. ASSUME NEW w \in Workers, Register(w) PROVE DetectedInTime'
    BY <2>1 DEF Register, Forget
  <2>2. ASSUME NEW w \in Workers, RecordHeartbeat(w) PROVE DetectedInTime'
    BY <2>2 DEF RecordHeartbeat
  <2>3. ASSUME NEW w \in Workers, CrashWorker(w) PROVE DetectedInTime'
    BY <2>3 DEF CrashWorker, Disconnect
  <2>4. ASSUME NEW w \in Workers, WorkerDies(w) PROVE DetectedInTime'
    BY <2>4 DEF WorkerDies, Disconnect
  <2>5. ASSUME NEW w \in Workers, Unregister(w) PROVE DetectedInTime'
    BY <2>5 DEF Unregister, Forget
  <2>6. CASE UNCHANGED <<registered, age, sinceCheck, up, dropped>>
    BY <2>6
  <2>7. ASSUME EvictDeadWorkers PROVE DetectedInTime'
    BY <2>7 DEF EvictDeadWorkers, Forget, Expired
  <2>8. ASSUME Tick PROVE DetectedInTime'
    BY <2>8 DEF Tick
  <2> QED
    BY <2>1, <2>2, <2>3, <2>4, <2>5, <2>6, <2>7, <2>8 DEF WRNext, wrVars
<1> QED
  BY <1>1, <1>2, WRTypeCorrect, PTL DEF WRSpec

-----------------------------------------------------------------------------
(* The invariant behind LiveWorkersStay: a running worker is registered    *)
(* and has not been silent for longer than it may be.                      *)
LiveInv == \A w \in up : w \in registered /\ age[w] <= MaxSilence

(* Eviction takes no worker that keeps its silences within the timeout.    *)
THEOREM WRLiveWorkersStay == WRSpec => []LiveWorkersStay
<1>1. CASE MaxSilence <= HEARTBEAT_TIMEOUT
  <2>1. WRInit => LiveInv
    BY DEF WRInit, LiveInv
  <2>2. WRTypeOK /\ LiveInv /\ [WRNext]_wrVars => LiveInv'
    <3> SUFFICES ASSUME WRTypeOK, LiveInv, [WRNext]_wrVars PROVE LiveInv'
      OBVIOUS
    <3> USE <1>1, WRAssumption DEF WRTypeOK, LiveInv
    <3>1. ASSUME NEW w \in Workers, Register(w) PROVE LiveInv'
      BY <3>1 DEF Register, Forget
    <3>2. ASSUME NEW w \in Workers, RecordHeartbeat(w) PROVE LiveInv'
      BY <3>2 DEF RecordHeartbeat
    <3>3. ASSUME NEW w \in Workers, CrashWorker(w) PROVE LiveInv'
      BY <3>3 DEF CrashWorker, Disconnect
    <3>4. ASSUME NEW w \in Workers, WorkerDies(w) PROVE LiveInv'
      BY <3>4 DEF WorkerDies, Disconnect
    <3>5. ASSUME NEW w \in Workers, Unregister(w) PROVE LiveInv'
      BY <3>5 DEF Unregister, Forget
    <3>6. CASE UNCHANGED <<registered, age, sinceCheck, up, dropped>>
      BY <3>6
    <3>7. ASSUME EvictDeadWorkers PROVE LiveInv'
      BY <3>7 DEF EvictDeadWorkers, Forget, Expired
    <3>8. ASSUME Tick PROVE LiveInv'
      BY <3>8 DEF Tick
    <3> QED
      BY <3>1, <3>2, <3>3, <3>4, <3>5, <3>6, <3>7, <3>8 DEF WRNext, wrVars
  <2>3. LiveInv => LiveWorkersStay
    BY DEF LiveInv, LiveWorkersStay
  <2> QED
    BY <2>1, <2>2, <2>3, WRTypeCorrect, PTL DEF WRSpec
<1>2. CASE ~(MaxSilence <= HEARTBEAT_TIMEOUT)
  <2>1. LiveWorkersStay
    BY <1>2 DEF LiveWorkersStay
  <2> QED
    BY <2>1, PTL
<1> QED
  BY <1>1, <1>2

-----------------------------------------------------------------------------
(* What the calls of the WalStore do to the rows.                          *)

(* A row is not the absence of a row.                                      *)
LEMMA RowsDiffer == /\ \A row \in TaskRow : row # NoRow
                    /\ \A row \in DlqRow : row # NoRow
BY TypesAssumption DEF TaskRow, DlqRow, NoRow

LEMMA SaveTaskEffect ==
  ASSUME WALTypeOK, NEW t \in TaskId, NEW q \in Queues, NEW p \in Payload,
         SaveTask(t, q, p)
  PROVE  /\ walTasks' \in [TaskId -> TaskRow \cup {NoRow}]
         /\ walTasks'[t] # NoRow
         /\ walTasks'[t].queue_name = q
         /\ walTasks'[t].payload = p
         /\ walTasks'[t].attempts = 0
         /\ walTasks'[t].status = "pending"
         /\ \A u \in TaskId \ {t} : walTasks'[u] = walTasks[u]
<1> DEFINE row == [queue_name |-> q, payload |-> p, attempts |-> 0,
                   status |-> "pending"]
<1>1. /\ row \in TaskRow /\ row.queue_name = q /\ row.payload = p
      /\ row.attempts = 0 /\ row.status = "pending"
  BY DEF TaskRow
<1>2. walTasks' = [walTasks EXCEPT ![t] = row]
  BY DEF SaveTask
<1> HIDE DEF row
<1> QED BY <1>1, <1>2, RowsDiffer DEF WALTypeOK

(* The row of t, if there is one, gets status st and attempts a.           *)
RowUpdated(t, st, a) ==
  /\ walTasks' \in [TaskId -> TaskRow \cup {NoRow}]
  /\ walTasks[t] = NoRow <=> walTasks'[t] = NoRow
  /\ walTasks[t] # NoRow => /\ walTasks'[t].queue_name = walTasks[t].queue_name
                            /\ walTasks'[t].payload = walTasks[t].payload
                            /\ walTasks'[t].attempts = a
                            /\ walTasks'[t].status = st
  /\ \A u \in TaskId \ {t} : walTasks'[u] = walTasks[u]

LEMMA UpdateTaskStatusEffect ==
  ASSUME WALTypeOK, NEW t \in TaskId, NEW st \in {"pending", "in_flight"},
         NEW a \in Nat, UpdateTaskStatus(t, st, a)
  PROVE  RowUpdated(t, st, a)
<1> DEFINE row == [walTasks[t] EXCEPT !.status = st, !.attempts = a]
<1>1. ASSUME walTasks[t] # NoRow
      PROVE  /\ row \in TaskRow
             /\ row.queue_name = walTasks[t].queue_name
             /\ row.payload = walTasks[t].payload
             /\ row.attempts = a /\ row.status = st
  BY <1>1, Zenon DEF WALTypeOK, TaskRow
<1>2. walTasks' = [walTasks EXCEPT ![t] = IF walTasks[t] = NoRow THEN NoRow ELSE row]
  BY DEF UpdateTaskStatus
<1> HIDE DEF row
<1> QED BY <1>1, <1>2, RowsDiffer DEF WALTypeOK, RowUpdated

LEMMA MarkDoneEffect ==
  ASSUME WALTypeOK, NEW t \in TaskId, MarkDone(t)
  PROVE  RowUpdated(t, "done", walTasks[t].attempts)
<1> DEFINE row == [walTasks[t] EXCEPT !.status = "done"]
<1>1. ASSUME walTasks[t] # NoRow
      PROVE  /\ row \in TaskRow
             /\ row.queue_name = walTasks[t].queue_name
             /\ row.payload = walTasks[t].payload
             /\ row.attempts = walTasks[t].attempts /\ row.status = "done"
  BY <1>1 DEF WALTypeOK, TaskRow
<1>2. walTasks' = [walTasks EXCEPT ![t] = IF walTasks[t] = NoRow THEN NoRow ELSE row]
  BY DEF MarkDone
<1> HIDE DEF row
<1> QED BY <1>1, <1>2, RowsDiffer DEF WALTypeOK, RowUpdated

(* The row of a dead letter has the columns of the schema, and the task's  *)
(* payload or none.                                                        *)
LEMMA DeadLetterRowType ==
  ASSUME NEW t \in TaskId, task[t] \in Task
  PROVE  /\ DeadLetterRow(t) \in DlqRow
         /\ DeadLetterRow(t).payload \in {task[t].payload, 0}
BY TypesAssumption DEF DeadLetterRow, DlqRow, Task, Payload

(* Recovery writes the loaded rows back as pending.                        *)
LEMMA ResetLoadedEffect ==
  ASSUME WALTypeOK, ResetLoaded
  PROVE  /\ walTasks' \in [TaskId -> TaskRow \cup {NoRow}]
         /\ \A t \in LoadPendingTasks :
              /\ walTasks[t] # NoRow /\ walTasks'[t] # NoRow
              /\ walTasks'[t].queue_name = walTasks[t].queue_name
              /\ walTasks'[t].payload = walTasks[t].payload
              /\ walTasks'[t].attempts = walTasks[t].attempts
              /\ walTasks'[t].status = "pending"
         /\ \A t \in TaskId \ LoadPendingTasks : walTasks'[t] = walTasks[t]
<1>1. ASSUME NEW t \in LoadPendingTasks
      PROVE  /\ t \in TaskId /\ walTasks[t] # NoRow
             /\ walTasks'[t] \in TaskRow
             /\ walTasks'[t].queue_name = walTasks[t].queue_name
             /\ walTasks'[t].payload = walTasks[t].payload
             /\ walTasks'[t].attempts = walTasks[t].attempts
             /\ walTasks'[t].status = "pending"
  <2>1. t \in TaskId /\ walTasks[t] # NoRow /\ walTasks[t] \in TaskRow
    BY DEF LoadPendingTasks, WALTypeOK
  <2>2. walTasks'[t] = [walTasks[t] EXCEPT !.status = "pending"]
    BY <2>1 DEF ResetLoaded
  <2> QED BY <2>1, <2>2 DEF TaskRow
<1>2. \A t \in TaskId \ LoadPendingTasks : walTasks'[t] = walTasks[t]
  BY DEF ResetLoaded
<1>3. walTasks' = [t \in TaskId |-> walTasks'[t]]
  BY DEF ResetLoaded
<1>4. walTasks' \in [TaskId -> TaskRow \cup {NoRow}]
  BY <1>1, <1>2, <1>3 DEF WALTypeOK
<1> QED BY <1>1, <1>2, <1>4, RowsDiffer

-----------------------------------------------------------------------------
(* The types of the registry, the tables and the bookkeeping are           *)
(* preserved, one lemma per kind of step.                                  *)
RestOK == WRTypeOK /\ TablesOK /\ HistoryOK

LEMMA TablesKept ==
  ASSUME TablesOK, nextId' = nextId, UNCHANGED walVars
  PROVE  TablesOK'
BY DEF TablesOK, WALTypeOK, walVars, NoRow

LEMMA ProduceType ==
  ASSUME Typed, NEW q \in Queues, HandleProduce(q), Created(q, nextId)
  PROVE  RestOK'
<1>1. nextId \in TaskId /\ nextId \in Payload /\ nextId' = nextId + 1
  BY TypesAssumption DEF Created, TaskId, Payload
<1>2. WRTypeOK'
  BY DEF HandleProduce, wrVars, Typed, WRTypeOK
<1>3. TablesOK'
  <2>1. CASE UNCHANGED walVars
    BY <1>1, <2>1 DEF Typed, TablesOK, WALTypeOK, walVars, NoRow, TaskId
  <2>2. CASE SaveTask(nextId, q, nextId) /\ UNCHANGED walDlq
    <3>1. /\ walTasks' \in [TaskId -> TaskRow \cup {NoRow}]
          /\ \A u \in TaskId \ {nextId} : walTasks'[u] = walTasks[u]
      BY <1>1, <2>2, SaveTaskEffect DEF Typed, TablesOK
    <3>2. \A u \in TaskId : u >= nextId + 1 => u # nextId /\ u >= nextId
      BY <1>1 DEF TaskId
    <3> QED BY <1>1, <2>2, <3>1, <3>2 DEF Typed, TablesOK, WALTypeOK, NoRow
  <2> QED BY <2>1, <2>2 DEF HandleProduce, Persist, WalRaises
<1>4. HistoryOK'
  BY <1>1, BrokerAssumption
     DEF HandleProduce, Persist, WalRaises, Raises, Typed, HistoryOK
<1> QED BY <1>2, <1>3, <1>4 DEF RestOK

LEMMA DeliverType ==
  ASSUME Typed, NEW w \in Workers, NEW t \in TaskId, Delivers(w, t)
  PROVE  RestOK'
<1>1. task[t] \in Task /\ nextId' = nextId
  BY DEF Delivers, HandedOut, Moved
<1>2. WRTypeOK'
  <2>1. /\ UNCHANGED <<registered, age, sinceCheck, dropped>> /\ up' \subseteq up
        /\ in_flight_tasks' = [in_flight_tasks EXCEPT ![w] =
             IF w \in registered THEN in_flight_tasks[w] \cup {t}
             ELSE in_flight_tasks[w]]
    BY Zenon DEF Delivers, HandOut, AssignTask
  <2> QED BY <2>1 DEF Typed, WRTypeOK
<1>3. TablesOK'
  <2>1. CASE UNCHANGED walVars
    BY <1>1, <2>1, TablesKept DEF Typed
  <2>2. CASE /\ UpdateTaskStatus(t, "in_flight", task[t].attempts + 1)
             /\ UNCHANGED walDlq
    <3>1. task[t].attempts + 1 \in Nat
      BY <1>1 DEF Task
    <3>2. RowUpdated(t, "in_flight", task[t].attempts + 1)
      BY <2>2, <3>1, UpdateTaskStatusEffect, Zenon DEF Typed, TablesOK
    <3> QED BY <1>1, <2>2, <3>2 DEF RowUpdated, Typed, TablesOK, WALTypeOK, NoRow
  <2> QED BY <2>1, <2>2 DEF Delivers, HandOut, Persist, WalRaises
<1>4. HistoryOK'
  BY BrokerAssumption
     DEF Delivers, HandOut, Persist, WalRaises, Raises, unobserved, Typed, HistoryOK
<1> QED BY <1>2, <1>3, <1>4 DEF RestOK

(* The ACK or NACK of a task that is no longer in flight.                  *)
LEMMA LateType ==
  ASSUME Typed, NEW w \in Workers,
         UNCHANGED <<qmVars, durable, in_flight_tasks, acked, up>>, Finished(w),
         UNCHANGED <<registered, age, sinceCheck, dropped,
                     wal_enabled, crashes, answered, removed>>
  PROVE  RestOK'
<1>1. WRTypeOK'
  BY DEF Typed, WRTypeOK
<1>2. TablesOK'
  BY TablesKept DEF durable, qmVars, walVars, Typed
<1>3. HistoryOK'
  BY DEF Finished, durable, Typed, HistoryOK
<1> QED BY <1>1, <1>2, <1>3 DEF RestOK

LEMMA AckType ==
  ASSUME Typed, NEW w \in Workers, HandleAck(w),
         executing[w] \in in_flight => Completed(executing[w])
  PROVE  RestOK'
<1> DEFINE t == executing[w]
<1>1. t \in TaskId /\ w \in up
  BY DEF HandleAck, Typed, HistoryOK
<1>2. CASE t \notin in_flight /\ UNCHANGED <<qmVars, durable, in_flight_tasks, acked, up>>
  BY <1>2, LateType, Zenon DEF HandleAck
<1>3. CASE /\ Acknowledge(t)
           /\ CompleteTask(w, t)
           /\ \/ /\ Persist(MarkDone(t) /\ UNCHANGED walDlq)
                 /\ acked' = acked \cup {task[t].payload}
                 /\ UNCHANGED up
              \/ /\ WalRaises
                 /\ up' = up \ {w}
                 /\ UNCHANGED acked
  <2>1. task[t] \in Task /\ nextId' = nextId
    BY <1>3, Zenon DEF Acknowledge, Completed, Moved
  <2> HIDE DEF t
  <2>2. WRTypeOK'
    BY <1>1, <1>3, Zenon DEF HandleAck, CompleteTask, Typed, WRTypeOK
  <2>3. TablesOK'
    <3>1. CASE UNCHANGED walVars
      BY <2>1, <3>1, TablesKept DEF Typed
    <3>2. CASE MarkDone(t) /\ UNCHANGED walDlq
      <4>1. RowUpdated(t, "done", walTasks[t].attempts)
        BY <1>1, <3>2, MarkDoneEffect, Zenon DEF Typed, TablesOK
      <4> QED BY <1>1, <2>1, <3>2, <4>1 DEF RowUpdated, Typed, TablesOK, WALTypeOK, NoRow
    <3> QED BY <1>3, <3>1, <3>2 DEF Persist, WalRaises
  <2>4. HistoryOK'
    BY <1>3, <2>1, BrokerAssumption
       DEF HandleAck, Finished, Persist, WalRaises, Raises, Typed, HistoryOK, Task
  <2> QED BY <2>2, <2>3, <2>4 DEF RestOK
<1> QED BY <1>2, <1>3, Zenon DEF HandleAck

LEMMA NackType ==
  ASSUME Typed, NEW w \in Workers, HandleNack(w),
         executing[w] \in in_flight => Failed(executing[w])
  PROVE  RestOK'
<1> DEFINE t == executing[w]
<1>1. t \in TaskId /\ w \in up
  BY DEF HandleNack, Typed, HistoryOK
<1>2. CASE t \notin in_flight /\ UNCHANGED <<qmVars, durable, in_flight_tasks, up>>
  BY <1>2, LateType, Zenon DEF HandleNack, unobserved
<1>3. CASE /\ NegativeAcknowledge(t)
           /\ CompleteTask(w, t)
           /\ \/ /\ Persist(IF Exhausted(t)
                            THEN AddToDlq(t, DeadLetterRow(t))
                            ELSE /\ UpdateTaskStatus(t, "pending", task[t].attempts)
                                 /\ UNCHANGED walDlq)
                 /\ UNCHANGED up
              \/ WalRaises /\ up' = up \ {w}
  <2>1. task[t] \in Task /\ nextId' = nextId /\ t < nextId
    BY <1>3 DEF NegativeAcknowledge, Failed, Moved
  <2> HIDE DEF t
  <2>2. WRTypeOK'
    BY <1>1, <1>3, Zenon DEF HandleNack, CompleteTask, Typed, WRTypeOK
  <2>3. TablesOK'
    <3>1. CASE UNCHANGED walVars
      BY <2>1, <3>1, TablesKept DEF Typed
    <3>2. CASE /\ UpdateTaskStatus(t, "pending", task[t].attempts)
               /\ UNCHANGED walDlq
      <4>1. RowUpdated(t, "pending", task[t].attempts)
        BY <1>1, <2>1, <3>2, UpdateTaskStatusEffect DEF Typed, TablesOK, Task
      <4> QED BY <1>1, <2>1, <3>2, <4>1 DEF RowUpdated, Typed, TablesOK, WALTypeOK, NoRow
    <3>3. CASE AddToDlq(t, DeadLetterRow(t))
      <4>1. DeadLetterRow(t) \in DlqRow
        BY <1>1, <2>1, DeadLetterRowType
      <4>2. \A u \in TaskId : u >= nextId => u # t
        BY <2>1, <1>1 DEF TaskId, Typed, TasksOK
      <4> QED BY <1>1, <2>1, <3>3, <4>1, <4>2
              DEF AddToDlq, Typed, TablesOK, WALTypeOK, NoRow
    <3> QED BY <1>3, <3>1, <3>2, <3>3 DEF Persist, WalRaises
  <2>4. HistoryOK'
    <3>1. /\ executing' = [executing EXCEPT ![w] = None] /\ UNCHANGED unobserved
          /\ UNCHANGED wal_failures \/ Raises
      BY <1>3, Zenon DEF HandleNack, Finished, Persist, WalRaises
    <3> QED BY <3>1, BrokerAssumption DEF unobserved, Raises, Typed, HistoryOK
  <2> QED BY <2>2, <2>3, <2>4 DEF RestOK
<1> QED BY <1>2, <1>3, Zenon DEF HandleNack


LEMMA ReplayType ==
  ASSUME Typed, NEW t \in TaskId, Replays(t)
  PROVE  RestOK'
<1> USE TypesAssumption
<1>1. WRTypeOK'
  BY DEF Replays, HandleDlqReplay, wrVars, Typed, WRTypeOK
<1>2. CASE ~wal_enabled
  <2>1. nextId' = nextId
    BY <1>2, Zenon DEF Replays, Revived
  <2>2. TablesOK'
    BY <1>2, <2>1, TablesKept DEF Replays, HandleDlqReplay, durable, walVars, Typed
  <2>3. HistoryOK'
    BY <1>2, Zenon DEF Replays, HandleDlqReplay, durable, unobserved, Typed, HistoryOK
  <2> QED BY <1>1, <2>2, <2>3 DEF RestOK
<1>3. CASE wal_enabled
  <2> DEFINE q == walDlq[t].queue_name
             p == walDlq[t].payload
  <2>1. /\ ReplayDlqTask(t) /\ Created(q, p)
        /\ \/ SaveTask(nextId, q, p) /\ UNCHANGED wal_failures
           \/ Raises /\ UNCHANGED walTasks
    BY <1>3 DEF Replays, HandleDlqReplay
  <2>2. q \in Queues /\ p \in Payload
    BY <2>1, Zenon DEF ReplayDlqTask, Typed, TablesOK, WALTypeOK, DlqRow
  <2> HIDE DEF q, p
  <2>4. nextId \in TaskId /\ nextId' = nextId + 1
    BY <2>1 DEF Created
  <2>5. /\ walTasks' \in [TaskId -> TaskRow \cup {NoRow}]
        /\ \A u \in TaskId \ {nextId} : walTasks'[u] = walTasks[u]
    BY <2>1, <2>2, <2>4, SaveTaskEffect DEF Typed, TablesOK, WALTypeOK
  <2>6. walDlq' = [walDlq EXCEPT ![t] = NoRow]
    BY <2>1 DEF ReplayDlqTask
  <2>7. \A u \in TaskId : u >= nextId + 1 => u # nextId /\ u >= nextId
    BY <2>4 DEF TaskId
  <2>8. TablesOK'
    BY <2>4, <2>5, <2>6, <2>7, Zenon DEF Typed, TablesOK, WALTypeOK, NoRow
  <2>9. HistoryOK'
    BY <2>1, BrokerAssumption
       DEF Replays, HandleDlqReplay, Raises, unobserved, Typed, HistoryOK
  <2> QED BY <1>1, <2>8, <2>9 DEF RestOK
<1> QED BY <1>2, <1>3

(* What an operator purges had a payload.                                  *)
LEMMA PurgedPayloadsType ==
  ASSUME Typed, NEW Q \in SUBSET Queues
  PROVE  PurgedPayloads(Q) \subseteq Payload
<1>1. ASSUME NEW u \in TaskId, walDlq[u].queue_name \in Q
      PROVE  walDlq[u].payload \in Payload
  <2>1. walDlq[u] # NoRow
    BY <1>1, TypesAssumption DEF NoRow
  <2> QED BY <2>1 DEF Typed, TablesOK, WALTypeOK, DlqRow
<1>2. ASSUME NEW u \in Range(dlq) PROVE task[u].payload \in Payload
  BY DEF Typed, TasksOK, Task, NoTask
<1> QED BY <1>1, <1>2 DEF PurgedPayloads

LEMMA PurgeType ==
  ASSUME Typed, NEW Q \in SUBSET Queues, Purges(Q)
  PROVE  RestOK'
<1>1. WRTypeOK'
  BY DEF Purges, HandleDlqPurge, wrVars, Typed, WRTypeOK
<1>2. HistoryOK'
  BY PurgedPayloadsType DEF Purges, HandleDlqPurge, durable, Typed, HistoryOK
<1>3. nextId' = nextId
  BY DEF Purges, Dropped
<1>4. CASE wal_enabled
  <2>1. TablesOK'
    BY <1>3, <1>4 DEF Purges, HandleDlqPurge, PurgeDlq, Typed, TablesOK, WALTypeOK, NoRow
  <2> QED BY <1>1, <1>2, <2>1 DEF RestOK
<1>5. CASE ~wal_enabled
  <2>1. TablesOK'
    BY <1>3, <1>5, TablesKept DEF Purges, HandleDlqPurge, durable, walVars, Typed
  <2> QED BY <1>1, <1>2, <2>1 DEF RestOK
<1> QED BY <1>4, <1>5, Zenon

LEMMA ReplayAllType ==
  ASSUME Typed, ReplayDlqHandler, nextId' = nextId
  PROVE  RestOK'
<1>1. TablesOK'
  BY TablesKept DEF ReplayDlqHandler, durable, walVars, Typed
<1> QED BY <1>1 DEF ReplayDlqHandler, wrVars, durable, unobserved,
                    Typed, WRTypeOK, HistoryOK, RestOK

LEMMA ResetType ==
  ASSUME Typed, ResetHandler
  PROVE  RestOK'
<1>1. nextId' = nextId
  BY DEF ResetHandler, Reset
<1>2. TablesOK'
  <2>1. CASE UNCHANGED walVars
    BY <1>1, <2>1, TablesKept DEF Typed
  <2>2. CASE ClearAllData
    BY <2>2 DEF ClearAllData, TablesOK, WALTypeOK, NoRow
  <2> QED BY <2>1, <2>2 DEF ResetHandler, Persist, WalRaises
<1>3. WRTypeOK'
  BY DEF ResetHandler, wrVars, Typed, WRTypeOK
<1>4. 1..(nextId - 1) \subseteq Payload
  BY TypesAssumption DEF Typed, TasksOK, Payload
<1>5. HistoryOK'
  BY <1>4, BrokerAssumption
     DEF ResetHandler, Persist, WalRaises, Raises, Typed, HistoryOK
<1> QED BY <1>2, <1>3, <1>5 DEF RestOK

LEMMA EvictType ==
  ASSUME Typed, BrokerEvict, nextId' = nextId
  PROVE  RestOK'
<1>1. TablesOK'
  BY TablesKept DEF BrokerEvict, durable, walVars, Typed
<1>2. WRTypeOK'
  BY WRTypeStep DEF BrokerEvict, WRNext, Typed
<1>3. HistoryOK'
  BY DEF BrokerEvict, durable, unobserved, Typed, HistoryOK
<1> QED BY <1>1, <1>2, <1>3 DEF RestOK

(* A step of the registry leaves the Task objects and the tables alone.    *)
LEMMA RegistryFrame ==
  ASSUME RegistryOnly
  PROVE  /\ UNCHANGED <<task, nextId, in_flight, durable, unobserved>>
         /\ [WRNext]_wrVars
         /\ UNCHANGED executing \/ \E w \in Workers : Finished(w)
<1>1. UNCHANGED <<task, nextId, in_flight, durable, unobserved>>
  BY Zenon DEF RegistryOnly, BrokerTick, HandleRegister, HandleHeartbeat, WorkerLost,
         ExecutionEnds, HandleConsumeEmpty, DequeueEmpty, qmVars
<1> QED BY <1>1 DEF RegistryOnly, BrokerTick, HandleRegister, HandleHeartbeat,
                    WorkerLost, ExecutionEnds, HandleConsumeEmpty, WRNext, wrVars

LEMMA RegistryType ==
  ASSUME Typed, RegistryOnly
  PROVE  RestOK'
<1>1. TablesOK'
  BY RegistryFrame, TablesKept DEF durable, walVars, Typed
<1>2. WRTypeOK'
  BY RegistryFrame, WRTypeStep DEF Typed
<1>3. executing' \in [Workers -> TaskId \cup {None}]
  BY RegistryFrame DEF Finished, Typed, HistoryOK
<1>4. HistoryOK'
  BY RegistryFrame, <1>3 DEF durable, unobserved, Typed, HistoryOK
<1> QED BY <1>1, <1>2, <1>4 DEF RestOK

LEMMA CrashType ==
  ASSUME Typed, Crashes
  PROVE  RestOK'
<1> USE DEF Crashes
<1>1. nextId' = nextId
  BY DEF Restart
<1>2. TablesOK'
  <2>1. WALTypeOK /\ ResetLoaded
    BY DEF Restart, Typed, TablesOK
  <2>2. /\ walTasks' \in [TaskId -> TaskRow \cup {NoRow}]
        /\ \A t \in TaskId \ LoadPendingTasks : walTasks'[t] = walTasks[t]
    BY <2>1, ResetLoadedEffect
  <2>3. \A t \in TaskId : t >= nextId => t \notin LoadPendingTasks
    BY DEF LoadPendingTasks, Typed, TablesOK
  <2>4. /\ walDlq' \in [TaskId -> DlqRow \cup {NoRow}]
        /\ \A t \in TaskId : walDlq'[t] \in {walDlq[t], NoRow}
    BY <2>1 DEF WALTypeOK, ReplayDlqTask
  <2> QED BY <1>1, <2>2, <2>3, <2>4 DEF Typed, TablesOK, WALTypeOK, NoRow
<1>3. WRTypeOK'
  BY WRAssumption DEF Restart, Forget, Typed, WRTypeOK
<1>4. HistoryOK'
  BY BrokerAssumption DEF Restart, Typed, HistoryOK
<1> QED BY <1>2, <1>3, <1>4 DEF RestOK

(* Every step of the broker keeps the types of all but the Task objects.   *)
LEMMA TypeStep ==
  ASSUME Typed, BrokerMoves
  PROVE  RestOK'
<1>1. ASSUME ReplayDlqHandler,
             Revived({t \in TaskId : task[t].status = "dead_lettered"})
      PROVE  RestOK'
  BY <1>1, ReplayAllType DEF Revived
<1>2. ASSUME BrokerEvict, Requeued(Orphans) PROVE RestOK'
  BY <1>2, EvictType DEF Requeued
<1> QED BY <1>1, <1>2, ProduceType, DeliverType, AckType, NackType, ReplayType,
           PurgeType, ResetType, RegistryType, CrashType, Zenon DEF BrokerMoves

-----------------------------------------------------------------------------
(* Who holds a task in flight.  Every id a WorkerInfo lists is in flight,  *)
(* or was forgotten by a reset; no two workers list the same id; and a     *)
(* connected worker executes a task it is listed with.  None of this holds *)
(* without LiveInv: a worker evicted while connected keeps executing.      *)
HoldersInv ==
  /\ LiveInv
  /\ \A v \in Workers : \A t \in in_flight_tasks[v] :
       t < nextId /\ task[t].status \in {"in_flight", "none"}
  /\ \A v, w \in Workers : \A t \in in_flight_tasks[v] :
       t \in in_flight_tasks[w] => v = w
  /\ \A w \in up : executing[w] # None => executing[w] \in in_flight_tasks[w]

(* Every task in flight is listed for a registered worker.                 *)
OwnedInv ==
  \A t \in TaskId : task[t].status = "in_flight" =>
    \E w \in registered : t \in in_flight_tasks[w]

(* Steps that leave workers and tasks in flight alone.                     *)
FlightKept ==
  /\ UNCHANGED <<wrVars, executing>>
  /\ nextId' \in {nextId, nextId + 1}
  /\ \A t \in TaskId :
       /\ t < nextId /\ task[t].status \in {"in_flight", "none"}
            => task'[t].status \in {"in_flight", "none"}
       /\ task'[t].status = "in_flight" => task[t].status = "in_flight"

LEMMA CreatedKeepsFlight ==
  ASSUME NEW q, NEW p, Created(q, p), UNCHANGED <<wrVars, executing>>
  PROVE  FlightKept
<1>1. \A t \in TaskId : t < nextId => t # nextId
  BY DEF TaskId
<1> QED BY <1>1 DEF FlightKept, Created, OthersSame

(* PRODUCE, and the operator's replay, purge and reset, are such steps.    *)
LEMMA OperatorKeepsFlight ==
  ASSUME \/ \E q \in Queues : HandleProduce(q) /\ Created(q, nextId)
         \/ \E t \in TaskId : Replays(t)
         \/ \E Q \in SUBSET Queues : Purges(Q)
         \/ /\ ReplayDlqHandler
            /\ Revived({t \in TaskId : task[t].status = "dead_lettered"})
         \/ ResetHandler
  PROVE  FlightKept
<1>0. UNCHANGED <<wrVars, executing>>
  BY Zenon DEF HandleProduce, Replays, HandleDlqReplay, Purges, HandleDlqPurge,
         ReplayDlqHandler, ResetHandler
<1>1. ASSUME NEW q, NEW p, Created(q, p) PROVE FlightKept
  BY <1>0, <1>1, CreatedKeepsFlight, Zenon
<1>2. ASSUME NEW S, Revived(S) PROVE FlightKept
  BY <1>0, <1>2 DEF FlightKept, Revived, Moved, OthersSame
<1>3. ASSUME NEW S, Dropped(S) PROVE FlightKept
  BY <1>0, <1>3, BlankStatus, Zenon DEF FlightKept, Dropped, OthersSame
<1>4. ASSUME UNCHANGED <<task, nextId>> PROVE FlightKept
  BY <1>0, <1>4 DEF FlightKept
<1>5. ASSUME ResetHandler PROVE FlightKept
  BY <1>0, <1>5, BlankStatus, Zenon DEF ResetHandler, Reset, FlightKept
<1>6. ASSUME NEW t \in TaskId, Replays(t) PROVE FlightKept
  BY <1>1, <1>2, <1>6, Zenon DEF Replays
<1>7. ASSUME NEW Q \in SUBSET Queues, Purges(Q) PROVE FlightKept
  BY <1>3, <1>4, <1>7 DEF Purges
<1> QED BY <1>1, <1>2, <1>5, <1>6, <1>7

LEMMA HoldersKept ==
  ASSUME Typed, HoldersInv, FlightKept
  PROVE  HoldersInv'
<1>1. /\ UNCHANGED <<registered, age, in_flight_tasks, up, executing>>
      /\ nextId \in Int /\ nextId' \in Int /\ nextId <= nextId'
  BY DEF FlightKept, wrVars, Typed, TasksOK
<1>2. \A v \in Workers : in_flight_tasks[v] \subseteq TaskId
  BY DEF Typed, WRTypeOK
<1>3. \A v \in Workers : \A t \in in_flight_tasks[v] :
        t < nextId' /\ task'[t].status \in {"in_flight", "none"}
  <2> SUFFICES ASSUME NEW v \in Workers, NEW t \in in_flight_tasks[v]
               PROVE  t < nextId' /\ task'[t].status \in {"in_flight", "none"}
    BY Zenon
  <2>1. t \in TaskId /\ t < nextId
    BY <1>2, Zenon DEF HoldersInv
  <2>2. t < nextId'
    BY <1>1, <2>1 DEF TaskId
  <2>3. task'[t].status \in {"in_flight", "none"}
    BY <1>1, <2>1, Zenon DEF HoldersInv, FlightKept
  <2> QED BY <2>2, <2>3, Zenon
<1> QED BY <1>1, <1>3 DEF HoldersInv, LiveInv

(* The worker gets a task no worker is listed with: the task was pending.  *)
LEMMA DeliverHolders ==
  ASSUME Typed, HoldersInv, NEW w \in Workers, NEW t \in TaskId, Delivers(w, t)
  PROVE  HoldersInv'
<1>1. /\ t \in TaskId /\ t < nextId /\ task[t].status = "pending"
      /\ task'[t].status = "in_flight" /\ nextId' = nextId
      /\ \A u \in TaskId \ {t} : task'[u] = task[u]
  BY DEF Delivers, HandedOut, Moved, OthersSame
<1>2. w \in up /\ executing[w] = None /\ HandOut(w, t)
  BY DEF Delivers
<1>3. \A v \in Workers : t \notin in_flight_tasks[v]
  BY <1>1 DEF HoldersInv
<1>4. /\ in_flight_tasks' = [in_flight_tasks EXCEPT ![w] = in_flight_tasks[w] \cup {t}]
      /\ UNCHANGED <<registered, age>>
  BY <1>2, Zenon DEF HandOut, AssignTask, HoldersInv, LiveInv
<1>5. \/ executing' = [executing EXCEPT ![w] = t] /\ up' = up
      \/ executing' = executing /\ up' = up \ {w}
  BY <1>2, Zenon DEF HandOut
<1>6. /\ in_flight_tasks \in [Workers -> SUBSET TaskId] /\ up \subseteq Workers
      /\ executing \in [Workers -> TaskId \cup {None}]
  BY DEF Typed, WRTypeOK, HistoryOK
<1>7. LiveInv'
  BY <1>4, <1>5 DEF HoldersInv, LiveInv
<1>8. \A v \in Workers : \A u \in in_flight_tasks'[v] :
        u < nextId' /\ task'[u].status \in {"in_flight", "none"}
  BY <1>1, <1>4, <1>6 DEF HoldersInv
<1>9. \A v, x \in Workers : \A u \in in_flight_tasks'[v] :
        u \in in_flight_tasks'[x] => v = x
  BY <1>3, <1>4, <1>6 DEF HoldersInv
<1>10. \A v \in up' : executing'[v] # None => executing'[v] \in in_flight_tasks'[v]
  BY <1>2, <1>4, <1>5, <1>6, Zenon DEF HoldersInv
<1> QED BY <1>7, <1>8, <1>9, <1>10, Zenon DEF HoldersInv

(* A report ends the execution; if the task was in flight, it is no longer *)
(* listed with the one worker that was.                                    *)
LEMMA ReportHolders ==
  ASSUME Typed, HoldersInv, NEW w \in up, executing[w] # None, Finished(w),
         up' \in {up, up \ {w}}, UNCHANGED <<registered, age, nextId>>,
         \/ UNCHANGED <<task, in_flight_tasks>>
         \/ /\ CompleteTask(w, executing[w])
            /\ \A u \in TaskId \ {executing[w]} : task'[u] = task[u]
  PROVE  HoldersInv'
<1> DEFINE t == executing[w]
<1>1. /\ in_flight_tasks \in [Workers -> SUBSET TaskId] /\ up \subseteq Workers
      /\ executing \in [Workers -> TaskId \cup {None}] /\ w \in Workers
  BY DEF Typed, WRTypeOK, HistoryOK
<1>2. t \in TaskId /\ t \in in_flight_tasks[w]
  BY <1>1, Zenon DEF HoldersInv
<1> HIDE DEF t
<1>3. /\ \A v \in Workers : in_flight_tasks'[v] \subseteq in_flight_tasks[v]
      /\ \A v \in Workers \ {w} : in_flight_tasks'[v] = in_flight_tasks[v]
      /\ \A v \in Workers : \A u \in in_flight_tasks'[v] : task'[u] = task[u]
  <2>1. CASE UNCHANGED <<task, in_flight_tasks>>
    BY <2>1
  <2>2. CASE /\ CompleteTask(w, t)
             /\ \A u \in TaskId \ {t} : task'[u] = task[u]
    <3>1. in_flight_tasks' = [in_flight_tasks EXCEPT ![w] = in_flight_tasks[w] \ {t}]
      BY <2>2 DEF CompleteTask
    <3>2. \A v \in Workers : t \notin in_flight_tasks'[v]
      BY <1>1, <1>2, <3>1 DEF HoldersInv
    <3> QED BY <1>1, <2>2, <3>1, <3>2
  <2> QED BY <2>1, <2>2, Zenon DEF t
<1>4. executing' = [executing EXCEPT ![w] = None]
  BY DEF Finished
<1>5. LiveInv'
  BY DEF HoldersInv, LiveInv
<1>6. \A v \in Workers : \A u \in in_flight_tasks'[v] :
        u < nextId' /\ task'[u].status \in {"in_flight", "none"}
  BY <1>1, <1>3 DEF HoldersInv
<1>7. \A v, x \in Workers : \A u \in in_flight_tasks'[v] :
        u \in in_flight_tasks'[x] => v = x
  BY <1>3, Zenon DEF HoldersInv
<1>8. \A v \in up' : executing'[v] # None => executing'[v] \in in_flight_tasks'[v]
  BY <1>1, <1>3, <1>4 DEF HoldersInv
<1> QED BY <1>5, <1>6, <1>7, <1>8, Zenon DEF HoldersInv

(* An evicted worker does not run, so none of its tasks is executed.       *)
LEMMA EvictHolders ==
  ASSUME MaxSilence <= HEARTBEAT_TIMEOUT, Typed, HoldersInv, BrokerEvict, Requeued(Orphans)
  PROVE  HoldersInv'
<1>1. /\ in_flight_tasks \in [Workers -> SUBSET TaskId] /\ up \subseteq Workers
      /\ age \in [Workers -> Nat] /\ registered \subseteq Workers
  BY DEF Typed, WRTypeOK
<1>2. Expired \cap up = {} /\ Expired \subseteq registered
  BY <1>1, WRAssumption DEF Expired, HoldersInv, LiveInv
<1>3. /\ registered' = registered \ Expired
      /\ age' = [v \in Workers |-> IF v \in Expired THEN 0 ELSE age[v]]
      /\ in_flight_tasks' = [v \in Workers |-> IF v \in Expired THEN {}
                                               ELSE in_flight_tasks[v]]
      /\ UNCHANGED <<up, executing>>
  BY DEF BrokerEvict, EvictDeadWorkers, Forget
<1>4. /\ \A u \in TaskId \ (Orphans \cap in_flight) : task'[u] = task[u]
      /\ nextId' = nextId
  BY DEF Requeued, OthersSame
<1>5. \A v \in Workers : \A u \in in_flight_tasks'[v] :
        u \in in_flight_tasks[v] /\ u \in TaskId /\ u \notin Orphans
  BY <1>1, <1>2, <1>3 DEF Orphans, HoldersInv
<1>6. LiveInv'
  BY <1>1, <1>2, <1>3, Zenon DEF HoldersInv, LiveInv
<1>7. \A v \in Workers : \A u \in in_flight_tasks'[v] :
        u < nextId' /\ task'[u].status \in {"in_flight", "none"}
  BY <1>4, <1>5 DEF HoldersInv
<1>8. \A v, x \in Workers : \A u \in in_flight_tasks'[v] :
        u \in in_flight_tasks'[x] => v = x
  BY <1>5, Zenon DEF HoldersInv
<1>9. \A v \in up : in_flight_tasks'[v] = in_flight_tasks[v]
  BY <1>1, <1>2, <1>3
<1> QED BY <1>1, <1>3, <1>6, <1>7, <1>8, <1>9, Zenon DEF HoldersInv

LEMMA RegistryHolders ==
  ASSUME Typed, HoldersInv, RegistryOnly
  PROVE  HoldersInv'
<1>1. /\ in_flight_tasks \in [Workers -> SUBSET TaskId] /\ up \subseteq Workers
      /\ executing \in [Workers -> TaskId \cup {None}]
      /\ age \in [Workers -> Nat]
  BY DEF Typed, WRTypeOK, HistoryOK
<1>2. UNCHANGED <<task, nextId>>
  BY RegistryFrame
<1>3. ASSUME NEW w \in Workers, HandleRegister(w) PROVE HoldersInv'
  <2>1. /\ up' = up \cup {w} /\ registered' = registered \cup {w} /\ w \notin up
        /\ age' = [v \in Workers |-> IF v \in {w} THEN 0 ELSE age[v]]
        /\ in_flight_tasks' = [v \in Workers |->
                                  IF v \in {w} THEN {} ELSE in_flight_tasks[v]]
        /\ executing' = executing /\ executing[w] = None
    BY <1>3, Zenon DEF HandleRegister, Register, Forget
  <2>2. LiveInv'
    BY <1>1, <2>1, WRAssumption DEF HoldersInv, LiveInv
  <2>3. \A v \in Workers : in_flight_tasks'[v] \subseteq in_flight_tasks[v]
    BY <2>1
  <2>4. \A v \in up' : executing[v] # None => executing[v] \in in_flight_tasks'[v]
    BY <1>1, <2>1 DEF HoldersInv
  <2> QED BY <1>2, <2>1, <2>2, <2>3, <2>4, Zenon DEF HoldersInv
<1>4. ASSUME NEW w \in Workers, HandleHeartbeat(w) PROVE HoldersInv'
  BY <1>1, <1>2, <1>4, WRAssumption DEF HandleHeartbeat, RecordHeartbeat, HoldersInv, LiveInv
<1>5. ASSUME NEW w \in Workers, WorkerLost(w) PROVE HoldersInv'
  BY <1>1, <1>2, <1>5
     DEF WorkerLost, WorkerDies, CrashWorker, Disconnect, HoldersInv, LiveInv
<1>6. ASSUME NEW w \in Workers, NEW q \in Queues, HandleConsumeEmpty(w, q)
      PROVE  HoldersInv'
  BY <1>2, <1>6 DEF HandleConsumeEmpty, wrVars, HoldersInv, LiveInv
<1>7. CASE BrokerTick
  BY <1>1, <1>2, <1>7, WRAssumption DEF BrokerTick, Tick, HoldersInv, LiveInv
<1>8. ASSUME NEW w \in Workers, ExecutionEnds(w) PROVE HoldersInv'
  <2>1. /\ UNCHANGED <<registered, age, in_flight_tasks, up>> /\ w \notin up
        /\ \A v \in up : executing'[v] = executing[v]
    BY <1>1, <1>8 DEF ExecutionEnds, Finished, wrVars
  <2> QED BY <1>2, <2>1 DEF HoldersInv, LiveInv
<1> QED BY <1>3, <1>4, <1>5, <1>6, <1>7, <1>8 DEF RegistryOnly

LEMMA HoldersStep ==
  ASSUME MaxSilence <= HEARTBEAT_TIMEOUT, Typed, HoldersInv, BrokerMoves
  PROVE  HoldersInv'
<1>1. ASSUME NEW w \in Workers, HandleAck(w),
             executing[w] \in in_flight => Completed(executing[w])
      PROVE  HoldersInv'
  BY <1>1, ReportHolders DEF HandleAck, Acknowledge, Completed, OthersSame, qmVars
<1>2. ASSUME NEW w \in Workers, HandleNack(w),
             executing[w] \in in_flight => Failed(executing[w])
      PROVE  HoldersInv'
  BY <1>2, ReportHolders, Zenon DEF HandleNack, NegativeAcknowledge, Failed, OthersSame, qmVars
<1>3. ASSUME Crashes PROVE HoldersInv'
  BY <1>3 DEF Crashes, Restart, Forget, HoldersInv, LiveInv
<1> QED BY <1>1, <1>2, <1>3, OperatorKeepsFlight, HoldersKept, DeliverHolders,
           EvictHolders, RegistryHolders, Zenon DEF BrokerMoves

LEMMA OwnedStep ==
  ASSUME ~ReuseIds, Typed, HoldersInv, OwnedInv, BrokerMoves
  PROVE  OwnedInv'
<1>0. /\ in_flight_tasks \in [Workers -> SUBSET TaskId] /\ up \subseteq Workers
      /\ registered \subseteq Workers
      /\ \A w \in Workers \ registered : in_flight_tasks[w] = {}
  BY Zenon DEF Typed, WRTypeOK
<1>2. ASSUME FlightKept PROVE OwnedInv'
  BY <1>2 DEF FlightKept, wrVars, OwnedInv
<1>3. ASSUME NEW w \in Workers, NEW t \in TaskId, Delivers(w, t) PROVE OwnedInv'
  <2>1. t \in TaskId /\ \A u \in TaskId \ {t} : task'[u] = task[u]
    BY <1>3 DEF Delivers, HandedOut, OthersSame
  <2>2. w \in registered /\ HandOut(w, t)
    BY <1>3 DEF Delivers, HoldersInv, LiveInv
  <2>3. /\ in_flight_tasks' = [in_flight_tasks EXCEPT ![w] = in_flight_tasks[w] \cup {t}]
        /\ UNCHANGED registered
    BY <2>2 DEF HandOut, AssignTask
  <2>4. \A u \in TaskId \ {t} : task'[u].status = "in_flight" =>
          \E v \in registered' : u \in in_flight_tasks'[v]
    BY <1>0, <2>1, <2>3 DEF OwnedInv
  <2>5. t \in in_flight_tasks'[w] /\ w \in registered'
    BY <1>0, <2>2, <2>3
  <2> QED BY <2>3, <2>4, <2>5 DEF OwnedInv
<1>4. ASSUME NEW w \in Workers, NEW t \in TaskId, CompleteTask(w, t),
             task'[t].status # "in_flight",
             \A u \in TaskId \ {t} : task'[u] = task[u],
             UNCHANGED registered
      PROVE  OwnedInv'
  <2>1. \A u \in TaskId \ {t} : \A v \in Workers :
          u \in in_flight_tasks[v] => u \in in_flight_tasks'[v]
    BY <1>0, <1>4 DEF CompleteTask
  <2> QED BY <1>0, <1>4, <2>1 DEF OwnedInv
<1>5. ASSUME UNCHANGED <<task, registered, in_flight_tasks>> PROVE OwnedInv'
  BY <1>5 DEF OwnedInv
<1>6. ASSUME NEW w \in Workers, HandleAck(w),
             executing[w] \in in_flight => Completed(executing[w])
      PROVE  OwnedInv'
  BY <1>4, <1>5, <1>6 DEF HandleAck, Acknowledge, Completed, Moved, OthersSame, qmVars
<1>7. ASSUME NEW w \in Workers, HandleNack(w),
             executing[w] \in in_flight => Failed(executing[w])
      PROVE  OwnedInv'
  BY <1>4, <1>5, <1>7, Zenon DEF HandleNack, NegativeAcknowledge, Failed, Moved,
                          OthersSame, qmVars
<1>8. ASSUME BrokerEvict, Requeued(Orphans) PROVE OwnedInv'
  <2>1. /\ registered' = registered \ Expired
        /\ \A v \in Workers \ Expired : in_flight_tasks'[v] = in_flight_tasks[v]
    BY <1>8 DEF BrokerEvict, EvictDeadWorkers, Forget
  <2>2. /\ \A u \in Orphans \cap in_flight : task'[u].status = "pending"
        /\ \A u \in TaskId \ (Orphans \cap in_flight) : task'[u] = task[u]
    BY <1>8 DEF Requeued, Moved, OthersSame
  <2>3. ASSUME NEW u \in TaskId, task'[u].status = "in_flight"
        PROVE  \E v \in registered' : u \in in_flight_tasks'[v]
    <3>1. u \notin Orphans \cap in_flight /\ task[u].status = "in_flight"
      BY <2>2, <2>3
    <3>2. u \in in_flight
      BY <3>1 DEF Typed, TasksOK
    <3>3. PICK v \in registered : u \in in_flight_tasks[v]
      BY <3>1 DEF OwnedInv
    <3>4. v \notin Expired
      BY <3>1, <3>2, <3>3 DEF Orphans
    <3> QED BY <1>0, <2>1, <3>3, <3>4
  <2> QED BY <2>1, <2>3 DEF OwnedInv
<1>9. ASSUME RegistryOnly PROVE OwnedInv'
  <2>1. UNCHANGED task
    BY <1>9, RegistryFrame
  <2>2. ASSUME NEW w \in Workers, HandleRegister(w) PROVE OwnedInv'
    <3>1. w \notin registered
      BY <2>2 DEF HandleRegister, Register
    <3>2. /\ registered' = registered \cup {w}
          /\ \A v \in Workers \ {w} : in_flight_tasks'[v] = in_flight_tasks[v]
      BY <2>2 DEF HandleRegister, Register, Forget
    <3> QED BY <1>0, <2>1, <3>1, <3>2 DEF OwnedInv
  <2>3. CASE UNCHANGED <<registered, in_flight_tasks>>
    BY <1>5, <2>1, <2>3
  <2> QED BY <1>9, <2>2, <2>3, Zenon
          DEF RegistryOnly, BrokerTick, Tick, HandleHeartbeat, RecordHeartbeat,
              WorkerLost, WorkerDies, CrashWorker, ExecutionEnds,
              HandleConsumeEmpty, wrVars
<1>10. ASSUME Crashes PROVE OwnedInv'
  <2>1. \A t \in TaskId : task'[t].status # "in_flight"
    BY <1>10, BlankStatus, Zenon DEF Crashes, Reloaded
  <2> QED BY <2>1, Zenon DEF OwnedInv
<1> QED BY <1>2, <1>3, <1>6, <1>7, <1>8, <1>9, <1>10, OperatorKeepsFlight,
           Zenon DEF BrokerMoves


-----------------------------------------------------------------------------
(* The retry budget.  A task that waits to be handed out has an attempt    *)
(* left: _handle_nack keeps it so.                                         *)
Budgeted ==
  \A t \in TaskId : /\ task[t].attempts <= MaxRetries
                    /\ task[t].status = "pending" => task[t].attempts < MaxRetries

LEMMA BudgetStep ==
  ASSUME Typed, Budgeted, BrokerMoves,
         BrokerEvict => Orphans \cap in_flight = {}, crashes' = crashes
  PROVE  Budgeted'
<1>0. /\ MaxRetries \in Nat /\ 0 < MaxRetries /\ crashes \in Nat
      /\ NoTask.attempts = 0 /\ NoTask.status # "pending"
      /\ \A t \in TaskId : task[t].attempts \in Nat
  <2>1. MaxRetries \in Nat /\ 0 < MaxRetries
    BY TypesAssumption
  <2>2. crashes \in Nat
    BY BrokerAssumption DEF Typed, HistoryOK
  <2>3. NoTask.attempts = 0 /\ NoTask.status # "pending"
    BY DEF NoTask
  <2>4. \A t \in TaskId : task[t] \in Task \cup {NoTask}
    BY Zenon DEF Typed, TasksOK
  <2>5. \A x \in Task : x.attempts \in Nat
    BY <2>1 DEF Task
  <2> QED BY <2>1, <2>2, <2>3, <2>4, <2>5
<1>1. ASSUME NEW q, NEW p, Created(q, p) PROVE Budgeted'
  BY <1>0, <1>1 DEF Created, OthersSame, Budgeted
<1>2. ASSUME NEW t, HandedOut(t) PROVE Budgeted'
  <2>1. task'[t].attempts <= MaxRetries /\ task'[t].status # "pending"
    BY <1>0, <1>2 DEF HandedOut, Moved, Budgeted
  <2> QED BY <1>2, <2>1 DEF HandedOut, OthersSame, Budgeted
<1>3. ASSUME NEW t, Completed(t) PROVE Budgeted'
  BY <1>3 DEF Completed, Moved, OthersSame, Budgeted
<1>4. ASSUME NEW t, Failed(t) PROVE Budgeted'
  <2>1. task'[t].status = "pending" => task'[t].attempts < MaxRetries
    BY <1>0, <1>4 DEF Failed, Moved, Exhausted
  <2> QED BY <1>4, <2>1 DEF Failed, OthersSame, Budgeted
<1>5. ASSUME NEW S, Revived(S) PROVE Budgeted'
  BY <1>0, <1>5 DEF Revived, OthersSame, Budgeted
<1>6. ASSUME NEW S, Dropped(S) PROVE Budgeted'
  BY <1>0, <1>6 DEF Dropped, OthersSame, Budgeted
<1>7. ASSUME UNCHANGED task PROVE Budgeted'
  BY <1>7 DEF Budgeted
<1>8. ASSUME NEW w \in Workers, HandleAck(w),
             executing[w] \in in_flight => Completed(executing[w])
      PROVE  Budgeted'
  BY <1>3, <1>7, <1>8 DEF HandleAck, Acknowledge, qmVars
<1>9. ASSUME NEW w \in Workers, HandleNack(w),
             executing[w] \in in_flight => Failed(executing[w])
      PROVE  Budgeted'
  BY <1>4, <1>7, <1>9, Zenon DEF HandleNack, NegativeAcknowledge, qmVars
<1>10. ASSUME NEW t \in TaskId, Replays(t) PROVE Budgeted'
  BY <1>1, <1>5, <1>10 DEF Replays
<1>11. ASSUME NEW Q \in SUBSET Queues, Purges(Q) PROVE Budgeted'
  BY <1>6, <1>7, <1>11 DEF Purges
<1>12. ASSUME ResetHandler PROVE Budgeted'
  <2>1. \A t \in TaskId : task'[t] = NoTask
    BY <1>12 DEF ResetHandler, Reset
  <2> QED BY <1>0, <2>1 DEF Budgeted
<1>13. ASSUME RegistryOnly PROVE Budgeted'
  BY <1>7, <1>13, RegistryFrame
<1>14. ~Crashes
  BY <1>0 DEF Crashes, Restart
<1>15. ASSUME BrokerEvict, Requeued(Orphans) PROVE Budgeted'
  <2>1. \A t \in TaskId : task'[t] = task[t]
    BY <1>15 DEF Requeued, OthersSame
  <2> QED BY <2>1 DEF Budgeted
<1> QED BY <1>1, <1>2, <1>5, <1>8, <1>9, <1>10, <1>11, <1>12, <1>13, <1>14,
           <1>15, Zenon
        DEF BrokerMoves, Delivers

-----------------------------------------------------------------------------
(* Each handler has one of these effects.                                  *)

LEMMA ProduceDurable ==
  ASSUME Typed, NEW q \in Queues, HandleProduce(q), Created(q, nextId)
  PROVE  DurableMoves
<1>1. nextId \in TaskId /\ nextId \in Payload
  BY TypesAssumption DEF Created, TaskId, Payload
<1>2. WALTypeOK /\ OthersSame({nextId})
  BY DEF Typed, TablesOK, Created
<1>3. CASE /\ Persist(SaveTask(nextId, q, nextId) /\ UNCHANGED walDlq)
           /\ answered' = answered \cup {nextId}
  <2>1. CASE wal_enabled
    <3>1. SaveTask(nextId, q, nextId) /\ walDlq' = walDlq
      BY <1>3, <2>1 DEF Persist
    <3>2. /\ RowSaved(nextId, q, nextId)
          /\ \A u \in TaskId \ {nextId} : walTasks'[u] = walTasks[u]
      BY <1>1, <1>2, <3>1, SaveTaskEffect, Zenon DEF RowSaved
    <3>3. Only({nextId}) /\ Logs(nextId, RowSaved(nextId, q, nextId))
      BY <1>2, <1>3, <2>1, <3>1, <3>2, Zenon DEF Only, RowSame, OthersSame, Logs, Persist
    <3> QED BY <1>3, <3>3 DEF HandleProduce, Produced, DurableMoves
  <2>2. CASE ~wal_enabled
    <3>1. Only({nextId}) /\ Logs(nextId, RowSaved(nextId, q, nextId))
      BY <1>2, <1>3, <2>2, Zenon DEF Only, RowSame, OthersSame, Logs, Persist, walVars
    <3> QED BY <1>3, <3>1 DEF HandleProduce, Produced, DurableMoves
  <2> QED BY <2>1, <2>2
<1>4. CASE WalRaises /\ UNCHANGED answered
  <2>1. Only({nextId}) /\ FailsToLog(nextId)
    BY <1>2, <1>4, Zenon DEF Only, RowSame, OthersSame, FailsToLog, WalRaises, Raises, walVars
  <2> QED BY <1>4, <2>1 DEF HandleProduce, Produced, DurableMoves
<1> QED BY <1>3, <1>4 DEF HandleProduce

LEMMA DeliverDurable ==
  ASSUME Typed, NEW w \in Workers, NEW t \in TaskId, Delivers(w, t)
  PROVE  DurableMoves
<1> DEFINE a == task[t].attempts + 1
<1>0. task[t] \in Task /\ WALTypeOK /\ OthersSame({t}) /\ HandedOut(t) /\ HandOut(w, t)
  BY Zenon DEF Typed, TablesOK, Delivers, HandedOut, Moved
<1>1. WALTypeOK /\ OthersSame({t}) /\ a \in Nat /\ HandedOut(t) /\ HandOut(w, t)
  <2>1. task[t].attempts \in Nat
    BY <1>0, Zenon DEF Task
  <2>2. a \in Nat
    BY <2>1
  <2> QED BY <1>0, <2>2, Zenon
<1>2. UNCHANGED <<wal_enabled, history, crashes>>
  BY <1>1, Zenon DEF HandOut, unobserved, history
<1>3. CASE Persist(UpdateTaskStatus(t, "in_flight", a) /\ UNCHANGED walDlq)
  <2> HIDE DEF a
  <2>1. CASE wal_enabled
    <3>1. UpdateTaskStatus(t, "in_flight", a) /\ walDlq' = walDlq
      BY <1>3, <2>1 DEF Persist
    <3>2. RowUpdated(t, "in_flight", a)
      BY <1>1, <3>1, UpdateTaskStatusEffect
    <3>3. Only({t}) /\ Logs(t, RowSet(t, "in_flight", a))
      BY <1>1, <1>3, <2>1, <3>1, <3>2, Zenon
         DEF Only, RowSame, OthersSame, Logs, Persist, RowUpdated, RowSet
    <3> QED BY <1>1, <1>2, <3>3, Zenon DEF a, Delivered, DurableMoves
  <2>2. CASE ~wal_enabled
    <3>1. Only({t}) /\ Logs(t, RowSet(t, "in_flight", a))
      BY <1>1, <1>3, <2>2, Zenon DEF Only, RowSame, OthersSame, Logs, Persist, walVars
    <3> QED BY <1>1, <1>2, <3>1, Zenon DEF a, Delivered, DurableMoves
  <2> QED BY <2>1, <2>2
<1>4. CASE WalRaises
  <2>1. Only({t}) /\ FailsToLog(t)
    BY <1>1, <1>4, Zenon DEF Only, RowSame, OthersSame, FailsToLog, WalRaises, Raises, walVars
  <2> QED BY <1>1, <1>2, <2>1, Zenon DEF Delivered, DurableMoves
<1> QED BY <1>1, <1>3, <1>4, Zenon DEF HandOut

LEMMA AckDurable ==
  ASSUME Typed, NEW w \in Workers, HandleAck(w),
         executing[w] \in in_flight => Completed(executing[w])
  PROVE  DurableMoves
<1> DEFINE t == executing[w]
<1>1. /\ WALTypeOK /\ t \in TaskId
      /\ UNCHANGED <<wal_enabled, answered, removed, crashes>>
  BY Zenon DEF HandleAck, Typed, TablesOK, HistoryOK
<1>2. CASE UNCHANGED <<qmVars, durable, acked>>
  BY <1>1, <1>2 DEF Quiet, qmVars, history, DurableMoves
<1>3. CASE /\ Acknowledge(t)
           /\ Persist(MarkDone(t) /\ UNCHANGED walDlq)
           /\ acked' = acked \cup {task[t].payload}
  <2>1. Completed(t) /\ OthersSame({t})
    BY <1>3 DEF Acknowledge, Completed
  <2> HIDE DEF t
  <2>2. CASE wal_enabled
    <3>1. MarkDone(t) /\ walDlq' = walDlq
      BY <1>3, <2>2 DEF Persist
    <3>2. RowUpdated(t, "done", walTasks[t].attempts)
      BY <1>1, <3>1, MarkDoneEffect
    <3>3. Only({t}) /\ Logs(t, RowSet(t, "done", walTasks[t].attempts))
      BY <1>3, <2>1, <2>2, <3>1, <3>2, Zenon
         DEF Only, RowSame, OthersSame, Logs, Persist, RowUpdated, RowSet
    <3> QED BY <1>1, <1>3, <2>1, <3>3, Zenon DEF Acked, DurableMoves
  <2>3. CASE ~wal_enabled
    <3>1. Only({t}) /\ Logs(t, RowSet(t, "done", walTasks[t].attempts))
      BY <1>3, <2>1, <2>3, Zenon DEF Only, RowSame, OthersSame, Logs, Persist, walVars
    <3> QED BY <1>1, <1>3, <2>1, <3>1, Zenon DEF Acked, DurableMoves
  <2> QED BY <2>2, <2>3
<1>4. CASE Acknowledge(t) /\ WalRaises /\ UNCHANGED acked
  <2>1. Completed(t) /\ OthersSame({t})
    BY <1>4 DEF Acknowledge, Completed
  <2>2. Only({t}) /\ FailsToLog(t)
    BY <1>4, <2>1, Zenon DEF Only, RowSame, OthersSame, FailsToLog, WalRaises, Raises, walVars
  <2> QED BY <1>1, <1>4, <2>1, <2>2, Zenon DEF Acked, DurableMoves
<1> QED BY <1>2, <1>3, <1>4, Zenon DEF HandleAck

LEMMA NackDurable ==
  ASSUME Typed, NEW w \in Workers, HandleNack(w),
         executing[w] \in in_flight => Failed(executing[w])
  PROVE  DurableMoves
<1> DEFINE t == executing[w]
           a == task[t].attempts
           R == IF Exhausted(t) THEN RowBuried(t) ELSE RowSet(t, "pending", a)
<1>1. WALTypeOK /\ t \in TaskId /\ UNCHANGED <<wal_enabled, history, crashes>>
  BY Zenon DEF HandleNack, Typed, TablesOK, HistoryOK, unobserved, history
<1>2. CASE UNCHANGED <<qmVars, durable>>
  BY <1>1, <1>2 DEF Quiet, qmVars, DurableMoves
<1>3. CASE /\ NegativeAcknowledge(t)
           /\ Persist(IF Exhausted(t)
                      THEN AddToDlq(t, DeadLetterRow(t))
                      ELSE UpdateTaskStatus(t, "pending", a) /\ UNCHANGED walDlq)
  <2>1. Failed(t) /\ OthersSame({t}) /\ task[t] \in Task /\ a \in Nat
    BY <1>3 DEF NegativeAcknowledge, Failed, Moved, Task
  <2>2. Only({t}) /\ Logs(t, R)
    <3> HIDE DEF t, a
    <3>1. CASE wal_enabled /\ Exhausted(t)
      <4>1. AddToDlq(t, DeadLetterRow(t)) /\ UNCHANGED wal_failures
        BY <1>3, <3>1 DEF Persist
      <4>2. /\ DeadLetterRow(t) # NoRow
            /\ DeadLetterRow(t).payload = IF t \in Peek(PeekLimit)'
                                          THEN task[t].payload ELSE 0
        BY <1>1, <2>1, DeadLetterRowType, RowsDiffer, Zenon DEF DeadLetterRow
      <4>3. /\ walTasks'[t] = NoRow /\ walDlq'[t] = DeadLetterRow(t)
            /\ \A u \in TaskId \ {t} : RowSame(u)
        BY <1>1, <4>1 DEF AddToDlq, WALTypeOK, RowSame
      <4>4. RowBuried(t)
        BY <4>2, <4>3, Zenon DEF RowBuried
      <4> QED BY <2>1, <3>1, <4>1, <4>3, <4>4, Zenon DEF Only, OthersSame, Logs
    <3>2. CASE wal_enabled /\ ~Exhausted(t)
      <4>1. /\ UpdateTaskStatus(t, "pending", a) /\ walDlq' = walDlq
            /\ UNCHANGED wal_failures
        BY <1>3, <3>2 DEF Persist
      <4>2. RowUpdated(t, "pending", a)
        BY <1>1, <2>1, <4>1, UpdateTaskStatusEffect, Zenon
      <4> QED BY <2>1, <3>2, <4>1, <4>2, Zenon
              DEF Only, RowSame, OthersSame, Logs, RowUpdated, RowSet
    <3>3. CASE ~wal_enabled
      BY <1>3, <2>1, <3>3, Zenon DEF Only, RowSame, OthersSame, Logs, Persist, walVars
    <3> QED BY <3>1, <3>2, <3>3
  <2> QED BY <1>1, <2>1, <2>2, Zenon DEF Nacked, DurableMoves
<1>4. CASE NegativeAcknowledge(t) /\ WalRaises
  <2>1. Failed(t) /\ OthersSame({t})
    BY <1>4 DEF NegativeAcknowledge, Failed
  <2>2. Only({t}) /\ FailsToLog(t)
    BY <1>4, <2>1 DEF Only, RowSame, OthersSame, FailsToLog, WalRaises, Raises, walVars
  <2> QED BY <1>1, <2>1, <2>2, Zenon DEF Nacked, DurableMoves
<1> QED BY <1>2, <1>3, <1>4, Zenon DEF HandleNack

LEMMA ReplayDurable ==
  ASSUME Typed, NEW t \in TaskId, Replays(t)
  PROVE  DurableMoves
<1>0. UNCHANGED <<wal_enabled, history, crashes>>
  BY DEF Replays, HandleDlqReplay, unobserved, history
<1>1. CASE ~wal_enabled
  <2>1. Revived({t}) /\ UNCHANGED durable /\ t \in {u \in TaskId : task[u].status = "dead_lettered"}
    BY <1>1, Zenon DEF Replays, HandleDlqReplay, Revived, Moved
  <2> QED BY <1>0, <1>1, <2>1, Zenon DEF durable, history, Unlogged, RowSame, DurableMoves
<1>2. CASE wal_enabled
  <2> DEFINE q == walDlq[t].queue_name
             p == walDlq[t].payload
  <2>1. /\ ReplayDlqTask(t) /\ Created(q, p)
        /\ \/ SaveTask(nextId, q, p) /\ UNCHANGED wal_failures
           \/ Raises /\ UNCHANGED walTasks
    BY <1>2 DEF Replays, HandleDlqReplay
  <2>2. q \in Queues /\ p \in Payload /\ walDlq[t] # NoRow
    BY <2>1, Zenon DEF ReplayDlqTask, Typed, TablesOK, WALTypeOK, DlqRow
  <2> HIDE DEF q, p
  <2>3. /\ nextId \in TaskId /\ t # nextId /\ WALTypeOK /\ OthersSame({nextId})
        /\ task'[t] = task[t]
    BY <2>1, <2>2, NextRowless, Zenon DEF Typed, TablesOK, Created, OthersSame
  <2>4. /\ walDlq'[t] = NoRow /\ walDlq'[nextId] = walDlq[nextId]
        /\ \A u \in TaskId \ {t} : walDlq'[u] = walDlq[u]
    BY <2>1, <2>3, Zenon DEF ReplayDlqTask, WALTypeOK
  <2>5. CASE SaveTask(nextId, q, p) /\ UNCHANGED wal_failures
    <3>1. /\ RowSaved(nextId, q, p)
          /\ \A u \in TaskId \ {nextId} : walTasks'[u] = walTasks[u]
      <4>1. /\ walTasks'[nextId] # NoRow
            /\ walTasks'[nextId].queue_name = q
            /\ walTasks'[nextId].payload = p
            /\ walTasks'[nextId].attempts = 0
            /\ walTasks'[nextId].status = "pending"
            /\ \A u \in TaskId \ {nextId} : walTasks'[u] = walTasks[u]
        BY <2>2, <2>3, <2>5, SaveTaskEffect
      <4> QED BY <2>4, <4>1, Zenon DEF RowSaved
    <3>2. Only({t, nextId}) /\ walTasks'[t] = walTasks[t]
      BY <2>3, <2>4, <3>1, Zenon DEF Only, RowSame, OthersSame
    <3>3. Replayed(t)
      BY <1>0, <1>2, <2>1, <2>2, <2>3, <2>4, <2>5, <3>1, <3>2, Zenon DEF q, p, Replayed
    <3> QED BY <1>0, <3>3 DEF DurableMoves
  <2>6. CASE Raises /\ UNCHANGED walTasks
    <3>1. Only({t, nextId}) /\ walTasks'[t] = walTasks[t] /\ FailsToLog(nextId)
      BY <2>3, <2>4, <2>6, Zenon DEF Only, RowSame, OthersSame, FailsToLog, Raises
    <3>2. Replayed(t)
      BY <1>0, <1>2, <2>1, <2>2, <2>3, <2>4, <3>1, Zenon DEF q, p, Replayed
    <3> QED BY <1>0, <3>2 DEF DurableMoves
  <2> QED BY <2>1, <2>5, <2>6
<1> QED BY <1>1, <1>2

LEMMA PurgeDurable ==
  ASSUME Typed, NEW Q \in SUBSET Queues, Purges(Q)
  PROVE  DurableMoves
<1>0. /\ UNCHANGED <<wal_enabled, acked, answered, crashes>>
      /\ removed' = removed \cup PurgedPayloads(Q)
  BY Zenon DEF Purges, HandleDlqPurge
<1>1. CASE wal_enabled
  <2>1. PurgeDlq(Q) /\ UNCHANGED <<task, nextId, walTasks, wal_failures>>
    BY <1>1, Zenon DEF Purges, HandleDlqPurge
  <2>2. PurgedRows(Q)
    BY <1>0, <1>1, <2>1, Zenon DEF PurgeDlq, PurgedPayloads, PurgedRows
  <2> QED BY <1>0, <2>2 DEF DurableMoves
<1>2. CASE ~wal_enabled
  <2> DEFINE S == {t \in TaskId : /\ task[t].status = "dead_lettered"
                                  /\ task[t].queue_name \in Q}
  <2>1. Dropped(S) /\ UNCHANGED durable
    BY <1>2, Zenon DEF Purges, HandleDlqPurge
  <2>2. S = {u \in Range(dlq) : task[u].queue_name \in Q}
    BY DEF Typed, TasksOK
  <2>3. removed' = removed \cup {task[t].payload : t \in S}
    BY <1>0, <1>2, <2>2, Zenon DEF PurgedPayloads
  <2>4. S \in SUBSET {t \in TaskId : task[t].status = "dead_lettered"}
    OBVIOUS
  <2> HIDE DEF S
  <2>5. Unlogged
    BY <1>0, <1>2, <2>1, <2>3, <2>4, Zenon DEF Unlogged, RowSame, durable
  <2> QED BY <1>0, <2>5 DEF DurableMoves
<1> QED BY <1>1, <1>2

LEMMA ResetDurable ==
  ASSUME Typed, ResetHandler
  PROVE  DurableMoves
<1>1. /\ UNCHANGED <<wal_enabled, nextId, acked, answered, crashes>>
      /\ \A t \in TaskId : task'[t] = NoTask
  BY DEF ResetHandler, Reset
<1>2. CASE Persist(ClearAllData) /\ removed' = removed \cup 1..(nextId - 1)
  <2>1. \A t \in TaskId : IF wal_enabled
                          THEN walTasks'[t] = NoRow /\ walDlq'[t] = NoRow
                          ELSE RowSame(t)
    BY <1>2 DEF Persist, ClearAllData, walVars, RowSame
  <2>2. Emptied
    BY <1>1, <1>2, <2>1 DEF Emptied, Persist
  <2> QED BY <1>1, <2>2 DEF DurableMoves
<1>3. CASE WalRaises /\ UNCHANGED removed
  <2>1. Emptied
    BY <1>1, <1>3 DEF Emptied, WalRaises, Raises, walVars, RowSame
  <2> QED BY <1>1, <2>1 DEF DurableMoves
<1> QED BY <1>2, <1>3 DEF ResetHandler

LEMMA CrashDurable ==
  ASSUME Typed, Crashes
  PROVE  DurableMoves
<1>1. /\ WALTypeOK /\ ResetLoaded /\ Reloaded /\ crashes' = crashes + 1
      /\ UNCHANGED <<nextId, wal_enabled, wal_failures, history>>
  BY Zenon DEF Crashes, Restart, Typed, TablesOK, history
<1>2. \/ UNCHANGED walDlq
      \/ /\ wal_enabled
         /\ \E t \in TaskId : /\ walDlq[t] # NoRow /\ walDlq'[t] = NoRow
                              /\ \A u \in TaskId \ {t} : walDlq'[u] = walDlq[u]
  BY <1>1 DEF Crashes, ReplayDlqTask, WALTypeOK
<1>3. Recovers
  BY <1>1, <1>2, ResetLoadedEffect, Zenon DEF Recovers
<1> QED BY <1>1, <1>3 DEF DurableMoves

LEMMA LoggedEffects ==
  ASSUME Typed, BrokerMoves
  PROVE  DurableMoves \/ (DashboardReplay /\ ReplayedAll)
<1>1. ASSUME ReplayDlqHandler,
             Revived({t \in TaskId : task[t].status = "dead_lettered"})
      PROVE  DurableMoves \/ (DashboardReplay /\ ReplayedAll)
  <2>1. UNCHANGED <<wal_enabled, durable, history, crashes>>
    BY <1>1, Zenon DEF ReplayDlqHandler, unobserved, history
  <2>2. CASE wal_enabled
    BY <1>1, <2>1, <2>2, Zenon DEF ReplayDlqHandler, ReplayedAll, RowSame, durable
  <2>3. CASE ~wal_enabled
    <3>1. Unlogged
      BY <1>1, <2>1, <2>3, Zenon DEF Unlogged, RowSame, durable, history
    <3> QED BY <2>1, <3>1 DEF DurableMoves
  <2> QED BY <2>2, <2>3
<1>2. ASSUME BrokerEvict, Requeued(Orphans) PROVE DurableMoves
  <2>1. UNCHANGED <<wal_enabled, durable, history, crashes>>
    BY <1>2 DEF BrokerEvict, unobserved, history
  <2> QED BY <1>2, <2>1 DEF Orphaned, RowSame, durable, DurableMoves
<1>3. ASSUME RegistryOnly PROVE DurableMoves
  BY <1>3, RegistryFrame DEF Quiet, unobserved, history, DurableMoves
<1> QED BY <1>1, <1>2, <1>3, ProduceDurable, DeliverDurable, AckDurable, NackDurable,
           ReplayDurable, PurgeDurable, ResetDurable, CrashDurable, Zenon DEF BrokerMoves

-----------------------------------------------------------------------------
(* Which ids carry a payload, after a step.                                *)

(* Steps in which no id takes up a payload.                                *)
LEMMA CarryShrinks ==
  ASSUME Typed, CarryInv, nextId' = nextId,
         UNCHANGED <<acked, removed>>, answered' = answered,
         \A p \in Submission : \A t \in TaskId :
           /\ Carries(t, p)' => Carries(t, p)
           /\ MayRun(t, p)' => MayRun(t, p)
  PROVE  CarryInv'
BY DEF CarryInv, Submission

LEMMA MayRunCarries ==
  ASSUME NEW t, NEW p, MayRun(t, p)
  PROVE  Carries(t, p)
BY Zenon DEF MayRun, Carries

(* Ids whose object and rows do not change carry what they did.            *)
LEMMA CarrySame ==
  ASSUME UNCHANGED wal_enabled, NEW t, task'[t] = task[t], RowSame(t), NEW p
  PROVE  (Carries(t, p)' <=> Carries(t, p)) /\ (MayRun(t, p)' <=> MayRun(t, p))
BY Zenon DEF Carries, MayRun, Runnable, RowSame

LEMMA CarryOne ==
  ASSUME Typed, CarryInv, UNCHANGED <<wal_enabled, nextId, history>>,
         NEW t \in TaskId, Only({t}),
         \A p \in Submission : /\ Carries(t, p)' => Carries(t, p)
                               /\ MayRun(t, p)' => MayRun(t, p)
  PROVE  CarryInv'
<1>1. \A p \in Submission : \A u \in TaskId \ {t} :
        (Carries(u, p)' <=> Carries(u, p)) /\ (MayRun(u, p)' <=> MayRun(u, p))
  BY CarrySame, Zenon DEF Only
<1>2. \A p \in Submission : \A u \in TaskId :
        /\ Carries(u, p)' => Carries(u, p)
        /\ MayRun(u, p)' => MayRun(u, p)
  BY <1>1, Zenon
<1> QED BY <1>2, CarryShrinks, Zenon DEF history

LEMMA ProducedCarry ==
  ASSUME Typed, Linked, CarryInv, UNCHANGED wal_enabled, NEW q \in Queues, Produced(q)
  PROVE  CarryInv'
<1>0. nextId \in TaskId /\ nextId' = nextId + 1
  BY Zenon DEF Produced, Created
<1>1. PICK n \in TaskId : n = nextId /\ n \in Submission /\ nextId' = n + 1 /\ n \in Int
  BY <1>0, TypedInts, Zenon
<1>2. /\ walTasks[n] = NoRow /\ walDlq[n] = NoRow /\ Only({n})
      /\ UNCHANGED <<acked, removed>> /\ answered' \in {answered, answered \cup {n}}
  BY <1>1, NextRowless, Zenon DEF Produced
<1>3. \A p \in Submission : Carries(n, p)' => p = n
  BY <1>1, <1>2, Zenon DEF Produced, Created, Logs, FailsToLog, RowSaved, RowSame, Carries
<1>4. \A p \in Submission : \A t \in TaskId \ {n} :
        (Carries(t, p)' <=> Carries(t, p)) /\ (MayRun(t, p)' <=> MayRun(t, p))
  BY <1>2, CarrySame, Zenon DEF Only
<1>5. \A p \in Submission : \A t \in TaskId : Carries(t, p)' =>
        \/ t = n /\ p = n
        \/ t # n /\ Carries(t, p) /\ p # n /\ p < n + 1
  BY <1>1, <1>3, <1>4 DEF CarryInv, Submission, Payload
<1>6. \A p \in acked \cup removed \cup answered : p < n + 1 /\ p # n
  <2>1. \A p \in acked \cup removed \cup answered : p \in Int
    BY DEF Typed, HistoryOK, Payload, TaskId
  <2> QED BY <1>1, <2>1 DEF CarryInv
<1>7. \A p \in Submission : \A t \in TaskId : Carries(t, p)' =>
        p < nextId' /\ p \notin removed'
  BY <1>1, <1>2, <1>5, <1>6 DEF CarryInv
<1>8. \A p \in Submission : \A t \in TaskId : MayRun(t, p)' => p \notin acked'
  <2>1. SUFFICES ASSUME NEW p \in Submission, NEW t \in TaskId, MayRun(t, p)'
                 PROVE  p \notin acked
    BY <1>2
  <2>2. Carries(t, p)'
    BY <2>1, MayRunCarries, Zenon DEF MayRun, Carries
  <2> QED BY <1>4, <1>5, <1>6, <2>1, <2>2, Zenon DEF CarryInv
<1>9. \A p \in (acked \cup removed \cup answered)' : p < nextId'
  BY <1>1, <1>2, <1>6
<1> QED BY <1>5, <1>7, <1>8, <1>9 DEF CarryInv

LEMMA AckedCarry ==
  ASSUME Typed, Linked, CarryInv, UNCHANGED wal_enabled, NEW t \in TaskId, Acked(t)
  PROVE  CarryInv'
<1>1. \A p \in Submission : Carries(t, p)' => Carries(t, p)
  BY Zenon DEF Acked, Completed, Moved, Logs, FailsToLog, RowSet, RowSame, Carries, Runnable
<1>2. \A p \in Submission : MayRun(t, p)' => MayRun(t, p)
  BY Zenon DEF Acked, Completed, Moved, Logs, FailsToLog, RowSet, RowSame, MayRun, Runnable
<1>3. CASE UNCHANGED acked
  BY <1>1, <1>2, <1>3, CarryOne, Zenon DEF Acked, Completed, history
<1>4. CASE /\ Logs(t, RowSet(t, "done", walTasks[t].attempts))
           /\ acked' = acked \cup {task[t].payload}
  <2>1. /\ Only({t}) /\ UNCHANGED <<nextId, removed, answered>>
        /\ task[t].payload \in Payload /\ task[t].status = "in_flight"
        /\ task'[t].status = "done"
    BY Zenon DEF Acked, Completed, Moved, Task
  <2>2. \A p \in Submission : ~MayRun(t, p)'
    BY <1>4, <2>1, Zenon DEF Logs, RowSet, RowSame, Linked, LinkedAt, MayRun, Runnable
  <2>3. \A p \in Submission : \A u \in TaskId \ {t} :
          (Carries(u, p)' <=> Carries(u, p)) /\ (MayRun(u, p)' <=> MayRun(u, p))
    BY <2>1, CarrySame, Zenon DEF Only
  <2>4. \A p \in Submission : p = task[t].payload => Carries(t, p) /\ p < nextId
    BY <2>1, Zenon DEF Carries, Runnable, CarryInv
  <2>5. \A p \in Submission : \A u \in TaskId : MayRun(u, p)' => p \notin acked'
    BY <1>4, <2>2, <2>3, <2>4, MayRunCarries, Zenon DEF CarryInv
  <2>6. \A p \in Submission : \A u \in TaskId : Carries(u, p)' => Carries(u, p)
    BY <1>1, <2>3, Zenon
  <2>7. task[t].payload < nextId
    <3>1. 0 < nextId
      BY TypedInts, Zenon
    <3>2. CASE task[t].payload = 0
      BY <3>1, <3>2
    <3>3. CASE task[t].payload # 0
      BY <2>1, <2>4, <3>3, Zenon DEF Submission
    <3> QED BY <3>2, <3>3, Zenon
  <2>8. \A p \in (acked \cup removed \cup answered)' : p < nextId'
    BY <1>4, <2>1, <2>7, Zenon DEF CarryInv
  <2> QED BY <2>1, <2>5, <2>6, <2>8, Zenon DEF CarryInv
<1> QED BY <1>3, <1>4, Zenon DEF Acked


(* The dead letter's payload moves to the new id.                          *)
LEMMA ReplayedCarry ==
  ASSUME Typed, Linked, CarryInv, UNCHANGED wal_enabled, NEW t \in TaskId, Replayed(t)
  PROVE  CarryInv'
<1>0. nextId \in TaskId /\ nextId' = nextId + 1 /\ t # nextId
  BY Zenon DEF Replayed, Created
<1>1. PICK n \in TaskId : n = nextId /\ nextId' = n + 1 /\ n \in Int /\ t # n
  BY <1>0, TypedInts, Zenon
<1>2. /\ walTasks[n] = NoRow /\ walDlq[n] = NoRow /\ Only({t, n}) /\ wal_enabled
      /\ UNCHANGED <<acked, removed, answered>>
  BY <1>1, NextRowless, Zenon DEF Replayed, history
<1>3. \A p \in Submission : Carries(n, p)' => p = walDlq[t].payload /\ Carries(t, p) /\ MayRun(t, p)
  BY <1>1, <1>2, Zenon DEF Replayed, Created, FailsToLog, RowSaved, RowSame, Carries, MayRun
<1>4. \A p \in Submission : ~Carries(t, p)'
  BY <1>2, Zenon DEF Replayed, Carries, Runnable, Linked, LinkedAt
<1>5. \A p \in Submission : \A u \in TaskId \ {t, n} :
        (Carries(u, p)' <=> Carries(u, p)) /\ (MayRun(u, p)' <=> MayRun(u, p))
  BY <1>2, CarrySame, Zenon DEF Only
<1>6. \A p \in Submission : \A u \in TaskId : Carries(u, p)' =>
        \/ u = n /\ Carries(t, p)
        \/ u # n /\ u # t /\ Carries(u, p)
  BY <1>3, <1>4, <1>5
<1>7. \A p \in Submission : \A u, v \in TaskId : Carries(u, p)' /\ Carries(v, p)' => u = v
  BY <1>6 DEF CarryInv
<1>8. \A p \in Submission : \A u \in TaskId : Carries(u, p)' =>
        p < nextId' /\ p \notin removed'
  <2>1. \A p \in Submission : \A u \in TaskId : Carries(u, p)' => p < n /\ p \notin removed
    BY <1>1, <1>6, Zenon DEF CarryInv
  <2>2. \A p \in Submission : p \in Int
    BY TypedInts
  <2> QED BY <1>1, <1>2, <2>1, <2>2
<1>9. \A p \in Submission : \A u \in TaskId : MayRun(u, p)' => p \notin acked'
  <2>1. SUFFICES ASSUME NEW p \in Submission, NEW u \in TaskId, MayRun(u, p)'
                 PROVE  p \notin acked
    BY <1>2, Zenon
  <2>2. Carries(u, p)'
    BY <2>1, Zenon DEF MayRun, Carries
  <2>3. MayRun(t, p) \/ MayRun(u, p)
    BY <1>3, <1>4, <1>5, <2>1, <2>2, Zenon
  <2> QED BY <2>3 DEF CarryInv
<1>10. \A p \in (acked \cup removed \cup answered)' : p < nextId'
  <2>1. \A p \in acked \cup removed \cup answered : p \in Int
    BY DEF Typed, HistoryOK, Payload, TaskId
  <2> QED BY <1>1, <1>2, <2>1 DEF CarryInv
<1> QED BY <1>7, <1>8, <1>9, <1>10 DEF CarryInv

(* Steps that remove payloads leave no id that carries them.               *)
LEMMA CarryRemoved ==
  ASSUME Typed, CarryInv, NEW P, removed' = removed \cup P, \A p \in P : p < nextId,
         UNCHANGED <<nextId, acked, answered>>,
         \A p \in Submission : \A t \in TaskId :
           /\ Carries(t, p)' => Carries(t, p) /\ p \notin P
           /\ MayRun(t, p)' => MayRun(t, p)
  PROVE  CarryInv'
BY Zenon DEF CarryInv, Submission

(* ... when ids that carried them lose them.                               *)
LEMMA CarriersRemoved ==
  ASSUME Typed, CarryInv, NEW U \in SUBSET TaskId, NEW P \in SUBSET Payload,
         removed' = removed \cup P, UNCHANGED <<nextId, acked, answered>>,
         \A p \in P : \E u \in U : Carries(u, p),
         \A p \in Submission : \A t \in TaskId :
           /\ Carries(t, p)' => Carries(t, p) /\ t \notin U
           /\ MayRun(t, p)' => MayRun(t, p)
  PROVE  CarryInv'
<1>1. \A p \in Submission : \A t \in TaskId : Carries(t, p)' => p \notin P
  BY Zenon DEF CarryInv
<1>2. ASSUME NEW p \in P PROVE p < nextId
  <2>1. p \in Submission => p < nextId
    BY Zenon DEF CarryInv
  <2> QED BY <2>1, TypedInts DEF Submission, Payload
<1> QED BY <1>1, <1>2, CarryRemoved, Zenon

LEMMA PurgedRowsCarry ==
  ASSUME Typed, Linked, CarryInv, UNCHANGED wal_enabled, NEW Q \in SUBSET Queues,
         PurgedRows(Q)
  PROVE  CarryInv'
<1> DEFINE U == {u \in TaskId : walDlq[u].queue_name \in Q}
           P == {walDlq[u].payload : u \in U}
<1>1. \A u \in U : walDlq[u] # NoRow /\ walDlq[u].payload \in Payload
  BY TypesAssumption DEF NoRow, Typed, TablesOK, WALTypeOK, DlqRow
<1>2. \A p \in Submission : \A t \in TaskId :
        /\ Carries(t, p)' => Carries(t, p) /\ t \notin U
        /\ MayRun(t, p)' => MayRun(t, p)
  BY <1>1, Zenon DEF PurgedRows, Carries, MayRun, Runnable, Linked, LinkedAt
<1>3. \A u \in U : Carries(u, walDlq[u].payload)
  BY <1>1, Zenon DEF Carries
<1>4. U \in SUBSET TaskId /\ P \in SUBSET Payload /\ \A p \in P : \E u \in U : Carries(u, p)
  BY <1>1, <1>3, Zenon
<1>5. removed' = removed \cup P /\ UNCHANGED <<nextId, acked, answered>>
  BY Zenon DEF PurgedRows
<1> HIDE DEF P, U
<1> QED BY <1>2, <1>4, <1>5, CarriersRemoved, Zenon

LEMMA UnloggedCarry ==
  ASSUME Typed, Linked, CarryInv, UNCHANGED wal_enabled, Unlogged
  PROVE  CarryInv'
<1>1. PICK S \in SUBSET {t \in TaskId : task[t].status = "dead_lettered"} :
        \/ Revived(S) /\ UNCHANGED removed
        \/ Dropped(S) /\ removed' = removed \cup {task[t].payload : t \in S}
  BY Zenon DEF Unlogged
<1>2. /\ ~wal_enabled /\ \A t \in TaskId : RowSame(t)
      /\ UNCHANGED <<nextId, acked, answered>>
  BY <1>1, Zenon DEF Unlogged, Revived, Dropped
<1>3. \A t \in TaskId : walTasks[t] = NoRow /\ walDlq[t] = NoRow
  BY <1>2, Zenon DEF Linked, LinkedAt
<1>4. CASE Revived(S) /\ UNCHANGED removed
  <2>1. \A p \in Submission : \A t \in TaskId :
          /\ Carries(t, p)' => Carries(t, p)
          /\ MayRun(t, p)' => MayRun(t, p)
    BY <1>2, <1>3, <1>4, Zenon
       DEF Revived, Moved, OthersSame, RowSame, Carries, MayRun, Runnable
  <2> QED BY <1>2, <1>4, <2>1, CarryShrinks, Zenon
<1>5. CASE Dropped(S) /\ removed' = removed \cup {task[t].payload : t \in S}
  <2> DEFINE P == {task[t].payload : t \in S}
  <2>1. \A t \in S : Carries(t, task[t].payload) /\ task[t].payload \in Payload
    BY <1>2, BlankStatus, Zenon DEF Carries, Runnable, Typed, TasksOK, Task
  <2>2. \A p \in Submission : \A t \in TaskId :
          /\ Carries(t, p)' => Carries(t, p) /\ t \notin S
          /\ MayRun(t, p)' => MayRun(t, p)
    BY <1>2, <1>3, <1>5, BlankStatus, Zenon
       DEF Dropped, OthersSame, RowSame, Carries, MayRun, Runnable
  <2>3. S \in SUBSET TaskId /\ P \in SUBSET Payload /\ \A p \in P : \E t \in S : Carries(t, p)
    BY <2>1, Zenon
  <2>4. removed' = removed \cup P
    BY <1>5, Zenon
  <2> HIDE DEF P
  <2> QED BY <1>2, <2>2, <2>3, <2>4, CarriersRemoved, Zenon
<1> QED BY <1>1, <1>4, <1>5

LEMMA EmptiedCarry ==
  ASSUME Typed, Linked, CarryInv, UNCHANGED wal_enabled, Emptied
  PROVE  CarryInv'
<1>1. /\ \A t \in TaskId : task'[t] = NoTask
      /\ UNCHANGED <<nextId, acked, answered>>
  BY Zenon DEF Emptied
<1>2. CASE UNCHANGED removed /\ \A t \in TaskId : RowSame(t)
  <2>1. \A p \in Submission : \A t \in TaskId :
          /\ Carries(t, p)' => Carries(t, p)
          /\ MayRun(t, p)' => MayRun(t, p)
    BY <1>1, <1>2, BlankStatus, Zenon DEF RowSame, Carries, MayRun, Runnable
  <2> QED BY <1>1, <1>2, <2>1, CarryShrinks
<1>3. CASE /\ \A t \in TaskId : IF wal_enabled
                                THEN walTasks'[t] = NoRow /\ walDlq'[t] = NoRow
                                ELSE RowSame(t)
           /\ removed' = removed \cup 1..(nextId - 1)
  <2>1. \A p \in Submission : \A t \in TaskId : ~Carries(t, p)' /\ ~MayRun(t, p)'
    BY <1>1, <1>3, BlankStatus, Zenon
       DEF RowSame, Carries, MayRun, Runnable, Linked, LinkedAt
  <2>2. \A p \in 1..(nextId - 1) : p < nextId
    BY DEF Typed, TasksOK
  <2> QED BY <1>1, <1>3, <2>1, <2>2, CarryRemoved, Zenon
<1> QED BY <1>2, <1>3, Zenon DEF Emptied

(* No id takes up a payload: neither by a hand-out, a NACK, an eviction,   *)
(* nor a recovery, which reads the row of the same id.                     *)
LEMMA OthersCarry ==
  ASSUME Typed, Linked, CarryInv, UNCHANGED wal_enabled,
         \/ \E t \in TaskId : Delivered(t) \/ Nacked(t)
         \/ Orphaned \/ Quiet \/ Recovers
  PROVE  CarryInv'
<1>1. ASSUME NEW t \in TaskId, Delivered(t) PROVE CarryInv'
  <2>1. \A p \in Submission : Carries(t, p)' => Carries(t, p)
    BY <1>1, Zenon DEF Delivered, HandedOut, Moved, Logs, FailsToLog, RowSet, RowSame,
                Carries, Runnable
  <2>2. \A p \in Submission : MayRun(t, p)' => MayRun(t, p)
    BY <1>1, Zenon DEF Delivered, HandedOut, Moved, Logs, FailsToLog, RowSet, RowSame,
                MayRun, Runnable, Linked, LinkedAt
  <2> QED BY <1>1, <2>1, <2>2, CarryOne, Zenon DEF Delivered, HandedOut
<1>2. ASSUME NEW t \in TaskId, Nacked(t) PROVE CarryInv'
  <2>1. \A p \in Submission : Carries(t, p)' => Carries(t, p)
    BY <1>2, Zenon DEF Nacked, Failed, Moved, Logs, FailsToLog, RowSet, RowBuried, RowSame,
                Carries, Runnable, Submission
  <2>2. \A p \in Submission : MayRun(t, p)' => MayRun(t, p)
    BY <1>2, Zenon DEF Nacked, Failed, Moved, Logs, FailsToLog, RowSet, RowBuried, RowSame,
                MayRun, Runnable, Submission, Linked, LinkedAt
  <2> QED BY <1>2, <2>1, <2>2, CarryOne, Zenon DEF Nacked, Failed
<1>3. CASE Orphaned
  <2>1. \A p \in Submission : \A t \in TaskId :
          /\ Carries(t, p)' => Carries(t, p)
          /\ MayRun(t, p)' => MayRun(t, p)
    BY <1>3, Zenon DEF Orphaned, Requeued, Moved, OthersSame, RowSame, Carries, MayRun, Runnable
  <2> QED BY <1>3, <2>1, CarryShrinks, Zenon DEF Orphaned, Requeued, history
<1>4. CASE Quiet
  <2>1. \A p \in Submission : \A t \in TaskId :
          (Carries(t, p)' <=> Carries(t, p)) /\ (MayRun(t, p)' <=> MayRun(t, p))
    BY <1>4, CarrySame, Zenon DEF Quiet, durable, RowSame
  <2> QED BY <1>4, <2>1, CarryShrinks, Zenon DEF Quiet, history
<1>5. CASE Recovers
  <2>1. /\ \A t \in LoadPendingTasks : /\ t \in TaskId /\ walTasks[t] # NoRow
                                       /\ walTasks[t].status # "done"
        /\ \A t \in TaskId : walDlq'[t] \in {walDlq[t], NoRow}
    BY <1>5, Zenon DEF LoadPendingTasks, Recovers
  <2>2. ASSUME NEW t \in LoadPendingTasks, NEW p \in Submission
        PROVE  (Carries(t, p)' => Carries(t, p)) /\ (MayRun(t, p)' => MayRun(t, p))
    BY <1>5, <2>1, <2>2, Zenon DEF Recovers, Reloaded, Carries, MayRun, Runnable
  <2>3. ASSUME NEW t \in TaskId \ LoadPendingTasks, NEW p \in Submission
        PROVE  (Carries(t, p)' => Carries(t, p)) /\ (MayRun(t, p)' => MayRun(t, p))
    BY <1>5, <2>1, <2>3, BlankStatus, Zenon DEF Recovers, Reloaded, Carries, MayRun, Runnable
  <2> QED BY <1>5, <2>2, <2>3, CarryShrinks, Zenon DEF Recovers, history
<1> QED BY <1>1, <1>2, <1>3, <1>4, <1>5

LEMMA CarryStep ==
  ASSUME Typed, Linked, CarryInv, DurableMoves
  PROVE  CarryInv'
BY ProducedCarry, AckedCarry, ReplayedCarry, PurgedRowsCarry, UnloggedCarry,
   EmptiedCarry, OthersCarry, Zenon DEF DurableMoves

=============================================================================
