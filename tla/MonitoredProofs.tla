-------------------------- MODULE MonitoredProofs --------------------------
(***************************************************************************)
(* Proofs about the MonitoredBroker: its types, which tasks are being      *)
(* timed, that no acknowledgement goes untimed, and that the counters      *)
(* agree with the containers; for any queues, workers, number of tasks,    *)
(* retry budget, timing, crashes, failing writes and any capacity of the   *)
(* deques of samples.                                                      *)
(***************************************************************************)
EXTENDS MonitoredBroker, BrokerProofs

LEMMA MonitoredIsBroker == MonitoredNext => BrokerNext
BY Zenon DEF MonitoredNext, MonitoredConsume, MonitoredAck, MonitoredNack, MonitoredReset,
             MonitoredRestart, Unmonitored, BrokerNext

-----------------------------------------------------------------------------
(* The effects of the handlers, together with what they record.            *)

Dispatched ==
  \E t \in TaskId, n \in Names : HandedOut(t) /\ RecordConsume(n, t)

Acknowledged ==
  \E t \in TaskId, n \in Names : Completed(t) /\ RecordAck(n, t)

Refused ==
  \E t \in TaskId, n \in Names : /\ Failed(t)
                                 /\ RecordNack(n, t, Exhausted(t))

(* The tasks in flight and the dead letters after the step were so before, *)
(* a task to be run still is, and an id without an object gets none.       *)
Calm ==
  /\ \A t \in TaskId : \A st \in {"in_flight", "dead_lettered"} :
       task'[t].status = st => task[t].status = st
  /\ \A t \in TaskId : /\ task[t].status \in {"pending", "in_flight"}
                            => task'[t].status \in {"pending", "in_flight"}
                       /\ t < nextId /\ task[t] = NoTask => task'[t] = NoTask
  /\ nextId' \in {nextId, nextId + 1}
  /\ UNCHANGED metricsVars

Wiped ==
  /\ \A t \in TaskId : task'[t] = NoTask
  /\ UNCHANGED nextId
  /\ MetricsReset \/ UNCHANGED metricsVars

Restarted ==
  /\ MetricsRestart
  /\ \A t \in TaskId : task'[t].status \notin {"in_flight", "dead_lettered"}

Records == \/ Dispatched \/ Acknowledged \/ Refused \/ Calm \/ Wiped \/ Restarted

LEMMA ConsumeRecords ==
  ASSUME BrokerInd, QMInd', NEW w \in Workers, MonitoredConsume(w)
  PROVE  Dispatched
<1>1. TasksOK /\ TasksOK'
  <2>1. (QMInd => TasksOK)'
    BY IndTasks, PTL
  <2> QED BY <2>1, IndTasks DEF BrokerInd
<1>2. ASSUME NEW q \in Queues, HandleConsume(w, q), RecordConsume(q, Head(queues[q]))
      PROVE  Dispatched
  <2>1. HandedOut(Head(queues[q]))
    BY <1>2, ConsumePops, PopLeftEffect DEF Pops, BrokerInd
  <2> QED BY <1>2, <2>1 DEF HandedOut, Dispatched, Names
<1>3. ASSUME HandleConsumeAny(w), NEW t \in in_flight' \ in_flight, RecordConsume(Star, t)
      PROVE  Dispatched
  <2>1. PICK q \in Queues : Pops(w, q)
    BY <1>3, ConsumeAnyPops DEF BrokerInd
  <2>2. PICK u : u = Head(queues[q]) /\ HandedOut(u)
    BY <2>1, PopLeftEffect DEF Pops, BrokerInd
  <2>3. t \in TaskId /\ task'[t].status = "in_flight" /\ task[t].status # "in_flight"
    BY <1>1, <1>3 DEF TasksOK
  <2>4. t = u
    BY <2>2, <2>3 DEF HandedOut, OthersSame
  <2> QED BY <1>3, <2>2, <2>3, <2>4 DEF Dispatched, Names
<1> QED BY <1>2, <1>3 DEF MonitoredConsume

LEMMA ReportRecords ==
  ASSUME BrokerInd, queue_name \in [Workers -> Names], NEW w \in Workers,
         MonitoredAck(w) \/ MonitoredNack(w)
  PROVE  Acknowledged \/ Refused \/ Calm
<1> DEFINE t == executing[w]
<1>1. t \in TaskId /\ queue_name[w] \in Names /\ TasksOK
  BY IndTasks, Zenon
     DEF MonitoredAck, MonitoredNack, HandleAck, HandleNack, BrokerInd, HistoryOK
<1>2. CASE t \notin in_flight
  <2>1. UNCHANGED qmVars /\ UNCHANGED metricsVars
    BY <1>2, Zenon DEF MonitoredAck, MonitoredNack, HandleAck, HandleNack, Acknowledge,
                NegativeAcknowledge
  <2> QED BY <2>1 DEF qmVars, Calm
<1>3. CASE t \in in_flight /\ MonitoredAck(w)
  <2>1. Acknowledge(t) /\ RecordAck(queue_name[w], t)
    BY <1>3 DEF MonitoredAck, HandleAck
  <2>2. Completed(t)
    BY <1>1, <2>1, AcknowledgeEffect DEF BrokerInd
  <2> QED BY <1>1, <2>1, <2>2, Zenon DEF Acknowledged
<1>4. CASE t \in in_flight /\ MonitoredNack(w)
  <2>1. NegativeAcknowledge(t) /\ RecordNack(task[t].queue_name, t, Exhausted(t))
    BY <1>4, Zenon DEF MonitoredNack, HandleNack
  <2>2. Failed(t)
    BY <1>1, <2>1, NegativeAcknowledgeEffect, Zenon DEF BrokerInd
  <2>3. task[t].queue_name \in Names
    BY <2>2 DEF Failed, Moved, Task, Names
  <2> QED BY <1>1, <2>1, <2>2, <2>3 DEF Refused
<1> QED BY <1>2, <1>3, <1>4

(* The effects of the handlers that record nothing.                        *)
LEMMA CalmEffects ==
  ASSUME TasksOK, UNCHANGED metricsVars,
         \/ \E q, p : Created(q, p)
         \/ \E S : Revived(S) \/ Dropped(S) \/ Requeued(S)
         \/ UNCHANGED <<task, nextId>>
  PROVE  Calm
<1>1. ASSUME NEW q, NEW p, Created(q, p) PROVE Calm
  <2>1. PICK n \in TaskId : /\ n = nextId /\ task[n] = NoTask
                            /\ task'[n].status = "pending"
    BY <1>1 DEF Created
  <2>2. \A t \in TaskId \ {n} : task'[t] = task[t]
    BY <1>1, <2>1 DEF Created, OthersSame
  <2>3. ~(n < nextId)
    BY <2>1 DEF TasksOK
  <2>4. nextId' = nextId + 1
    BY <1>1 DEF Created
  <2> QED BY <2>1, <2>2, <2>3, <2>4, Zenon DEF Calm
<1>2. ASSUME NEW S, Revived(S) PROVE Calm
  <2>1. \A t \in S \cap TaskId : task[t] # NoTask
    BY <1>2 DEF Revived, Moved, NoTask
  <2> QED BY <1>2, <2>1 DEF Revived, Moved, OthersSame, Calm
<1>3. ASSUME NEW S, Dropped(S) PROVE Calm
  BY <1>3 DEF Dropped, OthersSame, NoTask, Calm
<1>4. ASSUME NEW S, Requeued(S) PROVE Calm
  <2>1. \A t \in S \cap in_flight : task[t] # NoTask
    BY <1>4 DEF Requeued, Moved, NoTask
  <2> QED BY <1>4, <2>1 DEF Requeued, Moved, OthersSame, Calm
<1>5. CASE UNCHANGED <<task, nextId>>
  BY <1>5 DEF Calm
<1> QED BY <1>1, <1>2, <1>3, <1>4, <1>5

LEMMA UnmonitoredRecords ==
  ASSUME BrokerInd, Unmonitored
  PROVE  Calm
<1>1. TasksOK /\ UNCHANGED metricsVars
  BY IndTasks DEF BrokerInd, Unmonitored
<1>2. ASSUME NEW q \in Queues, HandleProduce(q) PROVE Calm
  <2>1. nextId \in Payload
    BY <1>2, TypesAssumption
       DEF HandleProduce, Enqueue, BrokerInd, QMInd, ObjectsOK, Payload
  <2>2. Created(q, nextId)
    BY <1>2, <2>1, EnqueueEffect DEF HandleProduce, BrokerInd
  <2> QED BY <1>1, <2>2, CalmEffects, Zenon
<1>3. ASSUME RegistryOnly PROVE Calm
  <2>1. UNCHANGED <<task, nextId>>
    BY <1>3, RegistryFrame
  <2> QED BY <1>1, <2>1, CalmEffects
<1>4. ASSUME NEW t \in TaskId, HandleDlqReplay(t) PROVE Calm
  <2>1. CASE wal_enabled
    <3>1. ReplayDlqTask(t) /\ Enqueue(walDlq[t].queue_name, walDlq[t].payload)
      BY <1>4, <2>1 DEF HandleDlqReplay
    <3>2. walDlq[t].queue_name \in Queues /\ walDlq[t].payload \in Payload
      BY <3>1 DEF ReplayDlqTask, BrokerInd, TablesOK, WALTypeOK, DlqRow
    <3>3. Created(walDlq[t].queue_name, walDlq[t].payload)
      BY <3>1, <3>2, EnqueueEffect DEF BrokerInd
    <3> QED BY <1>1, <3>3, CalmEffects
  <2>2. CASE ~wal_enabled
    <3>1. Revived({t})
      BY <1>4, <2>2, DlqRetryEffect DEF HandleDlqReplay, BrokerInd
    <3> QED BY <1>1, <3>1, CalmEffects
  <2> QED BY <2>1, <2>2
<1>5. ASSUME NEW Q \in SUBSET Queues, HandleDlqPurge(Q) PROVE Calm
  <2>1. CASE wal_enabled
    <3>1. UNCHANGED <<task, nextId>>
      BY <1>5, <2>1 DEF HandleDlqPurge, qmVars
    <3> QED BY <1>1, <3>1, CalmEffects
  <2>2. CASE ~wal_enabled
    <3>1. \/ Q = Queues /\ DlqPurge
          \/ \E q \in Queues : Q = {q} /\ DlqPurgeQueue(q)
      BY <1>5, <2>2 DEF HandleDlqPurge
    <3>2. \E S : Dropped(S)
      BY <3>1, DropEffect, Zenon DEF BrokerInd
    <3> QED BY <1>1, <3>2, CalmEffects
  <2> QED BY <2>1, <2>2
<1>6. CASE ReplayDlqHandler
  <2>1. \E S : Revived(S)
    BY <1>6, DlqRetryAllEffect DEF ReplayDlqHandler, BrokerInd
  <2> QED BY <1>1, <2>1, CalmEffects
<1>7. CASE BrokerEvict
  <2>1. Requeued(Orphans)
    BY <1>7, RequeueEachEffect DEF BrokerEvict, BrokerInd
  <2> QED BY <1>1, <2>1, CalmEffects
<1> QED BY <1>2, <1>3, <1>4, <1>5, <1>6, <1>7, Zenon DEF Unmonitored, RegistryOnly

LEMMA MonitoredRecords ==
  ASSUME BrokerInd, BrokerInd', queue_name \in [Workers -> Names], MonitoredNext
  PROVE  Records
<1>1. CASE MonitoredReset
  <2>1. Wiped
    BY <1>1 DEF MonitoredReset, ResetHandler, Reset, Wiped
  <2> QED BY <2>1 DEF Records
<1>2. CASE MonitoredRestart
  <2>1. Restart
    BY <1>2 DEF MonitoredRestart, CrashAndRecover, CrashDuringReplay
  <2>2. Reloaded
    BY <2>1, RestartEffect
  <2>3. \A t \in TaskId : task'[t].status \notin {"in_flight", "dead_lettered"}
    BY <2>2 DEF Reloaded, NoTask
  <2> QED BY <1>2, <2>3 DEF MonitoredRestart, Restarted, Records
<1>3. ASSUME NEW w \in Workers, MonitoredConsume(w) PROVE Records
  BY <1>3, ConsumeRecords DEF BrokerInd, Records
<1>4. ASSUME NEW w \in Workers, MonitoredAck(w) \/ MonitoredNack(w) PROVE Records
  BY <1>4, ReportRecords DEF Records
<1>5. CASE Unmonitored
  BY <1>5, UnmonitoredRecords DEF Records
<1> QED BY <1>1, <1>2, <1>3, <1>4, <1>5, Zenon DEF MonitoredNext

-----------------------------------------------------------------------------
(* The collector's values.                                                 *)
MetricsOK ==
  /\ queue_name \in [Workers -> Names]
  /\ tracked \subseteq TaskId
  /\ latency_samples \in [Names -> 0..SAMPLES]
  /\ total_consumed \in [Names -> Nat] /\ total_acked \in [Names -> Nat]
  /\ total_nacked \in [Names -> Nat] /\ total_dlq \in [Names -> Nat]

LEMMA ZeroType == Zero \in [Names -> Nat] /\ Zero \in [Names -> 0..SAMPLES]
<1>1. 0 \in Nat /\ 0 \in 0..SAMPLES
  BY MetricsAssumption
<1> QED BY <1>1 DEF Zero

LEMMA IncrementedType ==
  ASSUME NEW f \in [Names -> Nat], NEW n \in Names
  PROVE  Incremented(f, n) \in [Names -> Nat]
BY DEF Incremented

LEMMA MetricsStep ==
  ASSUME MetricsOK, Records, UNCHANGED queue_name
  PROVE  MetricsOK'
<1>1. CASE Dispatched
  BY <1>1, IncrementedType DEF Dispatched, RecordConsume, MetricsOK
<1>2. CASE Acknowledged
  <2>1. PICK t \in TaskId, n \in Names : RecordAck(n, t)
    BY <1>2 DEF Acknowledged
  <2>2. latency_samples[n] < SAMPLES =>
          Incremented(latency_samples, n) \in [Names -> 0..SAMPLES]
    BY MetricsAssumption DEF MetricsOK, Incremented
  <2>3. latency_samples' \in [Names -> 0..SAMPLES]
    BY <2>1, <2>2 DEF RecordAck, MetricsOK
  <2>4. total_acked' \in [Names -> Nat]
    BY <2>1, IncrementedType DEF RecordAck, MetricsOK
  <2> QED BY <2>1, <2>3, <2>4, Zenon DEF RecordAck, MetricsOK
<1>3. CASE Refused
  <2>1. PICK t \in TaskId, n \in Names : RecordNack(n, t, Exhausted(t))
    BY <1>3 DEF Refused
  <2>2. total_nacked' \in [Names -> Nat] /\ total_dlq' \in [Names -> Nat]
    BY <2>1, IncrementedType, Zenon DEF RecordNack, MetricsOK
  <2> QED BY <2>1, <2>2 DEF RecordNack, MetricsOK
<1>4. CASE UNCHANGED metricsVars
  BY <1>4 DEF metricsVars, MetricsOK
<1>5. CASE ClearCounters /\ tracked' \subseteq tracked
  BY <1>5, ZeroType, Zenon DEF ClearCounters, MetricsOK
<1> QED BY <1>1, <1>2, <1>3, <1>4, <1>5
        DEF Records, Calm, Wiped, Restarted, MetricsReset, MetricsRestart

(* TimedTasksLive in terms of the Task objects.                            *)
Timed ==
  /\ \A t \in TaskId : task[t].status = "in_flight" => t \in tracked
  /\ \A t \in tracked : \/ task[t].status \in {"pending", "in_flight"}
                        \/ task[t] = NoTask /\ t < nextId

LEMMA TimedTasks == TasksOK /\ tracked \subseteq TaskId => (TimedTasksLive <=> Timed)
<1> SUFFICES ASSUME TasksOK, tracked \subseteq TaskId PROVE TimedTasksLive <=> Timed
  OBVIOUS
<1>1. Live = {t \in TaskId : task[t].status \in {"pending", "in_flight"}}
  BY DEF TasksOK, Live
<1>2. Forgotten = {t \in TaskId : task[t] = NoTask /\ t < nextId}
  BY TypesAssumption DEF TasksOK, Forgotten, TaskId
<1>3. in_flight = {t \in TaskId : task[t].status = "in_flight"}
  BY DEF TasksOK
<1> QED BY <1>1, <1>2, <1>3, Zenon DEF TimedTasksLive, Timed

LEMMA TimedStep ==
  ASSUME TasksOK, MetricsOK, Timed, Records
  PROVE  Timed'
<1>1. tracked \subseteq TaskId /\ nextId \in Int /\ \A t \in TaskId : t \in Int
  BY DEF MetricsOK, TasksOK, TaskId
<1>2. CASE Dispatched
  <2>1. PICK t \in TaskId : HandedOut(t) /\ tracked' = tracked \cup {t}
    BY <1>2 DEF Dispatched, RecordConsume
  <2>2. /\ task'[t].status = "in_flight" /\ nextId' = nextId
        /\ \A u \in TaskId \ {t} : task'[u] = task[u]
    BY <2>1 DEF HandedOut, Moved, OthersSame
  <2> QED BY <1>1, <2>1, <2>2, Zenon DEF Timed
<1>3. ASSUME NEW t \in TaskId, Completed(t) \/ Failed(t), tracked' = tracked \ {t}
      PROVE  Timed'
  <2>1. /\ task'[t].status # "in_flight" /\ nextId' = nextId
        /\ \A u \in TaskId \ {t} : task'[u] = task[u]
    BY <1>3 DEF Completed, Failed, Moved, OthersSame
  <2> QED BY <1>1, <1>3, <2>1, Zenon DEF Timed
<1>4. CASE Calm
  BY <1>1, <1>4 DEF Calm, metricsVars, Timed
<1>5. CASE Wiped
  <2>1. \A t \in tracked : t < nextId
    BY <1>1 DEF Timed, TasksOK, NoTask
  <2>2. /\ tracked' = tracked /\ nextId' = nextId
        /\ \A t \in TaskId : task'[t] = NoTask
    BY <1>5 DEF Wiped, MetricsReset, metricsVars
  <2>3. NoTask.status # "in_flight"
    BY DEF NoTask
  <2> QED BY <1>1, <2>1, <2>2, <2>3 DEF Timed
<1>6. CASE Restarted
  BY <1>6 DEF Restarted, MetricsRestart, Timed
<1> QED BY <1>2, <1>3, <1>4, <1>5, <1>6
        DEF Records, Acknowledged, Refused, RecordAck, RecordNack

LEMMA EveryAckStep ==
  ASSUME TasksOK, MetricsOK, Timed, EveryAckTimed, Records
  PROVE  EveryAckTimed'
<1>1. CASE Acknowledged
  <2>1. PICK t \in TaskId, n \in Names : Completed(t) /\ RecordAck(n, t)
    BY <1>1 DEF Acknowledged
  <2>2. t \in tracked
    BY <2>1 DEF Completed, Moved, Timed
  <2>3. /\ total_acked'[n] = total_acked[n] + 1
        /\ latency_samples'[n] = IF latency_samples[n] < SAMPLES
                                 THEN latency_samples[n] + 1 ELSE latency_samples[n]
        /\ \A m \in Names \ {n} : /\ total_acked'[m] = total_acked[m]
                                  /\ latency_samples'[m] = latency_samples[m]
    BY <2>1, <2>2 DEF RecordAck, Incremented, MetricsOK
  <2>4. /\ total_acked[n] \in Nat /\ SAMPLES \in Nat
        /\ latency_samples[n] = IF total_acked[n] < SAMPLES THEN total_acked[n]
                                ELSE SAMPLES
    BY MetricsAssumption, Zenon DEF EveryAckTimed, MetricsOK
  <2>5. latency_samples'[n] = IF total_acked'[n] < SAMPLES THEN total_acked'[n]
                              ELSE SAMPLES
    BY <2>3, <2>4
  <2> QED BY <2>3, <2>5 DEF EveryAckTimed
<1>2. CASE UNCHANGED <<latency_samples, total_acked>>
  BY <1>2 DEF EveryAckTimed
<1>3. CASE ClearCounters
  BY <1>3, MetricsAssumption DEF ClearCounters, Zero, EveryAckTimed
<1> QED BY <1>1, <1>2, <1>3, Zenon
        DEF Records, Dispatched, Refused, Calm, Wiped, Restarted, RecordConsume,
            RecordNack, MetricsReset, MetricsRestart, metricsVars

-----------------------------------------------------------------------------
MonitoredInd == BrokerInd /\ MetricsOK /\ Timed

LEMMA MonitoredInitInd == MonitoredInit => MonitoredInd /\ EveryAckTimed
<1> SUFFICES ASSUME MonitoredInit PROVE MonitoredInd /\ EveryAckTimed
  OBVIOUS
<1>1. BrokerInd
  BY BrokerInitInd DEF MonitoredInit
<1>2. MetricsOK
  BY ZeroType DEF MonitoredInit, MetricsInit, MetricsOK
<1>3. in_flight = {} /\ tracked = {} /\ TasksOK
  BY <1>1, IndTasks, Zenon DEF MonitoredInit, MetricsInit, BrokerInit, BrokerInd
<1>4. Timed
  BY <1>3 DEF Timed, TasksOK
<1>5. EveryAckTimed
  BY MetricsAssumption DEF MonitoredInit, MetricsInit, Zero, EveryAckTimed
<1> QED BY <1>1, <1>2, <1>4, <1>5, Zenon DEF MonitoredInd

LEMMA MonitoredStepInd ==
  /\ MonitoredInd /\ [MonitoredNext]_monitoredVars => MonitoredInd'
  /\ MonitoredInd /\ EveryAckTimed /\ [MonitoredNext]_monitoredVars => EveryAckTimed'
<1>1. ASSUME MonitoredInd, UNCHANGED monitoredVars
      PROVE  MonitoredInd' /\ (EveryAckTimed => EveryAckTimed')
  <2>1. BrokerInd'
    BY <1>1, BrokerStepInd, Zenon DEF monitoredVars, MonitoredInd
  <2>2. MetricsOK' /\ (EveryAckTimed => EveryAckTimed')
    BY <1>1 DEF monitoredVars, metricsVars, MonitoredInd, MetricsOK, EveryAckTimed
  <2>3. Timed'
    BY <1>1 DEF monitoredVars, metricsVars, brokerVars, MonitoredInd, Timed
  <2> QED BY <2>1, <2>2, <2>3, Zenon DEF MonitoredInd
<1>2. ASSUME MonitoredInd, MonitoredNext
      PROVE  MonitoredInd' /\ (EveryAckTimed => EveryAckTimed')
  <2>1. BrokerInd /\ BrokerInd' /\ TasksOK
    BY <1>2, MonitoredIsBroker, BrokerStepInd, IndTasks DEF MonitoredInd, BrokerInd
  <2>2. Records /\ UNCHANGED queue_name
    BY <1>2, <2>1, MonitoredRecords, Zenon DEF MonitoredInd, MetricsOK, MonitoredNext
  <2> QED BY <1>2, <2>1, <2>2, MetricsStep, TimedStep, EveryAckStep, Zenon DEF MonitoredInd
<1> QED BY <1>1, <1>2

(* The broker with its collector stays in range; a deque of samples never  *)
(* exceeds its capacity.                                                   *)
THEOREM MonitoredTypeCorrect == MonitoredSpec => []MonitoredTypeOK
<1>1. MonitoredInd => MonitoredTypeOK
  BY BrokerIndType, Zenon DEF MonitoredInd, MetricsOK, MonitoredTypeOK
<1> QED BY <1>1, MonitoredInitInd, MonitoredStepInd, PTL DEF MonitoredSpec

(* _dequeue_timestamps has an entry for every task in flight, and none for *)
(* a task that was acknowledged or dead-lettered: whatever is retried,     *)
(* evicted, replayed or fails to be written, no entry is left behind but   *)
(* that of a task a reset dropped.                                         *)
THEOREM MonitoredTimedTasksLive == MonitoredSpec => []TimedTasksLive
<1>1. MonitoredInd => TimedTasksLive
  BY TimedTasks, IndTasks DEF MonitoredInd, BrokerInd, MetricsOK
<1> QED BY <1>1, MonitoredInitInd, MonitoredStepInd, PTL DEF MonitoredSpec

(* No acknowledgement goes untimed: the number of samples of a queue is    *)
(* the number of its acknowledgements, up to the capacity of the deque.    *)
THEOREM MonitoredEveryAckTimed == MonitoredSpec => []EveryAckTimed
BY MonitoredInitInd, MonitoredStepInd, PTL DEF MonitoredSpec

-----------------------------------------------------------------------------
(* What the counters count.                                                *)

(* The counters are finite functions, summed as in QueueManagerProofs.     *)
LEMMA SumLaws ==
  ASSUME IsFiniteSet(Queues)
  PROVE  /\ Sum(Zero) = 0
         /\ \A f \in [Names -> Nat] : Sum(f) \in Nat
         /\ \A f \in [Names -> Nat], n \in Names : Sum(Incremented(f, n)) = Sum(f) + 1
<1>1. IsFiniteSet(Names)
  BY FS_AddElement DEF Names
<1>2. \A f : Sum(f) = Sums(f)
  BY Zenon DEF Sum, Sums
<1>3. Sums(Zero) = 0
  BY <1>1, SumsZero, Zenon DEF Zero
<1>4. \A f \in [Names -> Nat] : Sums(f) \in Nat
  BY <1>1, SumsType, Zenon
<1>5. ASSUME NEW f \in [Names -> Nat], NEW n \in Names
      PROVE  Sums(Incremented(f, n)) = Sums(f) + 1
  <2>1. PICK e : e = [f EXCEPT ![n] = f[n] + 1]
    BY Zenon
  <2>2. Sums(e) = Sums(f) + 1
    BY <1>1, <2>1, SumsIncremented, Zenon
  <2> QED BY <2>1, <2>2, Zenon DEF Incremented
<1> QED BY <1>2, <1>3, <1>4, <1>5, Zenon

Balanced ==
  Balance(Sum(total_consumed), Sum(total_acked), Sum(total_nacked), Sum(total_dlq),
          in_flight, Having(task, "dead_lettered"))

LEMMA BalancedCounters == QMInd /\ Balanced => CountersBalance
<1> SUFFICES ASSUME QMInd, Balanced PROVE CountersBalance
  OBVIOUS
<1>1. Lists(dlq, Having(task, "dead_lettered"))
  BY DEF QMInd, Placed
<1>2. Cardinality(Having(task, "dead_lettered")) = Len(dlq)
  BY <1>1, ListsLength, Zenon
<1> QED BY <1>2 DEF Balanced, Balance, CountersBalance

LEMMA BalancedStep ==
  ASSUME IsFiniteSet(Queues), TasksOK, TasksOK', MetricsOK, Balanced, Records
  PROVE  Balanced'
<1> DEFINE c == Sum(total_consumed)
           a == Sum(total_acked)
           n == Sum(total_nacked)
           d == Sum(total_dlq)
           F == in_flight
           G == in_flight'
           D == Having(task, "dead_lettered")
           E == Having(task, "dead_lettered")'
<1>1. /\ F = {t \in TaskId : task[t].status = "in_flight"}
      /\ G = {t \in TaskId : task'[t].status = "in_flight"}
      /\ D = {t \in TaskId : task[t].status = "dead_lettered"}
      /\ E = {t \in TaskId : task'[t].status = "dead_lettered"}
  BY DEF TasksOK, Having
<1>2. Balance(c, a, n, d, F, D)
  BY DEF Balanced
<1>3. Balance(c', a', n', d', G, E) => Balanced'
  BY DEF Balanced
<1>4. F \in SUBSET TaskId /\ D \in SUBSET TaskId /\ G \in SUBSET TaskId /\ E \in SUBSET TaskId
  BY <1>1
<1>5. CASE Dispatched
  <2>1. PICK t \in TaskId, m \in Names : HandedOut(t) /\ RecordConsume(m, t)
    BY <1>5, Zenon DEF Dispatched
  <2>2. G \subseteq F \cup {t} /\ E \subseteq D
    BY <1>1, <2>1, Zenon DEF HandedOut, Moved, OthersSame
  <2>3. c' = c + 1 /\ a' = a /\ n' = n /\ d' = d
    BY <2>1, SumLaws, Zenon DEF RecordConsume, MetricsOK
  <2> HIDE DEF c, a, n, d, F, G, D, E
  <2> QED BY <1>2, <1>3, <1>4, <2>2, <2>3, BalanceMoves, Zenon
<1>6. CASE Acknowledged
  <2>1. PICK t \in TaskId, m \in Names : Completed(t) /\ RecordAck(m, t)
    BY <1>6 DEF Acknowledged
  <2>2. t \in F /\ G \subseteq F \ {t} /\ E \subseteq D
    BY <1>1, <2>1, Zenon DEF Completed, Moved, OthersSame
  <2>3. c' = c /\ a' = a + 1 /\ n' = n /\ d' = d
    BY <2>1, SumLaws DEF RecordAck, MetricsOK
  <2> HIDE DEF c, a, n, d, F, G, D, E
  <2> QED BY <1>2, <1>3, <1>4, <2>2, <2>3, BalanceMoves, Zenon
<1>7. CASE Refused
  <2>1. PICK t \in TaskId, m \in Names : Failed(t) /\ RecordNack(m, t, Exhausted(t))
    BY <1>7, Zenon DEF Refused
  <2>2. /\ t \in F /\ G \subseteq F \ {t}
        /\ E \subseteq IF Exhausted(t) THEN D \cup {t} ELSE D
    BY <1>1, <2>1, Zenon DEF Failed, Moved, OthersSame
  <2>3. /\ c' = c /\ a' = a /\ n' = n + 1
        /\ d' = IF Exhausted(t) THEN d + 1 ELSE d
    BY <2>1, SumLaws DEF RecordNack, MetricsOK
  <2> HIDE DEF c, a, n, d, F, G, D, E
  <2>4. CASE Exhausted(t)
    BY <1>2, <1>3, <1>4, <2>2, <2>3, <2>4, BalanceMoves, Zenon
  <2>5. CASE ~Exhausted(t)
    BY <1>2, <1>3, <1>4, <2>2, <2>3, <2>5, BalanceMoves, Zenon
  <2> QED BY <2>4, <2>5
<1>8. ASSUME UNCHANGED metricsVars, G \subseteq F, E \subseteq D PROVE Balanced'
  <2>1. c' = c /\ a' = a /\ n' = n /\ d' = d
    BY <1>8 DEF metricsVars
  <2> HIDE DEF c, a, n, d, F, G, D, E
  <2> QED BY <1>2, <1>3, <1>4, <1>8, <2>1, BalanceMoves, Zenon
<1>9. ASSUME ClearCounters, G = {}, E = {} PROVE Balanced'
  <2>1. c' = 0 /\ a' = 0 /\ n' = 0 /\ d' = 0
    BY <1>9, SumLaws, Zenon DEF ClearCounters
  <2> HIDE DEF c, a, n, d, F, G, D, E
  <2> QED BY <1>2, <1>3, <1>4, <1>9, <2>1, BalanceMoves, Zenon
<1>10. CASE Calm
  <2>1. G \subseteq F /\ E \subseteq D
    BY <1>1, <1>10, Zenon DEF Calm
  <2> QED BY <1>8, <1>10, <2>1, Zenon DEF Calm
<1>11. CASE Wiped
  <2>1. G = {} /\ E = {}
    BY <1>1, <1>11, BlankStatus, Zenon DEF Wiped
  <2> QED BY <1>8, <1>9, <1>11, <2>1, Zenon DEF Wiped, MetricsReset
<1>12. CASE Restarted
  <2>1. G = {} /\ E = {}
    BY <1>1, <1>12 DEF Restarted
  <2> QED BY <1>9, <1>12, <2>1, Zenon DEF Restarted, MetricsRestart
<1> QED BY <1>5, <1>6, <1>7, <1>10, <1>11, <1>12, Zenon DEF Records

(* The counters of STATS add up, for any number of queues, through         *)
(* evictions, resets, failing writes and restarts: no dispatch is          *)
(* acknowledged or refused twice, none in flight is forgotten by them, and *)
(* every dead letter was counted.                                          *)
THEOREM MonitoredCountersBalance ==
  ASSUME IsFiniteSet(Queues)
  PROVE  MonitoredSpec => []CountersBalance
<1>1. MonitoredInit => Balanced
  <2> SUFFICES ASSUME MonitoredInit PROVE Balanced
    OBVIOUS
  <2>1. in_flight = {} /\ QMInd /\ dlq = << >>
    BY BrokerInitInd DEF MonitoredInit, BrokerInit, BrokerInd, DLQInit
  <2>2. Having(task, "dead_lettered") = {}
    BY <2>1 DEF QMInd, Placed, Lists, Range
  <2>3. /\ total_consumed = Zero /\ total_acked = Zero
        /\ total_nacked = Zero /\ total_dlq = Zero
    BY DEF MonitoredInit, MetricsInit
  <2>4. Balance(0, 0, 0, 0, {}, {})
    BY FS_EmptySet DEF Balance
  <2>5. Sum(Zero) = 0
    BY SumLaws
  <2> QED BY <2>1, <2>2, <2>3, <2>4, <2>5, Zenon DEF Balanced
<1>2. MonitoredInd /\ Balanced /\ [MonitoredNext]_monitoredVars => Balanced'
  <2>1. ASSUME Balanced, UNCHANGED monitoredVars PROVE Balanced'
    BY <2>1 DEF monitoredVars, metricsVars, brokerVars, Balanced, Having
  <2>2. ASSUME MonitoredInd, Balanced, MonitoredNext PROVE Balanced'
    <3>1. (QMInd => TasksOK)'
      BY IndTasks, PTL
    <3>2. BrokerInd /\ BrokerInd' /\ TasksOK /\ TasksOK'
      BY <2>2, <3>1, MonitoredIsBroker, BrokerStepInd, IndTasks, Zenon DEF MonitoredInd, BrokerInd
    <3>3. Records
      BY <2>2, <3>2, MonitoredRecords, Zenon DEF MonitoredInd, MetricsOK
    <3> QED BY <2>2, <3>2, <3>3, BalancedStep, Zenon DEF MonitoredInd
  <2> QED BY <2>1, <2>2, Zenon
<1>3. MonitoredInd /\ Balanced => CountersBalance
  BY BalancedCounters DEF MonitoredInd, BrokerInd
<1> QED BY <1>1, <1>2, <1>3, MonitoredInitInd, MonitoredStepInd, PTL DEF MonitoredSpec

=============================================================================
