--------------------------- MODULE MonitoredBroker ---------------------------
(***************************************************************************)
(* The broker with its MetricsCollector: every handler of Broker together  *)
(* with the record_ call it makes.  The call comes after the change of the *)
(* queues and before the WalStore call, so it also happens when the latter *)
(* raises.                                                                 *)
(***************************************************************************)
EXTENDS Broker, MetricsCollector

CONSTANT MaxDispatches  \* bound: dispatches counted between two resets

ASSUME MonitoredAssumption == MaxDispatches \in Nat

VARIABLE queue_name  \* queue_name of each BaseWorker; Star for a wildcard one

monitoredVars == <<brokerVars, metricsVars, queue_name>>

MonitoredInit ==
  BrokerInit /\ MetricsInit /\ queue_name \in [Workers -> Names]

Sum(total) == FoldFunction(+, 0, total)

(* The task is recorded under the name in the message, the worker's.       *)
MonitoredConsume(w) ==
  /\ Sum(total_consumed) < MaxDispatches
  /\ \/ \E q \in Queues : /\ queue_name[w] = q
                          /\ HandleConsume(w, q)
                          /\ RecordConsume(q, Head(queues[q]))
     \/ /\ queue_name[w] = Star
        /\ HandleConsumeAny(w)
        /\ \E t \in in_flight' \ in_flight : RecordConsume(Star, t)

(* Mutant: the ACK of a task that is not in flight is recorded, too.       *)
MMonitoredAck(w) ==
  HandleAck(w) /\ RecordAck(queue_name[w], executing[w])

(* record_ack gets the name in the message too, record_nack the queue of   *)
(* the task.                                                               *)
MonitoredAck(w) ==
  LET t == executing[w]
  IN  /\ HandleAck(w)
      /\ IF t \in in_flight THEN RecordAck(queue_name[w], t)
         ELSE UNCHANGED metricsVars

MonitoredNack(w) ==
  LET t == executing[w]
  IN  /\ HandleNack(w)
      /\ IF t \in in_flight THEN RecordNack(task[t].queue_name, t, Exhausted(t))
         ELSE UNCHANGED metricsVars

(* _reset_handler: an exception of clear_all_data leaves the metrics.      *)
MonitoredReset ==
  /\ ResetHandler
  /\ IF wal_failures' = wal_failures THEN MetricsReset
     ELSE UNCHANGED metricsVars

MonitoredRestart ==
  /\ CrashAndRecover \/ \E t \in TaskId : CrashDuringReplay(t)
  /\ MetricsRestart

(* The handlers that record nothing.                                       *)
Unmonitored ==
  /\ \/ \E q \in Queues : HandleProduce(q)
     \/ \E w \in Workers : \/ \E q \in Queues : HandleConsumeEmpty(w, q)
                           \/ HandleRegister(w)
                           \/ HandleHeartbeat(w)
                           \/ WorkerLost(w)
                           \/ ExecutionEnds(w)
     \/ \E t \in TaskId : HandleDlqReplay(t)
     \/ \E Q \in SUBSET Queues : HandleDlqPurge(Q)
     \/ ReplayDlqHandler
     \/ BrokerEvict
     \/ BrokerTick
  /\ UNCHANGED metricsVars

MonitoredNext ==
  /\ \/ \E w \in Workers : \/ MonitoredConsume(w)
                           \/ MonitoredAck(w)
                           \/ MonitoredNack(w)
     \/ MonitoredReset
     \/ MonitoredRestart
     \/ Unmonitored
  /\ UNCHANGED queue_name

MonitoredSpec == MonitoredInit /\ [][MonitoredNext]_monitoredVars

-----------------------------------------------------------------------------
(* The values of broker and collector.                                     *)
MonitoredTypeOK ==
  /\ BrokerTypeOK
  /\ tracked \subseteq TaskId
  /\ latency_samples \in [Names -> 0..SAMPLES]
  /\ {total_consumed, total_acked, total_nacked, total_dlq}
       \subseteq [Names -> Nat]

(* Ids whose Task object is gone.                                          *)
Forgotten == {t \in 1..(nextId - 1) : task[t] = NoTask}

(* tracked_in_flight: every task in flight is being timed, and a timed     *)
(* task is in flight, or waits to be handed out again after the eviction   *)
(* of its worker, or was dropped by a reset while in flight (the entry of  *)
(* such a task is never removed).  No acknowledgement, retry, write        *)
(* failure or crash leaves another entry behind.                           *)
TimedTasksLive ==
  /\ in_flight \subseteq tracked
  /\ tracked \subseteq Live \cup Forgotten

(* The counters of the STATS command add up: a dispatch that was counted   *)
(* is counted again as acknowledged or failed, or is still in flight, or   *)
(* its task was taken from an evicted worker; a dead letter was counted    *)
(* as one and as a failure.                                                *)
CountersBalance ==
  /\ Sum(total_acked) + Sum(total_nacked) + Cardinality(in_flight)
       <= Sum(total_consumed)
  /\ Len(dlq) <= Sum(total_dlq)
  /\ Sum(total_dlq) <= Sum(total_nacked)

(* Every acknowledgement since the last reset or start contributes its     *)
(* latency to the samples of its queue, until the deque is full.           *)
EveryAckTimed ==
  \A n \in Names : latency_samples[n] =
                     IF total_acked[n] < SAMPLES THEN total_acked[n]
                     ELSE SAMPLES

=============================================================================
