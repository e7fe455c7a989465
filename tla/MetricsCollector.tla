-------------------------- MODULE MetricsCollector --------------------------
(***************************************************************************)
(* broker/metrics_collector.py: the lifetime counters and the tracking of  *)
(* dispatched tasks that the dashboard and the STATS and METRICS commands  *)
(* report.  One operator per method; the handlers of server.py that call   *)
(* them are in MonitoredBroker.  A latency is not told apart from another, *)
(* only whether it was taken; the sliding windows of timestamps behind     *)
(* produce_rate and throughput, total_produced, and _task_queues, which is *)
(* written beside _dequeue_timestamps and never read, are left out.        *)
(***************************************************************************)
EXTENDS BrokerTypes

CONSTANTS Star,     \* the queue name "*"
          SAMPLES   \* MAX_LATENCY_SAMPLES

ASSUME MetricsAssumption ==
  /\ Star \notin Queues
  /\ SAMPLES \in Nat \ {0}

VARIABLES tracked,          \* keys of _dequeue_timestamps
          latency_samples,  \* lengths of the _latency_samples of each queue
          total_consumed, total_acked, total_nacked, total_dlq

metricsVars == <<tracked, latency_samples, total_consumed, total_acked,
                 total_nacked, total_dlq>>

Names == Queues \cup {Star}

Zero == [n \in Names |-> 0]

MetricsInit ==
  /\ tracked = {}
  /\ latency_samples = Zero
  /\ total_consumed = Zero /\ total_acked = Zero
  /\ total_nacked = Zero /\ total_dlq = Zero

(* Mutant: the acknowledgements are counted on.                            *)
MClearCounters ==
  /\ latency_samples' = Zero
  /\ total_consumed' = Zero
  /\ total_nacked' = Zero /\ total_dlq' = Zero
  /\ UNCHANGED total_acked

ClearCounters ==
  /\ latency_samples' = Zero
  /\ total_consumed' = Zero /\ total_acked' = Zero
  /\ total_nacked' = Zero /\ total_dlq' = Zero

(* reset: the tasks being timed are kept.                                  *)
MetricsReset == ClearCounters /\ UNCHANGED tracked

(* A new process starts with a new collector.                              *)
MetricsRestart == ClearCounters /\ tracked' = {}

Incremented(total, n) == [total EXCEPT ![n] = @ + 1]

RecordConsume(n, t) ==
  /\ total_consumed' = Incremented(total_consumed, n)
  /\ tracked' = tracked \cup {t}
  /\ UNCHANGED <<latency_samples, total_acked, total_nacked, total_dlq>>

RecordAck(n, t) ==
  /\ total_acked' = Incremented(total_acked, n)
  /\ tracked' = tracked \ {t}
  /\ latency_samples' =
       IF t \in tracked /\ latency_samples[n] < SAMPLES
       THEN Incremented(latency_samples, n) ELSE latency_samples
  /\ UNCHANGED <<total_consumed, total_nacked, total_dlq>>

(* Mutant: a failed task is timed on.                                      *)
MRecordNack(n, t, dead_lettered) ==
  /\ total_nacked' = Incremented(total_nacked, n)
  /\ total_dlq' = IF dead_lettered THEN Incremented(total_dlq, n) ELSE total_dlq
  /\ UNCHANGED <<tracked, latency_samples, total_consumed, total_acked>>

RecordNack(n, t, dead_lettered) ==
  /\ total_nacked' = Incremented(total_nacked, n)
  /\ total_dlq' = IF dead_lettered THEN Incremented(total_dlq, n) ELSE total_dlq
  /\ tracked' = tracked \ {t}
  /\ UNCHANGED <<latency_samples, total_consumed, total_acked>>

=============================================================================
