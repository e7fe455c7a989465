---------------------------- MODULE BrokerLedger ----------------------------
(* The tables of the broker as a ledger of payloads: the mapping to        *)
(* TaskLedger.                                                             *)
EXTENDS Broker

(* The state of each payload, as the two tables tell; without a WAL        *)
(* nothing is ever promised.                                               *)
LedgerOfTables ==
  LET inTable(p, t) == walTasks[t] # NoRow /\ walTasks[t].payload = p
      inDlq(p, t)   == walDlq[t] # NoRow /\ walDlq[t].payload = p
  IN  [p \in TaskId |->
         IF ~wal_enabled \/ p \notin answered THEN "new"
         ELSE IF \E t \in TaskId : inTable(p, t)
              THEN walTasks[CHOOSE t \in TaskId : inTable(p, t)].status
         ELSE IF \E t \in TaskId : inDlq(p, t) THEN "dead_lettered"
              ELSE "gone"]

(* A crash takes no dead letter, or one.                                   *)
DurableLedger ==
  INSTANCE TaskLedger WITH Tasks <- TaskId,
                           Losses <- {{}} \cup {{p} : p \in TaskId},
                           ledger <- LedgerOfTables

(* The tables alone implement the ledger of tasks, payload by payload:     *)
(* through evictions, late answers of evicted workers, replays under a new *)
(* id, crashes and recoveries, what they say of an accepted payload only   *)
(* ever changes as a broker that never fails would change it, except that  *)
(* a crash may take the one dead letter that DLQ_REPLAY was moving.  The   *)
(* status in_flight of a requeued task, which evict_dead_workers leaves in *)
(* the table, is a claim that has not been returned yet.                   *)
DurableLifecycle == DurableLedger!LedgerSpec

=============================================================================
