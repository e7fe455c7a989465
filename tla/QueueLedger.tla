---------------------------- MODULE QueueLedger ----------------------------
(* QueueManager as a ledger of tasks: the mapping to TaskLedger.           *)
EXTENDS QueueManager

(* The state of each task, as Task.status tells; an id without an object   *)
(* is new or was forgotten.                                                *)
LedgerOfTasks ==
  [t \in TaskId |-> IF task[t].status # "none" THEN task[t].status
                    ELSE IF t < nextId THEN "gone" ELSE "new"]

Ledger == INSTANCE TaskLedger WITH Tasks <- TaskId, Losses <- {{}},
                                   ledger <- LedgerOfTasks

(* The QueueManager implements the ledger of tasks: whatever the order of  *)
(* calls, a task is handed out only from a queue, is acknowledged or dead- *)
(* lettered only while in flight, is requeued only from in flight or from  *)
(* the DLQ, and is never forgotten except by an operator; the id of a done *)
(* or forgotten task never becomes live again.                             *)
TaskLifecycle == Ledger!LedgerSpec

=============================================================================
