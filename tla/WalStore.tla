------------------------------ MODULE WalStore ------------------------------
(***************************************************************************)
(* persistence/wal_store.py: the two SQLite tables that survive a crash of *)
(* the broker process.  Every method is one committed transaction, so each *)
(* operator below describes the tables before and after that commit.       *)
(* Columns nothing reads back (assigned_worker, updated_at, final_error,   *)
(* dead_lettered_at) are left out; created_at is the order of the ids.     *)
(* The payload column is the JSON text of a dict that arrived as JSON, and *)
(* json.loads(json.dumps(p)) = p for such a dict.                          *)
(***************************************************************************)
EXTENDS BrokerTypes

VARIABLES walTasks,   \* table tasks: id -> row, or NoRow
          walDlq      \* table dead_letter_queue: id -> row, or NoRow

walVars == <<walTasks, walDlq>>

(* The primary key does not occur in the table.                            *)
NoRow == [queue_name |-> None]

TaskRow == [queue_name : Queues, payload : Payload, attempts : Nat,
            status : {"pending", "in_flight", "done"}]

DlqRow == [queue_name : Queues, payload : Payload, attempts : Nat]

(* The values of the two tables: every row has the columns of the schema.  *)
WALTypeOK ==
  /\ walTasks \in [TaskId -> TaskRow \cup {NoRow}]
  /\ walDlq \in [TaskId -> DlqRow \cup {NoRow}]

WALInit ==
  /\ walTasks = [t \in TaskId |-> NoRow]
  /\ walDlq = [t \in TaskId |-> NoRow]

(* save_task: insert or replace the row of a task just enqueued.           *)
SaveTask(t, q, payload) ==
  walTasks' = [walTasks EXCEPT ![t] = [queue_name |-> q, payload |-> payload,
                                       attempts |-> 0, status |-> "pending"]]

(* update_task_status, with the attempts argument: an UPDATE of a row that *)
(* is not there changes nothing.                                           *)
UpdateTaskStatus(t, status, attempts) ==
  walTasks' = [walTasks EXCEPT ![t] =
                 IF walTasks[t] = NoRow THEN NoRow
                 ELSE [walTasks[t] EXCEPT !.status = status,
                                          !.attempts = attempts]]

(* Mutant: a status that no query knows.                                   *)
MMarkDone(t) ==
  walTasks' = [walTasks EXCEPT ![t] =
                 IF walTasks[t] = NoRow THEN NoRow
                 ELSE [walTasks[t] EXCEPT !.status = "completed"]]

(* Mutant: an acknowledgement is not written down.                         *)
MMarkNothing(t) == UNCHANGED walTasks

(* update_task_status(t, "done").                                          *)
MarkDone(t) ==
  walTasks' = [walTasks EXCEPT ![t] =
                 IF walTasks[t] = NoRow THEN NoRow
                 ELSE [walTasks[t] EXCEPT !.status = "done"]]

(* Mutant: the row of the tasks table is left behind.                      *)
MAddToDlq(t, row) ==
  /\ walDlq' = [walDlq EXCEPT ![t] = row]
  /\ UNCHANGED walTasks

(* add_to_dlq: both statements in one transaction.                         *)
AddToDlq(t, row) ==
  /\ walDlq' = [walDlq EXCEPT ![t] = row]
  /\ walTasks' = [walTasks EXCEPT ![t] = NoRow]

(* replay_dlq_task of a row that exists.                                   *)
ReplayDlqTask(t) ==
  /\ walDlq[t] # NoRow
  /\ walDlq' = [walDlq EXCEPT ![t] = NoRow]

(* purge_dlq of the rows of the queues in Q.                               *)
PurgeDlq(Q) ==
  walDlq' = [t \in TaskId |->
               IF walDlq[t].queue_name \in Q THEN NoRow ELSE walDlq[t]]

(* Mutant: only the tasks not yet handed out are loaded.                   *)
MLoadPendingTasks == {t \in TaskId : /\ walTasks[t] # NoRow
                                     /\ walTasks[t].status = "pending"}

(* The ids load_pending_tasks returns.                                     *)
LoadPendingTasks ==
  {t \in TaskId : /\ walTasks[t] # NoRow
                  /\ walTasks[t].status \in {"pending", "in_flight"}}

(* Recovery writes "pending" back, with the attempts it read, for every    *)
(* row it loads.                                                           *)
ResetLoaded ==
  walTasks' = [t \in TaskId |->
                 IF t \in LoadPendingTasks
                 THEN [walTasks[t] EXCEPT !.status = "pending"]
                 ELSE walTasks[t]]

ClearAllData ==
  /\ walTasks' = [t \in TaskId |-> NoRow]
  /\ walDlq' = [t \in TaskId |-> NoRow]

=============================================================================
