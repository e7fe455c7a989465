--------------------------- MODULE DurableProofs ---------------------------
(***************************************************************************)
(* What the steps of the Broker do to the rows of the WalStore beside the  *)
(* Task objects; what links the two through failing writes, crashes and    *)
(* recoveries; which payloads a step may lose; and which move of           *)
(* TaskLedger it makes on the tables. BrokerProofs states the theorems     *)
(* that follow.                                                            *)
(***************************************************************************)
EXTENDS BrokerEffects, BrokerLedger, TLAPS

-----------------------------------------------------------------------------
(* An object that no task uses.                                            *)
LEMMA BlankTask == NoTask.status = "none"
BY DEF NoTask

-----------------------------------------------------------------------------
(* A step keeps the rows of a task linked to it.                            *)
LEMMA LinkedOthers ==
  ASSUME Linked, UNCHANGED wal_enabled, NEW T, Only(T),
         \A t \in T \cap TaskId : LinkedAt(t)'
  PROVE  Linked'
BY DEF Linked, LinkedAt, Only, RowSame

LEMMA LinkedStep ==
  ASSUME Typed, Linked, DurableMoves
  PROVE  Linked'
<1>0. UNCHANGED wal_enabled
  BY DEF DurableMoves
<1>1. ASSUME NEW q \in Queues, Produced(q) PROVE Linked'
  <2>1. Created(q, nextId) /\ Only({nextId}) /\ nextId \in TaskId
    BY <1>1 DEF Produced, Created
  <2>2. walDlq[nextId] = NoRow /\ walTasks[nextId] = NoRow
    BY <2>1 DEF Typed, TablesOK, TaskId
  <2>3. PICK n \in TaskId : n = nextId
    BY <2>1
  <2>4. LinkedAt(n)'
    BY <1>0, <1>1, <2>1, <2>2, <2>3
       DEF Produced, Created, Logs, FailsToLog, RowSaved, RowSame, LinkedAt
  <2> QED BY <1>0, <2>1, <2>3, <2>4, LinkedOthers
<1>2. ASSUME NEW t \in TaskId, Delivered(t) PROVE Linked'
  <2>1. LinkedAt(t)'
    BY <1>0, <1>2
       DEF Delivered, HandedOut, Moved, Logs, FailsToLog, RowSet, RowSame, Linked, LinkedAt
  <2> QED BY <1>0, <1>2, <2>1, LinkedOthers DEF Delivered
<1>3. ASSUME NEW t \in TaskId, Acked(t) PROVE Linked'
  <2>1. LinkedAt(t)'
    BY <1>0, <1>3
       DEF Acked, Completed, Moved, Logs, FailsToLog, RowSet, RowSame, Linked, LinkedAt
  <2> QED BY <1>0, <1>3, <2>1, LinkedOthers DEF Acked
<1>4. ASSUME NEW t \in TaskId, Nacked(t) PROVE Linked'
  <2>1. LinkedAt(t)'
    BY <1>0, <1>4
       DEF Nacked, Failed, Moved, Logs, FailsToLog, RowSet, RowBuried, RowSame,
           Linked, LinkedAt
  <2> QED BY <1>0, <1>4, <2>1, LinkedOthers DEF Nacked
<1>5. ASSUME NEW t \in TaskId, Replayed(t) PROVE Linked'
  <2>1. nextId \in TaskId /\ walDlq[nextId] = NoRow /\ walTasks[nextId] = NoRow
    BY <1>5 DEF Replayed, Created, Typed, TablesOK, TaskId
  <2>2. LinkedAt(t)'
    BY <1>0, <1>5 DEF Replayed, Linked, LinkedAt
  <2>3. PICK n \in TaskId : n = nextId
    BY <2>1
  <2>4. LinkedAt(n)'
    BY <1>0, <1>5, <2>1, <2>3
       DEF Replayed, Created, RowSaved, FailsToLog, RowSame, LinkedAt
  <2> QED BY <1>0, <1>5, <2>2, <2>3, <2>4, LinkedOthers DEF Replayed
<1>6. ASSUME NEW Q, PurgedRows(Q) PROVE Linked'
  BY <1>0, <1>6 DEF PurgedRows, Linked, LinkedAt
<1>7. CASE Unlogged
  BY <1>0, <1>7 DEF Unlogged, RowSame, Linked, LinkedAt
<1>8. CASE Emptied
  BY <1>0, <1>8 DEF Emptied, RowSame, NoTask, Linked, LinkedAt
<1>9. CASE Orphaned
  BY <1>0, <1>9 DEF Orphaned, Requeued, Moved, OthersSame, RowSame, Linked, LinkedAt
<1>10. CASE Quiet
  BY <1>0, <1>10 DEF Quiet, durable, Linked, LinkedAt
<1>11. CASE Recovers
  <2>1. \A t \in LoadPendingTasks : walTasks[t] # NoRow /\ t \in TaskId
    BY DEF LoadPendingTasks
  <2>2. \A t \in TaskId : walDlq'[t] \in {walDlq[t], NoRow}
    BY <1>11 DEF Recovers
  <2>3. ASSUME NEW t \in LoadPendingTasks PROVE LinkedAt(t)'
    BY <1>0, <1>11, <2>1, <2>2, <2>3 DEF Recovers, Reloaded, Linked, LinkedAt
  <2>4. ASSUME NEW t \in TaskId \ LoadPendingTasks PROVE LinkedAt(t)'
    BY <1>0, <1>11, <2>2, <2>4 DEF Recovers, Reloaded, Linked, LinkedAt, NoTask
  <2> QED BY <2>3, <2>4 DEF Linked
<1> QED BY <1>1, <1>2, <1>3, <1>4, <1>5, <1>6, <1>7, <1>8, <1>9, <1>10, <1>11
        DEF DurableMoves


-----------------------------------------------------------------------------
(* Undurable, one task at a time.                                          *)
UndurableAt(t) ==
  /\ task[t].status \in {"pending", "in_flight"}
  /\ \/ walTasks[t] = NoRow
     \/ walTasks[t].status \notin {"pending", "in_flight"}
     \/ walTasks[t].queue_name # task[t].queue_name
     \/ walTasks[t].payload # task[t].payload
     \/ walTasks[t].attempts # task[t].attempts

UndurableSets ==
  /\ Live = {t \in TaskId : task[t].status \in {"pending", "in_flight"}}
  /\ Undurable = {t \in TaskId : UndurableAt(t)}

LEMMA UndurableTasks == TasksOK => UndurableSets
BY DEF TasksOK, Live, Undurable, UndurableAt, UndurableSets, LoadPendingTasks

(* Without a failing write, what a restart would load is to be run.        *)
LoadedLive ==
  wal_failures = 0 => \A t \in TaskId :
    walTasks[t] # NoRow /\ walTasks[t].status \in {"pending", "in_flight"}
      => task[t].status \in {"pending", "in_flight"}

(* The tasks that are not durable after a step already were not, but for   *)
(* one if a write failed.                                                  *)
UndurableBound ==
  \/ /\ \A t \in TaskId : UndurableAt(t)' => UndurableAt(t)
     /\ wal_failures' \in {wal_failures, wal_failures + 1}
  \/ \E x \in TaskId : /\ \A t \in TaskId \ {x} : UndurableAt(t)' => UndurableAt(t)
                       /\ wal_failures' = wal_failures + 1

LEMMA UndurableSame ==
  ASSUME NEW t, task'[t] = task[t], RowSame(t), UndurableAt(t)'
  PROVE  UndurableAt(t)
BY DEF UndurableAt, RowSame

LEMMA UndurableStep ==
  ASSUME Typed, Linked, wal_enabled, DurableMoves
  PROVE  UndurableBound
<1>1. ASSUME NEW T, Only(T) PROVE \A t \in TaskId \ T : UndurableAt(t)' => UndurableAt(t)
  BY <1>1, UndurableSame DEF Only
<1>2. ASSUME NEW q \in Queues, Produced(q) PROVE UndurableBound
  <2>1. PICK n \in TaskId : n = nextId
    BY <1>2 DEF Produced, Created
  <2>2. \A t \in TaskId \ {n} : UndurableAt(t)' => UndurableAt(t)
    BY <1>1, <1>2, <2>1 DEF Produced
  <2>3. CASE RowSaved(n, q, n) /\ UNCHANGED wal_failures
    <3>1. ~UndurableAt(n)'
      BY <1>2, <2>1, <2>3 DEF Produced, Created, RowSaved, UndurableAt
    <3> QED BY <2>2, <2>3, <3>1 DEF UndurableBound
  <2>4. CASE wal_failures' = wal_failures + 1
    BY <2>2, <2>4 DEF UndurableBound
  <2> QED BY <1>2, <2>1, <2>3, <2>4 DEF Produced, Logs, FailsToLog
<1>3. ASSUME NEW t \in TaskId, Delivered(t) PROVE UndurableBound
  <2>1. \A u \in TaskId \ {t} : UndurableAt(u)' => UndurableAt(u)
    BY <1>1, <1>3 DEF Delivered
  <2>2. CASE RowSet(t, "in_flight", task[t].attempts + 1) /\ UNCHANGED wal_failures
    <3>1. UndurableAt(t)' => UndurableAt(t)
      BY <1>3, <2>2 DEF Delivered, HandedOut, Moved, RowSet, UndurableAt, Linked, LinkedAt
    <3> QED BY <2>1, <2>2, <3>1, Zenon DEF UndurableBound
  <2>3. CASE wal_failures' = wal_failures + 1
    BY <2>1, <2>3 DEF UndurableBound
  <2> QED BY <1>3, <2>2, <2>3 DEF Delivered, Logs, FailsToLog
<1>4. ASSUME NEW t \in TaskId, Acked(t) PROVE UndurableBound
  <2>1. \A u \in TaskId \ {t} : UndurableAt(u)' => UndurableAt(u)
    BY <1>1, <1>4 DEF Acked
  <2>2. ~UndurableAt(t)'
    BY <1>4 DEF Acked, Completed, Moved, UndurableAt
  <2> QED BY <1>4, <2>1, <2>2 DEF Acked, Logs, FailsToLog, UndurableBound
<1>5. ASSUME NEW t \in TaskId, Nacked(t) PROVE UndurableBound
  <2>1. \A u \in TaskId \ {t} : UndurableAt(u)' => UndurableAt(u)
    BY <1>1, <1>5 DEF Nacked
  <2>2. UndurableAt(t)' => UndurableAt(t)
    BY <1>5 DEF Nacked, Failed, Moved, Logs, FailsToLog, RowSame, RowSet, UndurableAt,
                Linked, LinkedAt
  <2> QED BY <1>5, <2>1, <2>2 DEF Nacked, Logs, FailsToLog, UndurableBound
<1>6. ASSUME NEW t \in TaskId, Replayed(t) PROVE UndurableBound
  <2>1. PICK n \in TaskId : n = nextId
    BY <1>6 DEF Replayed, Created
  <2>2. \A u \in TaskId \ {t, n} : UndurableAt(u)' => UndurableAt(u)
    BY <1>1, <1>6, <2>1, Zenon DEF Replayed
  <2>3. UndurableAt(t)' => UndurableAt(t)
    BY <1>6 DEF Replayed, UndurableAt
  <2>4. CASE /\ RowSaved(n, walDlq[t].queue_name, walDlq[t].payload)
             /\ UNCHANGED wal_failures
    <3>1. ~UndurableAt(n)'
      BY <1>6, <2>1, <2>4 DEF Replayed, Created, RowSaved, UndurableAt
    <3> QED BY <2>2, <2>3, <2>4, <3>1 DEF UndurableBound
  <2>5. CASE wal_failures' = wal_failures + 1
    BY <2>2, <2>3, <2>5 DEF UndurableBound
  <2> QED BY <1>6, <2>1, <2>4, <2>5, Zenon DEF Replayed, FailsToLog
<1>7. ASSUME NEW Q, PurgedRows(Q) PROVE UndurableBound
  BY <1>7 DEF PurgedRows, UndurableAt, UndurableBound
<1>8. CASE Emptied
  BY <1>8 DEF Emptied, NoTask, UndurableAt, UndurableBound
<1>9. CASE Orphaned
  BY <1>9 DEF Orphaned, Requeued, Moved, OthersSame, RowSame, UndurableAt, UndurableBound
<1>10. CASE Quiet
  BY <1>10 DEF Quiet, durable, UndurableAt, UndurableBound
<1>11. CASE Recovers
  <2>1. \A t \in LoadPendingTasks : ~UndurableAt(t)'
    BY <1>11 DEF Recovers, Reloaded, UndurableAt
  <2>2. \A t \in TaskId \ LoadPendingTasks : ~UndurableAt(t)'
    BY <1>11, BlankTask, Zenon DEF Recovers, Reloaded, UndurableAt
  <2> QED BY <1>11, <2>1, <2>2 DEF Recovers, UndurableBound
<1> QED BY <1>2, <1>3, <1>4, <1>5, <1>6, <1>7, <1>8, <1>9, <1>10, <1>11
        DEF DurableMoves, Unlogged

LEMMA LoadedLiveStep ==
  ASSUME Typed, Linked, wal_enabled, LoadedLive, DurableMoves
  PROVE  LoadedLive'
<1>0. SUFFICES ASSUME wal_failures' = 0 PROVE LoadedLive'
  BY DEF LoadedLive
<1>1. wal_failures = 0 /\ wal_failures' = wal_failures
  <2>1. wal_failures' \in {wal_failures, wal_failures + 1}
    BY UndurableStep DEF UndurableBound
  <2> QED BY <1>0, <2>1 DEF Typed, HistoryOK
<1>2. \A t \in TaskId : walTasks[t] # NoRow /\ walTasks[t].status \in {"pending", "in_flight"}
                          => task[t].status \in {"pending", "in_flight"}
  BY <1>1 DEF LoadedLive
<1>3. ASSUME NEW T, Only(T),
             \A t \in T \cap TaskId :
               walTasks'[t] # NoRow /\ walTasks'[t].status \in {"pending", "in_flight"}
                 => task'[t].status \in {"pending", "in_flight"}
      PROVE  LoadedLive'
  BY <1>2, <1>3 DEF Only, RowSame, LoadedLive
<1>4. wal_failures' # wal_failures + 1
  BY <1>1
<1>5. ASSUME NEW q \in Queues, Produced(q) PROVE LoadedLive'
  BY <1>3, <1>5 DEF Produced, Created
<1>6. ASSUME NEW t \in TaskId, Delivered(t) PROVE LoadedLive'
  BY <1>3, <1>6 DEF Delivered, HandedOut, Moved
<1>7. ASSUME NEW t \in TaskId, Acked(t) PROVE LoadedLive'
  BY <1>3, <1>4, <1>7 DEF Acked, Logs, FailsToLog, RowSet
<1>8. ASSUME NEW t \in TaskId, Nacked(t) PROVE LoadedLive'
  <2>1. \/ walTasks'[t] = NoRow
        \/ task'[t].status = "pending"
    BY <1>4, <1>8, Zenon DEF Nacked, Failed, Moved, Logs, FailsToLog, RowBuried
  <2> QED BY <1>3, <1>8, <2>1 DEF Nacked
<1>9. ASSUME NEW t \in TaskId, Replayed(t) PROVE LoadedLive'
  BY <1>2, <1>3, <1>9 DEF Replayed, Created
<1>10. ASSUME NEW Q, PurgedRows(Q) PROVE LoadedLive'
  BY <1>2, <1>10 DEF PurgedRows, LoadedLive
<1>11. CASE Emptied
  BY <1>4, <1>11 DEF Emptied, LoadedLive
<1>12. CASE Orphaned
  BY <1>2, <1>12 DEF Orphaned, Requeued, Moved, OthersSame, RowSame, LoadedLive
<1>13. CASE Quiet
  BY <1>2, <1>13 DEF Quiet, durable, LoadedLive
<1>14. CASE Recovers
  <2>1. \A t \in LoadPendingTasks : task'[t].status = "pending"
    BY <1>14 DEF Recovers, Reloaded
  <2>2. \A t \in TaskId \ LoadPendingTasks :
          ~(walTasks'[t] # NoRow /\ walTasks'[t].status \in {"pending", "in_flight"})
    BY <1>14 DEF Recovers, LoadPendingTasks
  <2> QED BY <2>1, <2>2 DEF LoadedLive
<1> QED BY <1>5, <1>6, <1>7, <1>8, <1>9, <1>10, <1>11, <1>12, <1>13, <1>14
        DEF DurableMoves, Unlogged


-----------------------------------------------------------------------------
(* A task and its rows are about the same work, and none of them has lost  *)
(* its payload; a dead letter of the table has no row among the tasks.     *)
(* This much of Linked also holds beside the dashboard's replay-all.       *)
KeptAt(t) ==
  /\ walDlq[t] # NoRow => walTasks[t] = NoRow /\ walDlq[t].payload # 0
  /\ walTasks[t] # NoRow => walTasks[t].payload # 0
  /\ task[t].status # "none" =>
       /\ task[t].payload # 0
       /\ walTasks[t] # NoRow => walTasks[t].payload = task[t].payload
       /\ walDlq[t] # NoRow => walDlq[t].payload = task[t].payload

Kept == \A t \in TaskId : KeptAt(t)

LEMMA KeptStep ==
  ASSUME Typed, Kept, DurableMoves \/ ReplayedAll, TasksOK', Peek(PeekLimit)' = Range(dlq')
  PROVE  Kept'
<1>1. ASSUME NEW T, Only(T), \A t \in T \cap TaskId : KeptAt(t)' PROVE Kept'
  BY <1>1 DEF Only, RowSame, Kept, KeptAt
<1>2. ASSUME NEW q \in Queues, Produced(q) PROVE Kept'
  <2>1. PICK n \in TaskId : n = nextId
    BY <1>2, Zenon DEF Produced, Created
  <2>2. walTasks[n] = NoRow /\ walDlq[n] = NoRow /\ n # 0
    BY <2>1, TypesAssumption DEF Typed, TablesOK, TaskId
  <2>3. KeptAt(n)'
    BY <1>2, <2>1, <2>2, Zenon
       DEF Produced, Created, Logs, FailsToLog, RowSaved, RowSame, KeptAt
  <2> QED BY <1>1, <1>2, <2>1, <2>3 DEF Produced
<1>3. ASSUME NEW t \in TaskId, Delivered(t) PROVE Kept'
  <2>1. KeptAt(t)'
    BY <1>3, Zenon DEF Delivered, HandedOut, Moved, Logs, FailsToLog, RowSet, RowSame,
                Kept, KeptAt
  <2> QED BY <1>1, <1>3, <2>1, Zenon DEF Delivered
<1>4. ASSUME NEW t \in TaskId, Acked(t) PROVE Kept'
  <2>1. KeptAt(t)'
    BY <1>4, Zenon DEF Acked, Completed, Moved, Logs, FailsToLog, RowSet, RowSame,
                Kept, KeptAt
  <2> QED BY <1>1, <1>4, <2>1, Zenon DEF Acked
<1>5. ASSUME NEW t \in TaskId, Nacked(t) PROVE Kept'
  <2>1. RowBuried(t) /\ Exhausted(t) => walDlq'[t].payload = task[t].payload
    BY <1>5, Zenon DEF Nacked, Failed, Moved, TasksOK, RowBuried
  <2>2. KeptAt(t)'
    BY <1>5, <2>1, Zenon DEF Nacked, Failed, Moved, Logs, FailsToLog, RowSet, RowBuried,
                      RowSame, Kept, KeptAt
  <2> QED BY <1>1, <1>5, <2>2, Zenon DEF Nacked
<1>6. ASSUME NEW t \in TaskId, Replayed(t) PROVE Kept'
  <2>1. PICK n \in TaskId : n = nextId
    BY <1>6, Zenon DEF Replayed, Created
  <2>2. walTasks[n] = NoRow /\ walDlq[n] = NoRow
    BY <2>1 DEF Typed, TablesOK, TaskId
  <2>3. KeptAt(n)'
    BY <1>6, <2>1, <2>2, Zenon DEF Replayed, Created, FailsToLog, RowSaved, RowSame,
                            Kept, KeptAt
  <2>4. KeptAt(t)'
    BY <1>6, Zenon DEF Replayed, Kept, KeptAt
  <2> QED BY <1>1, <1>6, <2>1, <2>3, <2>4, Zenon DEF Replayed
<1>7. ASSUME NEW Q, PurgedRows(Q) PROVE Kept'
  BY <1>7, Zenon DEF PurgedRows, Kept, KeptAt
<1>8. CASE Unlogged
  <2>1. \A t \in TaskId : \/ task'[t].payload = task[t].payload /\ task[t].status # "none"
                          \/ task'[t] \in {task[t], NoTask}
    BY <1>8, Zenon DEF Unlogged, Revived, Dropped, Moved, OthersSame
  <2> QED BY <1>8, <2>1, BlankTask, Zenon DEF Unlogged, RowSame, Kept, KeptAt
<1>9. CASE Emptied
  BY <1>9, BlankTask, Zenon DEF Emptied, RowSame, Kept, KeptAt
<1>10. CASE Orphaned
  <2>1. \A t \in TaskId : \/ task'[t] = task[t]
                          \/ /\ task[t].status = "in_flight"
                             /\ task'[t].payload = task[t].payload
    BY <1>10, Zenon DEF Orphaned, Requeued, Moved, OthersSame
  <2> QED BY <1>10, <2>1, Zenon DEF Orphaned, RowSame, Kept, KeptAt
<1>11. CASE Quiet
  BY <1>11, Zenon DEF Quiet, durable, Kept, KeptAt
<1>12. CASE Recovers
  <2>1. \A t \in TaskId : walDlq'[t] \in {walDlq[t], NoRow}
    BY <1>12, Zenon DEF Recovers
  <2>2. ASSUME NEW t \in LoadPendingTasks PROVE KeptAt(t)'
    <3>1. walTasks[t] # NoRow /\ t \in TaskId
      BY DEF LoadPendingTasks
    <3>2. walDlq'[t] = NoRow /\ walTasks[t].payload # 0
      BY <2>1, <3>1, Zenon DEF Kept, KeptAt
    <3>3. walTasks'[t].payload = walTasks[t].payload /\ task'[t].payload = walTasks[t].payload
      BY <1>12, Zenon DEF Recovers, Reloaded
    <3> QED BY <3>2, <3>3, Zenon DEF KeptAt
  <2>3. ASSUME NEW t \in TaskId \ LoadPendingTasks PROVE KeptAt(t)'
    <3>1. task'[t].status = "none" /\ walTasks'[t] = walTasks[t]
      BY <1>12, <2>3, BlankTask, Zenon DEF Recovers, Reloaded
    <3> QED BY <2>1, <3>1, Zenon DEF Kept, KeptAt
  <2> QED BY <2>2, <2>3 DEF Kept
<1>13. CASE ReplayedAll
  <2>1. \A t \in TaskId : \/ task'[t] = task[t]
                          \/ /\ task[t].status = "dead_lettered"
                             /\ task'[t].payload = task[t].payload
    BY <1>13, Zenon DEF ReplayedAll, Revived, Moved, OthersSame
  <2> QED BY <1>13, <2>1, Zenon DEF ReplayedAll, RowSame, Kept, KeptAt
<1> QED BY <1>2, <1>3, <1>4, <1>5, <1>6, <1>7, <1>8, <1>9, <1>10, <1>11, <1>12, <1>13, Zenon
        DEF DurableMoves

(* Only a submission with an id is answered.                               *)
Dated == \A p \in answered : p < nextId

LEMMA DatedStep ==
  ASSUME Typed, Dated, DurableMoves \/ ReplayedAll
  PROVE  Dated'
<1>1. nextId \in Int /\ \A p \in answered : p \in Int
  BY TypesAssumption DEF Typed, TasksOK, HistoryOK, TaskId
<1>2. \/ answered' = answered /\ nextId' \in {nextId, nextId + 1}
      \/ answered' = answered \cup {nextId} /\ nextId' = nextId + 1
  BY Zenon
     DEF DurableMoves, Produced, Created, Delivered, HandedOut, Acked, Completed, Nacked,
         Failed, Replayed, PurgedRows, Unlogged, Revived, Dropped, Emptied, Orphaned,
         Requeued, Quiet, Recovers, ReplayedAll, history
<1> QED BY <1>1, <1>2 DEF Dated

-----------------------------------------------------------------------------
(* Lost, one payload at a time.                                            *)
OnDisk(t, p) ==
  \/ walTasks[t] # NoRow /\ walTasks[t].payload = p
  \/ walDlq[t] # NoRow /\ walDlq[t].payload = p

LostAt(p) == p \in answered \ removed /\ \A t \in TaskId : ~OnDisk(t, p)

LEMMA LostPayloads == HistoryOK => Lost = {p \in TaskId : LostAt(p)}
BY DEF HistoryOK, Lost, Owed, LostAt, OnDisk

Faults == crashes + wal_failures

(* What is lost after a step already was, but for one payload if the step  *)
(* is a crash or a failing write.                                          *)
LostBound ==
  \/ /\ \A p \in TaskId : LostAt(p)' => LostAt(p)
     /\ Faults' \in {Faults, Faults + 1}
  \/ \E x \in Payload : /\ \A p \in TaskId \ {x} : LostAt(p)' => LostAt(p)
                        /\ Faults' = Faults + 1

(* Steps after which each row that goes is replaced, or its payload was    *)
(* removed by an operator.                                                 *)
LEMMA LostKept ==
  ASSUME UNCHANGED <<answered, crashes>>, removed \subseteq removed',
         wal_failures' \in {wal_failures, wal_failures + 1}, Typed,
         NEW X,
         \A p \in TaskId \ X : \A t \in TaskId :
           OnDisk(t, p) => p \in removed' \/ \E u \in TaskId : OnDisk(u, p)'
  PROVE  /\ \A p \in TaskId \ X : LostAt(p)' => LostAt(p)
         /\ Faults' \in {Faults, Faults + 1}
         /\ wal_failures' = wal_failures + 1 => Faults' = Faults + 1
<1>1. \A p \in TaskId \ X : LostAt(p)' => LostAt(p)
  BY DEF LostAt
<1>2. crashes \in Int /\ wal_failures \in Int
  BY BrokerAssumption DEF Typed, HistoryOK
<1>3. Faults = crashes + wal_failures /\ Faults' = crashes + wal_failures'
  BY DEF Faults
<1> HIDE DEF Faults
<1>4. \/ wal_failures' = wal_failures /\ Faults' = Faults
      \/ wal_failures' = wal_failures + 1 /\ Faults' = Faults + 1
  <2>1. crashes + (wal_failures + 1) = (crashes + wal_failures) + 1
    BY <1>2
  <2> QED BY <1>3, <2>1
<1> QED BY <1>1, <1>2, <1>4

LEMMA OnDiskOthers ==
  ASSUME NEW T, Only(T), NEW p, NEW t \in TaskId \ T, OnDisk(t, p)
  PROVE  OnDisk(t, p)'
BY DEF Only, RowSame, OnDisk

LEMMA LostStep ==
  ASSUME Typed, Kept, Dated, wal_enabled, DurableMoves \/ ReplayedAll, TasksOK',
         Peek(PeekLimit)' = Range(dlq')
  PROVE  LostBound
<1>0. \A p \in TaskId : p \in Payload /\ p \in Int /\ p >= 1
  BY TypesAssumption DEF TaskId, Payload
<1>1. ASSUME UNCHANGED <<answered, crashes>>, removed \subseteq removed',
             wal_failures' \in {wal_failures, wal_failures + 1},
             \A p \in TaskId : \A t \in TaskId :
               OnDisk(t, p) => p \in removed' \/ \E u \in TaskId : OnDisk(u, p)'
      PROVE  LostBound
  BY <1>1, LostKept, Zenon DEF LostBound
<1>2. ASSUME NEW q \in Queues, Produced(q) PROVE LostBound
  <2>1. PICK n \in TaskId : n = nextId
    BY <1>2 DEF Produced, Created
  <2>2. walTasks[n] = NoRow /\ walDlq[n] = NoRow
    BY <2>1 DEF Typed, TablesOK, TaskId
  <2>3. \A p \in TaskId : \A t \in TaskId : OnDisk(t, p) => t # n /\ OnDisk(t, p)'
    <3>1. \A p \in TaskId : \A t \in TaskId : OnDisk(t, p) => t # n
      BY <2>2 DEF OnDisk
    <3> QED BY <1>2, <2>1, <3>1, OnDiskOthers DEF Produced
  <2>4. CASE RowSaved(n, q, n) /\ UNCHANGED wal_failures /\ answered' = answered \cup {n}
    <3>1. OnDisk(n, n)'
      BY <2>4 DEF RowSaved, OnDisk
    <3>2. \A p \in TaskId : LostAt(p)' => LostAt(p)
      BY <1>2, <2>3, <2>4, <3>1 DEF Produced, LostAt
    <3> QED BY <1>2, <2>4, <3>2 DEF Produced, Faults, LostBound
  <2>5. CASE wal_failures' = wal_failures + 1 /\ UNCHANGED answered
    BY <1>1, <1>2, <2>3, <2>5 DEF Produced
  <2> QED BY <1>2, <2>1, <2>4, <2>5 DEF Produced, Logs, FailsToLog
<1>3. ASSUME NEW t \in TaskId, Delivered(t) PROVE LostBound
  <2>1. \A p \in TaskId : OnDisk(t, p) => OnDisk(t, p)'
    BY <1>3, Zenon DEF Delivered, Logs, FailsToLog, RowSet, RowSame, OnDisk
  <2>2. \A p \in TaskId : \A u \in TaskId : OnDisk(u, p) => OnDisk(u, p)'
    BY <1>3, <2>1, OnDiskOthers, Zenon DEF Delivered
  <2> QED BY <1>1, <1>3, <2>2, Zenon DEF Delivered, Logs, FailsToLog, history
<1>4. ASSUME NEW t \in TaskId, Acked(t) PROVE LostBound
  <2>1. \A p \in TaskId : OnDisk(t, p) => OnDisk(t, p)'
    BY <1>4, Zenon DEF Acked, Logs, FailsToLog, RowSet, RowSame, OnDisk
  <2>2. \A p \in TaskId : \A u \in TaskId : OnDisk(u, p) => OnDisk(u, p)'
    BY <1>4, <2>1, OnDiskOthers, Zenon DEF Acked
  <2> QED BY <1>1, <1>4, <2>2 DEF Acked, Logs, FailsToLog
<1>5. ASSUME NEW t \in TaskId, Nacked(t) PROVE LostBound
  <2>1. ASSUME RowBuried(t), Exhausted(t), NEW p \in TaskId, OnDisk(t, p)
        PROVE  OnDisk(t, p)'
    <3>1. t \in Peek(PeekLimit)'
      BY <1>5, <2>1, Zenon DEF Nacked, Failed, Moved, TasksOK
    <3>2. walDlq'[t] # NoRow /\ walDlq'[t].payload = task[t].payload
      BY <2>1, <3>1 DEF RowBuried
    <3>3. p = task[t].payload
      BY <1>5, <2>1, Zenon DEF Nacked, Failed, Moved, Kept, KeptAt, OnDisk
    <3> QED BY <3>2, <3>3 DEF OnDisk
  <2>2. \A p \in TaskId : OnDisk(t, p) => OnDisk(t, p)'
    <3>1. \/ RowBuried(t) /\ Exhausted(t)
          \/ RowSet(t, "pending", task[t].attempts)
          \/ RowSame(t)
      BY <1>5 DEF Nacked, Logs, FailsToLog
    <3>2. RowSet(t, "pending", task[t].attempts) \/ RowSame(t) =>
            \A p \in TaskId : OnDisk(t, p) => OnDisk(t, p)'
      BY DEF RowSet, RowSame, OnDisk
    <3> QED BY <2>1, <3>1, <3>2
  <2>3. \A p \in TaskId : \A u \in TaskId : OnDisk(u, p) => OnDisk(u, p)'
    BY <1>5, <2>2, OnDiskOthers DEF Nacked
  <2> QED BY <1>1, <1>5, <2>3 DEF Nacked, Logs, FailsToLog, history
<1>6. ASSUME NEW t \in TaskId, Replayed(t) PROVE LostBound
  <2>1. PICK n \in TaskId : n = nextId
    BY <1>6, Zenon DEF Replayed, Created
  <2>2. walTasks[n] = NoRow /\ walDlq[n] = NoRow /\ walTasks[t] = NoRow
    <3>1. walTasks[n] = NoRow /\ walDlq[n] = NoRow
      BY <2>1 DEF Typed, TablesOK, TaskId
    <3>2. walTasks[t] = NoRow
      BY <1>6, Zenon DEF Replayed, Kept, KeptAt
    <3> QED BY <3>1, <3>2
  <2>3. ASSUME NEW p \in TaskId, NEW u \in TaskId, OnDisk(u, p)
        PROVE  (u = t /\ p = walDlq[t].payload) \/ OnDisk(u, p)'
    <3>1. u # n /\ (u = t => p = walDlq[t].payload)
      BY <2>2, <2>3 DEF OnDisk
    <3> QED BY <1>6, <2>1, <2>3, <3>1, OnDiskOthers DEF Replayed
  <2>4. CASE /\ RowSaved(n, walDlq[t].queue_name, walDlq[t].payload)
             /\ UNCHANGED wal_failures
    <3>1. \A p \in TaskId : p = walDlq[t].payload => OnDisk(n, p)'
      BY <2>4 DEF RowSaved, OnDisk
    <3>2. \A p \in TaskId : \A u \in TaskId :
            OnDisk(u, p) => \E v \in TaskId : OnDisk(v, p)'
      BY <2>3, <3>1
    <3> QED BY <1>1, <1>6, <2>4, <3>2, Zenon DEF Replayed, history
  <2>5. CASE wal_failures' = wal_failures + 1
    <3>1. walDlq[t].payload \in Payload
      BY <1>6 DEF Replayed, Typed, TablesOK, WALTypeOK, DlqRow
    <3>2. PICK x \in Payload : x = walDlq[t].payload
      BY <3>1
    <3>3. \A p \in TaskId \ {x} : \A u \in TaskId :
            OnDisk(u, p) => \E v \in TaskId : OnDisk(v, p)'
      BY <2>3, <3>2
    <3>4. /\ \A p \in TaskId \ {x} : LostAt(p)' => LostAt(p)
          /\ Faults' = Faults + 1
      BY <1>6, <2>5, <3>3, LostKept, Zenon DEF Replayed, history
    <3> QED BY <3>4 DEF LostBound
  <2> QED BY <1>6, <2>1, <2>4, <2>5, Zenon DEF Replayed, FailsToLog
<1>7. ASSUME NEW Q \in SUBSET Queues, PurgedRows(Q) PROVE LostBound
  <2>1. \A p \in TaskId : \A t \in TaskId : OnDisk(t, p) => p \in removed' \/ OnDisk(t, p)'
    BY <1>7 DEF PurgedRows, OnDisk
  <2> QED BY <1>1, <1>7, <2>1 DEF PurgedRows
<1>8. CASE Emptied
  <2>1. CASE \A t \in TaskId : RowSame(t)
    <3>1. \A p \in TaskId : \A t \in TaskId : OnDisk(t, p) => OnDisk(t, p)'
      BY <2>1 DEF RowSame, OnDisk
    <3> QED BY <1>1, <1>8, <3>1 DEF Emptied
  <2>2. CASE removed' = removed \cup 1..(nextId - 1) /\ UNCHANGED wal_failures
    <3>1. \A p \in answered : p \in 1..(nextId - 1)
      BY <1>0 DEF Dated, Typed, HistoryOK, TasksOK
    <3>2. \A p \in TaskId : ~LostAt(p)'
      BY <1>8, <2>2, <3>1 DEF Emptied, LostAt
    <3> QED BY <1>8, <2>2, <3>2 DEF Emptied, Faults, LostBound
  <2> QED BY <1>8, <2>1, <2>2 DEF Emptied
<1>9. CASE Orphaned
  <2>1. \A p \in TaskId : \A t \in TaskId : OnDisk(t, p) => OnDisk(t, p)'
    BY <1>9 DEF Orphaned, RowSame, OnDisk
  <2> QED BY <1>1, <1>9, <2>1 DEF Orphaned, history
<1>10. CASE Quiet
  BY <1>10 DEF Quiet, durable, history, LostBound, LostAt, OnDisk, Faults
<1>11. CASE Recovers
  <2>1. Faults' = Faults + 1 /\ UNCHANGED <<answered, removed>>
    <3>1. crashes \in Int /\ wal_failures \in Int
      BY BrokerAssumption DEF Typed, HistoryOK
    <3> QED BY <1>11, <3>1 DEF Recovers, history, Faults
  <2>2. \A t \in TaskId : walTasks[t] # NoRow =>
          walTasks'[t] # NoRow /\ walTasks'[t].payload = walTasks[t].payload
    BY <1>11 DEF Recovers
  <2>3. CASE UNCHANGED walDlq
    <3>1. \A p \in TaskId : \A t \in TaskId : OnDisk(t, p) => OnDisk(t, p)'
      BY <2>2, <2>3 DEF OnDisk
    <3>2. \A p \in TaskId : LostAt(p)' => LostAt(p)
      BY <2>1, <3>1 DEF LostAt
    <3> QED BY <2>1, <3>2 DEF LostBound
  <2>4. ASSUME NEW t \in TaskId, walDlq[t] # NoRow,
               \A u \in TaskId \ {t} : walDlq'[u] = walDlq[u]
        PROVE  LostBound
    <3>1. PICK x \in Payload : x = walDlq[t].payload
      BY <2>4 DEF Typed, TablesOK, WALTypeOK, DlqRow
    <3>2. \A p \in TaskId \ {x} : \A u \in TaskId : OnDisk(u, p) => OnDisk(u, p)'
      BY <2>2, <2>4, <3>1 DEF OnDisk
    <3>3. \A p \in TaskId \ {x} : LostAt(p)' => LostAt(p)
      BY <2>1, <3>2 DEF LostAt
    <3> QED BY <2>1, <3>3 DEF LostBound
  <2> QED BY <1>11, <2>3, <2>4 DEF Recovers
<1>12. CASE ReplayedAll
  <2>1. \A p \in TaskId : \A t \in TaskId : OnDisk(t, p) => OnDisk(t, p)'
    BY <1>12 DEF ReplayedAll, RowSame, OnDisk
  <2> QED BY <1>1, <1>12, <2>1 DEF ReplayedAll, history
<1> QED BY <1>2, <1>3, <1>4, <1>5, <1>6, <1>7, <1>8, <1>9, <1>10, <1>11, <1>12, Zenon
        DEF DurableMoves, Unlogged


-----------------------------------------------------------------------------
(***************************************************************************)
(* The two tables implement TaskLedger.  LedgerOfTables asks the tables    *)
(* for any row of a payload; that it does not matter which one is found is *)
(* the part of CarryInv that says a payload is carried by one id.          *)
(***************************************************************************)
InTable(t, p) == walTasks[t] # NoRow /\ walTasks[t].payload = p

InDlq(t, p) == walDlq[t] # NoRow /\ walDlq[t].payload = p

(* LedgerOfTables, by the row that is found.                               *)
TablesTell ==
  /\ LedgerOfTables = [p \in TaskId |-> LedgerOfTables[p]]
  /\ \A p \in TaskId : ~wal_enabled \/ p \notin answered => LedgerOfTables[p] = "new"
  /\ wal_enabled => \A p \in TaskId \cap answered :
       /\ \A t \in TaskId : InTable(t, p) => LedgerOfTables[p] = walTasks[t].status
       /\ \A t \in TaskId : InDlq(t, p) => LedgerOfTables[p] = "dead_lettered"
       /\ (\A t \in TaskId : ~OnDisk(t, p)) => LedgerOfTables[p] = "gone"

LEMMA TablesTold == Linked /\ CarryInv => TablesTell
<1> SUFFICES ASSUME Linked, CarryInv PROVE TablesTell
  OBVIOUS
<1>1. LedgerOfTables = [p \in TaskId |-> LedgerOfTables[p]]
  BY DEF LedgerOfTables
<1>2. ASSUME NEW p \in TaskId, ~wal_enabled \/ p \notin answered
      PROVE  LedgerOfTables[p] = "new"
  BY <1>2 DEF LedgerOfTables
<1>3. ASSUME wal_enabled, NEW p \in TaskId, p \in answered
      PROVE  /\ \A t \in TaskId : InTable(t, p) => LedgerOfTables[p] = walTasks[t].status
             /\ \A t \in TaskId : InDlq(t, p) => LedgerOfTables[p] = "dead_lettered"
             /\ (\A t \in TaskId : ~OnDisk(t, p)) => LedgerOfTables[p] = "gone"
  <2>1. LedgerOfTables[p] =
          IF \E t \in TaskId : InTable(t, p)
          THEN walTasks[CHOOSE t \in TaskId : InTable(t, p)].status
          ELSE IF \E t \in TaskId : InDlq(t, p) THEN "dead_lettered" ELSE "gone"
    BY <1>3 DEF LedgerOfTables, InTable, InDlq
  <2>2. p \in Submission
    BY TypesAssumption DEF Submission, TaskId, Payload
  <2>3. \A t, u \in TaskId : InTable(t, p) /\ InTable(u, p) => t = u
    BY <2>2 DEF CarryInv, Carries, InTable
  <2>4. \A t, u \in TaskId : InDlq(t, p) /\ InTable(u, p) => t = u
    BY <2>2 DEF CarryInv, Carries, InTable, InDlq
  <2>5. \A t \in TaskId : ~(InDlq(t, p) /\ InTable(t, p))
    BY DEF Linked, LinkedAt, InTable, InDlq
  <2>6. ASSUME NEW t \in TaskId, InTable(t, p)
        PROVE  LedgerOfTables[p] = walTasks[t].status
    <3>1. t = CHOOSE u \in TaskId : InTable(u, p)
      BY <2>3, <2>6
    <3> QED BY <2>1, <2>6, <3>1
  <2>7. ASSUME NEW t \in TaskId, InDlq(t, p)
        PROVE  LedgerOfTables[p] = "dead_lettered"
    BY <2>1, <2>4, <2>5, <2>7
  <2>8. (\A t \in TaskId : ~OnDisk(t, p)) => LedgerOfTables[p] = "gone"
    BY <2>1 DEF OnDisk, InTable, InDlq
  <2> QED BY <2>6, <2>7, <2>8
<1> QED BY <1>1, <1>2, <1>3 DEF TablesTell

(* A step that changes the state of the payloads in S alone.               *)
LEMMA TablesMove ==
  ASSUME TablesTell, TablesTell', NEW S \in SUBSET TaskId, NEW from, NEW to,
         \A p \in S : LedgerOfTables[p] = from /\ LedgerOfTables'[p] = to,
         \A p \in TaskId \ S : LedgerOfTables'[p] = LedgerOfTables[p]
  PROVE  DurableLedger!Move(S, from, to)
<1>1. LedgerOfTables' = [p \in TaskId |-> LedgerOfTables'[p]]
  BY DEF TablesTell
<1>2. LedgerOfTables' = [p \in TaskId |-> IF p \in S THEN to ELSE LedgerOfTables[p]]
  BY <1>1
<1> QED BY <1>2 DEF DurableLedger!Move

LEMMA TablesStutter ==
  ASSUME TablesTell, TablesTell',
         \A p \in TaskId : LedgerOfTables'[p] = LedgerOfTables[p]
  PROVE  LedgerOfTables' = LedgerOfTables
<1>1. /\ LedgerOfTables' = [p \in TaskId |-> LedgerOfTables'[p]]
      /\ LedgerOfTables = [p \in TaskId |-> LedgerOfTables[p]]
  BY DEF TablesTell
<1> QED BY <1>1

(* A payload that no changed row is about keeps its state.                 *)
LEMMA TablesOthers ==
  ASSUME TablesTell, TablesTell', UNCHANGED wal_enabled, NEW T, Only(T),
         NEW p \in TaskId, p \in answered' <=> p \in answered,
         \A t \in T \cap TaskId : ~OnDisk(t, p) /\ ~OnDisk(t, p)'
  PROVE  LedgerOfTables'[p] = LedgerOfTables[p]
<1>1. CASE ~wal_enabled \/ p \notin answered
  BY <1>1 DEF TablesTell
<1>2. CASE wal_enabled /\ p \in answered
  <2>1. \A t \in TaskId \ T : RowSame(t)
    BY DEF Only
  <2>2. CASE \A t \in TaskId : ~OnDisk(t, p)
    <3>1. \A t \in TaskId : ~OnDisk(t, p)'
      BY <2>1, <2>2, Zenon DEF RowSame, OnDisk
    <3> QED BY <1>2, <2>2, <3>1 DEF TablesTell
  <2>3. ASSUME NEW t \in TaskId, OnDisk(t, p)
        PROVE  LedgerOfTables'[p] = LedgerOfTables[p]
    <3>1. RowSame(t)
      BY <2>1, <2>3
    <3>2. CASE InTable(t, p)
      <4>1. InTable(t, p)' /\ walTasks'[t].status = walTasks[t].status
        BY <3>1, <3>2 DEF RowSame, InTable
      <4> QED BY <1>2, <3>2, <4>1, Zenon DEF TablesTell
    <3>3. CASE InDlq(t, p)
      <4>1. InDlq(t, p)'
        BY <3>1, <3>3 DEF RowSame, InDlq
      <4> QED BY <1>2, <3>3, <4>1 DEF TablesTell
    <3> QED BY <2>3, <3>2, <3>3 DEF OnDisk, InTable, InDlq
  <2> QED BY <2>2, <2>3
<1> QED BY <1>1, <1>2


-----------------------------------------------------------------------------
(* As long as no write fails, a task to be run has its row, a task in      *)
(* flight is in flight in the table, too, and every row is about a payload *)
(* that was accepted.  (The converse fails: evict_dead_workers leaves the  *)
(* row of a requeued task in flight.)                                      *)
SettledAt(t) ==
  /\ task[t].status \in {"pending", "in_flight"} => walTasks[t] # NoRow
  /\ task[t].status = "in_flight" => walTasks[t].status = "in_flight"
  /\ walTasks[t] # NoRow => walTasks[t].payload \in answered
  /\ walDlq[t] # NoRow => walDlq[t].payload \in answered

Settled == wal_enabled => \A t \in TaskId : SettledAt(t)

LEMMA SettledStep ==
  ASSUME Typed, Linked, Settled, wal_enabled, DurableMoves, TasksOK',
         wal_failures' = wal_failures, Peek(PeekLimit)' = Range(dlq')
  PROVE  Settled'
<1>0. \A t \in TaskId : SettledAt(t)
  BY DEF Settled
<1>1. wal_failures' # wal_failures + 1
  BY DEF Typed, HistoryOK
<1>2. ASSUME NEW T, Only(T), answered \subseteq answered',
             \A t \in T \cap TaskId : SettledAt(t)'
      PROVE  Settled'
  <2>1. ASSUME NEW t \in TaskId \ T PROVE SettledAt(t)'
    BY <1>0, <1>2, <2>1 DEF Only, RowSame, SettledAt
  <2> QED BY <1>2, <2>1 DEF Settled
<1>3. ASSUME NEW q \in Queues, Produced(q) PROVE Settled'
  <2>1. PICK n \in TaskId : n = nextId
    BY <1>3 DEF Produced, Created
  <2>2. walDlq[n] = NoRow
    BY <2>1 DEF Typed, TablesOK, TaskId
  <2>3. /\ task'[n].status = "pending" /\ RowSaved(n, q, n)
        /\ answered' = answered \cup {n} /\ Only({n})
    BY <1>1, <1>3, <2>1, Zenon DEF Produced, Created, Logs, FailsToLog
  <2>4. SettledAt(n)'
    BY <2>2, <2>3, Zenon DEF RowSaved, SettledAt
  <2> QED BY <1>2, <2>3, <2>4, Zenon
<1>4. ASSUME NEW t \in TaskId, Delivered(t) PROVE Settled'
  <2>1. RowSet(t, "in_flight", task[t].attempts + 1) /\ answered' = answered
    BY <1>1, <1>4 DEF Delivered, Logs, FailsToLog, history
  <2>2. SettledAt(t)'
    BY <1>0, <1>4, <2>1, Zenon DEF Delivered, HandedOut, Moved, RowSet, SettledAt
  <2> QED BY <1>2, <1>4, <2>1, <2>2, Zenon DEF Delivered
<1>5. ASSUME NEW t \in TaskId, Acked(t) PROVE Settled'
  <2>1. RowSet(t, "done", walTasks[t].attempts) /\ answered' = answered
    BY <1>1, <1>5 DEF Acked, Logs, FailsToLog
  <2>2. SettledAt(t)'
    BY <1>0, <1>5, <2>1, Zenon DEF Acked, Completed, Moved, RowSet, SettledAt
  <2> QED BY <1>2, <1>5, <2>1, <2>2, Zenon DEF Acked
<1>6. ASSUME NEW t \in TaskId, Nacked(t) PROVE Settled'
  <2>1. /\ IF Exhausted(t) THEN RowBuried(t)
                           ELSE RowSet(t, "pending", task[t].attempts)
        /\ answered' = answered
    BY <1>1, <1>6, Zenon DEF Nacked, Logs, FailsToLog, history
  <2>2. CASE Exhausted(t)
    <3>1. task'[t].status = "dead_lettered" /\ task[t].status = "in_flight"
      BY <1>6, <2>2 DEF Nacked, Failed, Moved
    <3>2. walDlq'[t].payload = task[t].payload /\ walTasks'[t] = NoRow
      BY <2>1, <2>2, <3>1, Zenon DEF RowBuried, TasksOK
    <3>3. task[t].payload \in answered
      BY <1>0, <3>1, Zenon DEF SettledAt, Linked, LinkedAt
    <3>4. SettledAt(t)'
      BY <2>1, <3>1, <3>2, <3>3, Zenon DEF SettledAt
    <3> QED BY <1>2, <1>6, <2>1, <3>4 DEF Nacked
  <2>3. CASE ~Exhausted(t)
    <3>1. SettledAt(t)'
      BY <1>0, <1>6, <2>1, <2>3, Zenon DEF Nacked, Failed, Moved, RowSet, SettledAt
    <3> QED BY <1>2, <1>6, <2>1, <3>1 DEF Nacked
  <2> QED BY <2>2, <2>3
<1>7. ASSUME NEW t \in TaskId, Replayed(t) PROVE Settled'
  <2>1. PICK n \in TaskId : n = nextId
    BY <1>7 DEF Replayed, Created
  <2>2. walDlq[n] = NoRow
    BY <2>1 DEF Typed, TablesOK, TaskId
  <2>3. /\ task'[n].status = "pending" /\ Only({t, n}) /\ answered' = answered
        /\ RowSaved(n, walDlq[t].queue_name, walDlq[t].payload)
    BY <1>1, <1>7, <2>1, Zenon DEF Replayed, Created, FailsToLog, history
  <2>4. SettledAt(n)'
    BY <1>0, <1>7, <2>2, <2>3, Zenon DEF Replayed, RowSaved, SettledAt
  <2>5. SettledAt(t)'
    BY <1>0, <1>7, <2>3, Zenon DEF Replayed, SettledAt
  <2> QED BY <1>2, <2>3, <2>4, <2>5, Zenon
<1>8. ASSUME NEW Q, PurgedRows(Q) PROVE Settled'
  BY <1>0, <1>8, Zenon DEF PurgedRows, Settled, SettledAt
<1>9. CASE Emptied
  BY <1>1, <1>9, BlankTask, Zenon DEF Emptied, Settled, SettledAt
<1>10. CASE Orphaned
  BY <1>0, <1>10, Zenon DEF Orphaned, Requeued, Moved, OthersSame, RowSame, history,
                     Settled, SettledAt
<1>11. CASE Quiet
  BY <1>0, <1>11, Zenon DEF Quiet, durable, history, Settled, SettledAt
<1>12. CASE Recovers
  <2>1. \A t \in TaskId : walDlq'[t] \in {walDlq[t], NoRow}
    BY <1>12 DEF Recovers
  <2>2. ASSUME NEW t \in LoadPendingTasks PROVE SettledAt(t)'
    <3>1. walTasks[t] # NoRow /\ t \in TaskId
      BY DEF LoadPendingTasks
    <3> QED BY <1>0, <1>12, <2>1, <3>1, Zenon DEF Recovers, Reloaded, history, SettledAt
  <2>3. ASSUME NEW t \in TaskId \ LoadPendingTasks PROVE SettledAt(t)'
    <3>1. /\ task'[t].status = "none" /\ walTasks'[t] = walTasks[t]
          /\ answered' = answered
      BY <1>12, <2>3, BlankTask, Zenon DEF Recovers, Reloaded, history
    <3> QED BY <1>0, <2>1, <3>1, Zenon DEF SettledAt
  <2> QED BY <2>2, <2>3 DEF Settled
<1> QED BY <1>3, <1>4, <1>5, <1>6, <1>7, <1>8, <1>9, <1>10, <1>11, <1>12, Zenon
        DEF DurableMoves, Unlogged


-----------------------------------------------------------------------------
(* The row of t goes from one state to another: one payload moves.         *)
LEMMA RowMoves ==
  ASSUME TablesTell, TablesTell', Linked, Settled, wal_enabled, wal_enabled',
         Typed, NEW t \in TaskId, Only({t}), answered' = answered,
         walTasks[t] # NoRow, NEW to,
         \/ /\ walTasks'[t] # NoRow /\ walDlq'[t] = walDlq[t]
            /\ walTasks'[t].payload = walTasks[t].payload
            /\ walTasks'[t].status = to
         \/ /\ walTasks'[t] = NoRow /\ walDlq'[t] # NoRow
            /\ walDlq'[t].payload = walTasks[t].payload
            /\ to = "dead_lettered"
  PROVE  \E p \in TaskId : DurableLedger!Move({p}, walTasks[t].status, to)
<1>1. PICK p \in TaskId : p = walTasks[t].payload /\ p \in answered
  BY Zenon DEF Settled, SettledAt, Typed, HistoryOK
<1>2. InTable(t, p) /\ walDlq[t] = NoRow
  BY <1>1 DEF InTable, Linked, LinkedAt
<1>3. LedgerOfTables[p] = walTasks[t].status
  BY <1>1, <1>2, Zenon DEF TablesTell
<1>4. LedgerOfTables'[p] = to
  <2>1. CASE walTasks'[t] # NoRow
    <3>1. InTable(t, p)' /\ walTasks'[t].status = to
      BY <1>1, <2>1, Zenon DEF InTable
    <3> QED BY <1>1, <3>1 DEF TablesTell
  <2>2. CASE walTasks'[t] = NoRow
    <3>1. InDlq(t, p)' /\ to = "dead_lettered"
      BY <1>1, <2>2, Zenon DEF InDlq
    <3> QED BY <1>1, <3>1, Zenon DEF TablesTell
  <2> QED BY <2>1, <2>2
<1>5. ASSUME NEW r \in TaskId \ {p} PROVE LedgerOfTables'[r] = LedgerOfTables[r]
  <2>1. ~OnDisk(t, r) /\ ~OnDisk(t, r)'
    BY <1>1, <1>2, <1>5, Zenon DEF OnDisk
  <2>2. UNCHANGED wal_enabled /\ (r \in answered' <=> r \in answered)
    OBVIOUS
  <2>3. \A u \in {t} \cap TaskId : ~OnDisk(u, r) /\ ~OnDisk(u, r)'
    BY <2>1, Zenon
  <2> QED BY <2>2, <2>3, TablesOthers, Zenon
<1>6. {p} \in SUBSET TaskId
  BY Zenon
<1>7. DurableLedger!Move({p}, walTasks[t].status, to)
  BY <1>3, <1>4, <1>5, <1>6, TablesMove, Zenon
<1> QED BY <1>7, Zenon

(* The hypotheses of the steps.                                            *)
Tabled == /\ Typed /\ Linked /\ CarryInv /\ Settled /\ wal_enabled
          /\ TablesTell /\ TablesTell' /\ wal_enabled'

LEMMA ProducedSubmits ==
  ASSUME Tabled, NEW q \in Queues, Produced(q), wal_failures' # wal_failures + 1
  PROVE  DurableLedger!LedgerNext
<1>1. PICK n \in TaskId : n = nextId
  BY Zenon DEF Produced, Created
<1>2. walTasks[n] = NoRow /\ walDlq[n] = NoRow /\ n \notin answered
  BY <1>1 DEF Tabled, Typed, TablesOK, CarryInv, TaskId
<1>3. RowSaved(n, q, n) /\ answered' = answered \cup {n} /\ Only({n})
  BY <1>1 DEF Tabled, Produced, Logs, FailsToLog
<1>4. LedgerOfTables[n] = "new"
  BY <1>2 DEF Tabled, TablesTell
<1>5. LedgerOfTables'[n] = "pending"
  <2>1. InTable(n, n)' /\ walTasks'[n].status = "pending"
    BY <1>3 DEF RowSaved, InTable
  <2> QED BY <1>3, <2>1 DEF Tabled, TablesTell
<1>6. ASSUME NEW r \in TaskId \ {n} PROVE LedgerOfTables'[r] = LedgerOfTables[r]
  <2>1. ~OnDisk(n, r) /\ ~OnDisk(n, r)'
    BY <1>2, <1>3, <1>6, Zenon DEF RowSaved, OnDisk
  <2> QED BY <1>3, <2>1, TablesOthers, Zenon DEF Tabled
<1>7. {n} \in SUBSET TaskId
  OBVIOUS
<1>8. DurableLedger!Move({n}, "new", "pending")
  BY <1>4, <1>5, <1>6, <1>7, TablesMove, Zenon DEF Tabled
<1> QED BY <1>8 DEF DurableLedger!LedgerNext, DurableLedger!Submit

(* After an eviction the row is in flight already.                         *)
LEMMA DeliveredClaims ==
  ASSUME Tabled, NEW t \in TaskId, Delivered(t), wal_failures' # wal_failures + 1
  PROVE  DurableLedger!LedgerNext \/ LedgerOfTables' = LedgerOfTables
<1>1. RowSet(t, "in_flight", task[t].attempts + 1) /\ answered' = answered /\ Only({t})
  BY Zenon DEF Tabled, Delivered, Logs, FailsToLog, history
<1>2. walTasks[t] # NoRow /\ walTasks[t].status \in {"pending", "in_flight"}
  BY Zenon DEF Tabled, Typed, TablesOK, WALTypeOK, TaskRow, Delivered, HandedOut, Moved,
         Settled, SettledAt, Linked, LinkedAt
<1>3. /\ walTasks'[t] # NoRow /\ walDlq'[t] = walDlq[t]
      /\ walTasks'[t].payload = walTasks[t].payload
      /\ walTasks'[t].status = "in_flight"
  BY <1>1, <1>2, Zenon DEF RowSet
<1>4. PICK p \in TaskId : DurableLedger!Move({p}, walTasks[t].status, "in_flight")
  BY <1>1, <1>2, <1>3, RowMoves, Zenon DEF Tabled
<1>5. CASE walTasks[t].status = "pending"
  BY <1>4, <1>5, Zenon DEF DurableLedger!LedgerNext, DurableLedger!Claim
<1>6. CASE walTasks[t].status = "in_flight"
  <2>1. \A r \in TaskId : LedgerOfTables'[r] = LedgerOfTables[r]
    BY <1>4, <1>6, Zenon DEF DurableLedger!Move
  <2> QED BY <2>1, TablesStutter DEF Tabled
<1> QED BY <1>2, <1>5, <1>6


LEMMA AckedCompletes ==
  ASSUME Tabled, NEW t \in TaskId, Acked(t), wal_failures' # wal_failures + 1
  PROVE  DurableLedger!LedgerNext
<1>1. RowSet(t, "done", walTasks[t].attempts) /\ answered' = answered /\ Only({t})
  BY Zenon DEF Tabled, Acked, Logs, FailsToLog
<1>2. walTasks[t] # NoRow /\ walTasks[t].status = "in_flight"
  BY Zenon DEF Tabled, Acked, Completed, Moved, Settled, SettledAt
<1>3. /\ walTasks'[t] # NoRow /\ walDlq'[t] = walDlq[t]
      /\ walTasks'[t].payload = walTasks[t].payload
      /\ walTasks'[t].status = "done"
  BY <1>1, <1>2, Zenon DEF RowSet
<1>4. PICK p \in TaskId : DurableLedger!Move({p}, walTasks[t].status, "done")
  BY <1>1, <1>2, <1>3, RowMoves, Zenon DEF Tabled
<1> QED BY <1>2, <1>4, Zenon DEF DurableLedger!LedgerNext, DurableLedger!Complete

LEMMA NackedSettles ==
  ASSUME Tabled, NEW t \in TaskId, Nacked(t), wal_failures' # wal_failures + 1,
         TasksOK', Peek(PeekLimit)' = Range(dlq')
  PROVE  DurableLedger!LedgerNext
<1>1. /\ IF Exhausted(t) THEN RowBuried(t) ELSE RowSet(t, "pending", task[t].attempts)
      /\ answered' = answered /\ Only({t})
  BY DEF Tabled, Nacked, Logs, FailsToLog, history
<1>2. /\ walTasks[t] # NoRow /\ walTasks[t].status = "in_flight"
      /\ walTasks[t].payload = task[t].payload
  BY Zenon DEF Tabled, Nacked, Failed, Moved, Settled, SettledAt, Linked, LinkedAt
<1>3. CASE Exhausted(t)
  <2>1. t \in Peek(PeekLimit)'
    BY <1>3, Zenon DEF Nacked, Failed, Moved, TasksOK
  <2>2. /\ walTasks'[t] = NoRow /\ walDlq'[t] # NoRow
        /\ walDlq'[t].payload = walTasks[t].payload
    BY <1>1, <1>2, <1>3, <2>1, Zenon DEF RowBuried
  <2>3. PICK p \in TaskId :
          DurableLedger!Move({p}, walTasks[t].status, "dead_lettered")
    BY <1>1, <1>2, <2>2, RowMoves, Zenon DEF Tabled
  <2> QED BY <1>2, <2>3, Zenon DEF DurableLedger!LedgerNext, DurableLedger!Bury
<1>4. CASE ~Exhausted(t)
  <2>1. /\ walTasks'[t] # NoRow /\ walDlq'[t] = walDlq[t]
        /\ walTasks'[t].payload = walTasks[t].payload
        /\ walTasks'[t].status = "pending"
    BY <1>1, <1>2, <1>4, Zenon DEF RowSet
  <2>2. PICK p \in TaskId : DurableLedger!Move({p}, walTasks[t].status, "pending")
    BY <1>1, <1>2, <2>1, RowMoves, Zenon DEF Tabled
  <2>3. {p} \in SUBSET TaskId
    OBVIOUS
  <2> QED BY <1>2, <2>2, <2>3, Zenon DEF DurableLedger!LedgerNext, DurableLedger!Return
<1> QED BY <1>3, <1>4

(* The dead letter comes back under a new id.                              *)
LEMMA ReplayedRevives ==
  ASSUME Tabled, NEW t \in TaskId, Replayed(t), wal_failures' # wal_failures + 1
  PROVE  DurableLedger!LedgerNext
<1>1. PICK n \in TaskId : n = nextId
  BY DEF Replayed, Created
<1>2. /\ walTasks[n] = NoRow /\ walDlq[n] = NoRow /\ walDlq'[n] = NoRow
      /\ walTasks[t] = NoRow /\ walTasks'[t] = NoRow /\ walDlq'[t] = NoRow
  <2>1. walTasks[n] = NoRow /\ walDlq[n] = NoRow
    BY <1>1 DEF Tabled, Typed, TablesOK, TaskId
  <2>2. walDlq'[n] = walDlq[n]
    BY <1>1, Zenon DEF Replayed, RowSaved, FailsToLog, RowSame
  <2> QED BY <2>1, <2>2, Zenon DEF Replayed, Tabled, Linked, LinkedAt
<1>3. /\ RowSaved(n, walDlq[t].queue_name, walDlq[t].payload)
      /\ Only({t, n}) /\ answered' = answered
  BY <1>1, Zenon DEF Replayed, FailsToLog, history
<1>4. PICK p \in TaskId : p = walDlq[t].payload /\ p \in answered
  BY Zenon DEF Replayed, Tabled, Settled, SettledAt, Typed, HistoryOK
<1>5. LedgerOfTables[p] = "dead_lettered"
  <2>1. InDlq(t, p)
    BY <1>4, Zenon DEF Replayed, InDlq
  <2> QED BY <1>4, <2>1 DEF Tabled, TablesTell
<1>6. LedgerOfTables'[p] = "pending"
  <2>1. InTable(n, p)' /\ walTasks'[n].status = "pending"
    BY <1>3, <1>4, Zenon DEF RowSaved, InTable
  <2> QED BY <1>3, <1>4, <2>1 DEF Tabled, TablesTell
<1>7. ASSUME NEW r \in TaskId \ {p} PROVE LedgerOfTables'[r] = LedgerOfTables[r]
  <2>1. ~OnDisk(t, r) /\ ~OnDisk(t, r)'
    BY <1>2, <1>4, <1>7, Zenon DEF OnDisk
  <2>2. ~OnDisk(n, r) /\ ~OnDisk(n, r)'
    BY <1>2, <1>3, <1>4, <1>7, Zenon DEF RowSaved, OnDisk
  <2>3. UNCHANGED wal_enabled /\ TablesTell /\ TablesTell'
    BY DEF Tabled
  <2>4. \A u \in {t, n} \cap TaskId : ~OnDisk(u, r) /\ ~OnDisk(u, r)'
    BY <2>1, <2>2, Zenon
  <2>5. Only({t, n}) /\ (r \in answered' <=> r \in answered)
    BY <1>3, Zenon
  <2> QED BY <2>3, <2>4, <2>5, TablesOthers, Zenon
<1>8. {p} \in SUBSET TaskId
  OBVIOUS
<1>9. DurableLedger!Move({p}, "dead_lettered", "pending")
  BY <1>5, <1>6, <1>7, <1>8, TablesMove, Zenon DEF Tabled
<1> QED BY <1>8, <1>9 DEF DurableLedger!LedgerNext, DurableLedger!Revive

LEMMA PurgedRowsDiscards ==
  ASSUME Tabled, NEW Q \in SUBSET Queues, PurgedRows(Q)
  PROVE  DurableLedger!LedgerNext
<1> DEFINE T == {t \in TaskId : walDlq[t] # NoRow /\ walDlq[t].queue_name \in Q}
           S == {walDlq[t].payload : t \in T}
<1>1. \A p \in S : p \in TaskId /\ p \in answered
  BY DEF Tabled, Settled, SettledAt, Typed, HistoryOK
<1>2. /\ walTasks' = walTasks /\ answered' = answered
      /\ \A t \in T : walDlq'[t] = NoRow
      /\ \A t \in TaskId \ T : walDlq'[t] \in {walDlq[t], NoRow}
                               /\ (walDlq[t] # NoRow => walDlq'[t] = walDlq[t])
  BY Zenon DEF PurgedRows
<1>3. ASSUME NEW p \in S
      PROVE  LedgerOfTables[p] = "dead_lettered" /\ LedgerOfTables'[p] = "gone"
  <2>1. PICK t \in T : p = walDlq[t].payload
    OBVIOUS
  <2>2. InDlq(t, p) /\ walTasks[t] = NoRow
    BY <2>1, Zenon DEF InDlq, Tabled, Linked, LinkedAt
  <2>3. \A u \in TaskId \ {t} : ~OnDisk(u, p)
    <3>1. p \in Submission
      BY <1>1, TypesAssumption DEF Submission, TaskId, Payload
    <3>2. Carries(t, p) /\ \A u \in TaskId : OnDisk(u, p) => Carries(u, p)
      BY <2>2, Zenon DEF InDlq, OnDisk, Carries
    <3> QED BY <3>1, <3>2 DEF Tabled, CarryInv
  <2>4. \A u \in TaskId : ~OnDisk(u, p)'
    <3>1. ~OnDisk(t, p)'
      BY <1>2, <2>2, Zenon DEF OnDisk
    <3>2. \A u \in TaskId \ {t} : ~OnDisk(u, p)'
      BY <1>2, <2>3, Zenon DEF OnDisk
    <3> QED BY <3>1, <3>2, Zenon
  <2> QED BY <1>1, <1>2, <2>2, <2>4 DEF Tabled, TablesTell
<1>4. ASSUME NEW p \in TaskId \ S PROVE LedgerOfTables'[p] = LedgerOfTables[p]
  <2>1. \A u \in T : ~InDlq(u, p)
    BY <1>4, Zenon DEF InDlq
  <2>2. \A u \in TaskId : /\ InTable(u, p)' <=> InTable(u, p)
                          /\ InDlq(u, p)' <=> InDlq(u, p)
    BY <1>2, <2>1, Zenon DEF InTable, InDlq
  <2>3. CASE p \notin answered
    BY <1>2, <2>3 DEF Tabled, TablesTell
  <2>4. ASSUME p \in answered, NEW u \in TaskId, InTable(u, p)
        PROVE  LedgerOfTables'[p] = LedgerOfTables[p]
    BY <1>2, <2>2, <2>4 DEF Tabled, TablesTell
  <2>5. ASSUME p \in answered, NEW u \in TaskId, InDlq(u, p)
        PROVE  LedgerOfTables'[p] = LedgerOfTables[p]
    BY <1>2, <2>2, <2>5 DEF Tabled, TablesTell
  <2>6. CASE p \in answered /\ \A u \in TaskId : ~InTable(u, p) /\ ~InDlq(u, p)
    <3>1. \A u \in TaskId : ~OnDisk(u, p) /\ ~OnDisk(u, p)'
      BY <2>2, <2>6, Zenon DEF OnDisk, InTable, InDlq
    <3> QED BY <1>2, <2>6, <3>1 DEF Tabled, TablesTell
  <2> QED BY <2>3, <2>4, <2>5, <2>6, Zenon
<1>5. S \in SUBSET TaskId
  BY <1>1
<1> HIDE DEF S
<1>6. DurableLedger!Move(S, "dead_lettered", "gone")
  BY <1>3, <1>4, <1>5, TablesMove DEF Tabled
<1> QED BY <1>5, <1>6 DEF DurableLedger!LedgerNext, DurableLedger!Discard


(* An accepted payload is in the tasks table, or in the DLQ table, or gone.*)
LEMMA TablesCases ==
  ASSUME TablesTell, Typed, wal_enabled, NEW p \in TaskId, p \in answered
  PROVE  \/ \E t \in TaskId : /\ InTable(t, p)
                              /\ LedgerOfTables[p] = walTasks[t].status
                              /\ walTasks[t].status \in {"pending", "in_flight", "done"}
         \/ LedgerOfTables[p] = "dead_lettered" /\ \E t \in TaskId : InDlq(t, p)
         \/ LedgerOfTables[p] = "gone" /\ \A t \in TaskId : ~OnDisk(t, p)
<1>1. \A t \in TaskId : InTable(t, p) =>
        walTasks[t].status \in {"pending", "in_flight", "done"}
  BY DEF Typed, TablesOK, WALTypeOK, TaskRow, InTable
<1>2. CASE \A t \in TaskId : ~OnDisk(t, p)
  BY <1>2 DEF TablesTell
<1>3. CASE \E t \in TaskId : InTable(t, p)
  BY <1>1, <1>3 DEF TablesTell
<1>4. CASE \E t \in TaskId : InDlq(t, p)
  BY <1>4 DEF TablesTell
<1> QED BY <1>2, <1>3, <1>4, Zenon DEF OnDisk, InTable, InDlq

LEMMA EmptiedClears ==
  ASSUME Tabled, Emptied, wal_failures' # wal_failures + 1
  PROVE  DurableLedger!LedgerNext
<1>1. /\ \A t \in TaskId : walTasks'[t] = NoRow /\ walDlq'[t] = NoRow
      /\ answered' = answered
  BY DEF Tabled, Emptied
<1>2. ASSUME NEW p \in TaskId
      PROVE  LedgerOfTables'[p] = IF LedgerOfTables[p] = "new" THEN "new" ELSE "gone"
  <2>1. CASE p \notin answered
    BY <1>1, <2>1 DEF Tabled, TablesTell
  <2>2. CASE p \in answered
    <3>1. LedgerOfTables'[p] = "gone"
      <4>1. \A t \in TaskId : ~OnDisk(t, p)'
        BY <1>1, Zenon DEF OnDisk
      <4> QED BY <1>1, <2>2, <4>1 DEF Tabled, TablesTell
    <3>2. LedgerOfTables[p] # "new"
      BY <2>2, TablesCases DEF Tabled
    <3> QED BY <3>1, <3>2
  <2> QED BY <2>1, <2>2
<1>3. LedgerOfTables' = [p \in TaskId |-> LedgerOfTables'[p]]
  BY DEF Tabled, TablesTell
<1>4. DurableLedger!Clear
  BY <1>2, <1>3 DEF DurableLedger!Clear
<1> QED BY <1>4 DEF DurableLedger!LedgerNext

(* What the crash takes is the dead letter that DLQ_REPLAY was moving.     *)
LEMMA RecoversCrashes ==
  ASSUME Tabled, Recovers
  PROVE  DurableLedger!LedgerNext
<1>1. answered' = answered
  BY Zenon DEF Recovers, history
<1>2. PICK T \in SUBSET TaskId :
        /\ T = {} \/ \E t \in TaskId : T = {t}
        /\ \A t \in T : walDlq[t] # NoRow /\ walDlq'[t] = NoRow
        /\ \A t \in TaskId \ T : walDlq'[t] = walDlq[t]
  <2>1. CASE UNCHANGED walDlq
    <3>1. {} \in SUBSET TaskId /\ \A t \in TaskId \ {} : walDlq'[t] = walDlq[t]
      BY <2>1, Zenon
    <3> QED BY <3>1, Zenon
  <2>2. ASSUME NEW t \in TaskId, walDlq[t] # NoRow, walDlq'[t] = NoRow,
               \A u \in TaskId \ {t} : walDlq'[u] = walDlq[u]
        PROVE  \E T \in SUBSET TaskId :
                 /\ T = {} \/ \E v \in TaskId : T = {v}
                 /\ \A v \in T : walDlq[v] # NoRow /\ walDlq'[v] = NoRow
                 /\ \A v \in TaskId \ T : walDlq'[v] = walDlq[v]
    <3>1. {t} \in SUBSET TaskId
      OBVIOUS
    <3> QED BY <2>2, <3>1, Zenon
  <2> QED BY <2>1, <2>2, Zenon DEF Recovers
<1> DEFINE D == {walDlq[t].payload : t \in T}
<1>3. D = {} \/ \E x : D = {x}
  BY <1>2
<1>4. \A p \in D : p \in TaskId /\ p \in answered
  BY <1>2, Zenon DEF Tabled, Settled, SettledAt, Typed, HistoryOK
<1>5. \A t \in TaskId : \A p : InTable(t, p)' <=> InTable(t, p)
  BY Zenon DEF Recovers, LoadPendingTasks, InTable
<1>6. \A t \in TaskId : walTasks[t] # NoRow =>
        walTasks'[t].status = IF walTasks[t].status = "in_flight" THEN "pending"
                              ELSE walTasks[t].status
  BY DEF Recovers, LoadPendingTasks
<1>7. ASSUME NEW p \in D
      PROVE  LedgerOfTables[p] = "dead_lettered" /\ LedgerOfTables'[p] = "gone"
  <2>1. PICK t \in T : p = walDlq[t].payload
    BY Zenon
  <2>2. InDlq(t, p) /\ walTasks[t] = NoRow /\ t \in TaskId
    BY <1>2, <2>1, Zenon DEF InDlq, Tabled, Linked, LinkedAt
  <2>3. \A u \in TaskId \ {t} : ~InTable(u, p) /\ ~InDlq(u, p)
    <3>1. p \in Submission
      BY <1>4, TypesAssumption DEF Submission, TaskId, Payload
    <3>2. /\ Carries(t, p)
          /\ \A u \in TaskId : InTable(u, p) \/ InDlq(u, p) => Carries(u, p)
      BY <2>2 DEF InDlq, InTable, Carries
    <3> QED BY <2>2, <3>1, <3>2 DEF Tabled, CarryInv
  <2>4. \A u \in TaskId : ~InTable(u, p)' /\ ~InDlq(u, p)'
    <3>1. ~InTable(t, p)
      BY <2>2, Zenon DEF InTable
    <3>2. \A u \in TaskId : ~InDlq(u, p)'
      BY <1>2, <2>3 DEF InDlq
    <3> QED BY <1>5, <2>3, <3>1, <3>2, Zenon
  <2>5. \A u \in TaskId : ~OnDisk(u, p)'
    BY <2>4 DEF OnDisk, InTable, InDlq
  <2> QED BY <1>1, <1>4, <2>2, <2>5 DEF Tabled, TablesTell
<1>8. ASSUME NEW p \in TaskId \ D
      PROVE  LedgerOfTables'[p] = IF LedgerOfTables[p] = "in_flight" THEN "pending"
                                  ELSE LedgerOfTables[p]
  <2>1. \A u \in TaskId : InDlq(u, p)' <=> InDlq(u, p)
    BY <1>2, <1>8 DEF InDlq
  <2>2. CASE p \notin answered
    BY <1>1, <2>2 DEF Tabled, TablesTell
  <2>3. ASSUME p \in answered, NEW u \in TaskId, InTable(u, p),
               LedgerOfTables[p] = walTasks[u].status
        PROVE  LedgerOfTables'[p] = IF LedgerOfTables[p] = "in_flight" THEN "pending"
                                    ELSE LedgerOfTables[p]
    <3>1. LedgerOfTables'[p] = walTasks'[u].status
      BY <1>1, <1>5, <2>3 DEF Tabled, TablesTell
    <3> QED BY <1>6, <2>3, <3>1 DEF InTable
  <2>4. CASE p \in answered /\ LedgerOfTables[p] = "dead_lettered"
             /\ \E u \in TaskId : InDlq(u, p)
    BY <1>1, <2>1, <2>4 DEF Tabled, TablesTell
  <2>5. CASE p \in answered /\ LedgerOfTables[p] = "gone"
             /\ \A u \in TaskId : ~OnDisk(u, p)
    <3>1. \A u \in TaskId : ~OnDisk(u, p)'
      BY <1>5, <2>1, <2>5, Zenon DEF OnDisk, InTable, InDlq
    <3> QED BY <1>1, <2>5, <3>1 DEF Tabled, TablesTell
  <2>6. p \in answered =>
          \/ \E u \in TaskId : InTable(u, p) /\ LedgerOfTables[p] = walTasks[u].status
          \/ LedgerOfTables[p] = "dead_lettered" /\ \E u \in TaskId : InDlq(u, p)
          \/ LedgerOfTables[p] = "gone" /\ \A u \in TaskId : ~OnDisk(u, p)
    BY TablesCases, Zenon DEF Tabled
  <2> QED BY <2>2, <2>3, <2>4, <2>5, <2>6, Zenon
<1>9. LedgerOfTables' = [p \in TaskId |-> LedgerOfTables'[p]]
  BY DEF Tabled, TablesTell
<1>10. D \in SUBSET TaskId
  BY <1>4
<1> HIDE DEF D
<1>11. DurableLedger!Crash(D)
  <2>1. \A p \in D : LedgerOfTables[p] = "dead_lettered"
    BY <1>7
  <2>2. \A p \in TaskId :
          LedgerOfTables'[p] = IF p \in D THEN "gone"
                               ELSE IF LedgerOfTables[p] = "in_flight" THEN "pending"
                               ELSE LedgerOfTables[p]
    BY <1>7, <1>8
  <2>3. LedgerOfTables' =
          [p \in TaskId |-> IF p \in D THEN "gone"
                            ELSE IF LedgerOfTables[p] = "in_flight" THEN "pending"
                            ELSE LedgerOfTables[p]]
    BY <1>9, <2>2
  <2>4. D \in {{}} \cup {{p} : p \in TaskId}
    BY <1>3, <1>10
  <2> QED BY <2>1, <2>3, <2>4 DEF DurableLedger!Crash
<1> QED BY <1>10, <1>11 DEF DurableLedger!LedgerNext

(* Each step of the tables is a step of the ledger, or none.               *)
LEMMA LedgerStep ==
  ASSUME Tabled, DurableMoves, TasksOK', wal_failures' = wal_failures,
         Peek(PeekLimit)' = Range(dlq')
  PROVE  DurableLedger!LedgerNext \/ LedgerOfTables' = LedgerOfTables
<1>1. wal_failures' # wal_failures + 1
  BY DEF Tabled, Typed, HistoryOK
<1>2. ASSUME answered' = answered, \A t \in TaskId : RowSame(t)
      PROVE  LedgerOfTables' = LedgerOfTables
  <2>1. \A t \in TaskId : \A p : (InTable(t, p)' <=> InTable(t, p))
                                 /\ (InDlq(t, p)' <=> InDlq(t, p))
                                 /\ (OnDisk(t, p)' <=> OnDisk(t, p))
    BY <1>2, Zenon DEF RowSame, InTable, InDlq, OnDisk
  <2>2. ASSUME NEW p \in TaskId PROVE LedgerOfTables'[p] = LedgerOfTables[p]
    <3>1. CASE p \notin answered
      BY <1>2, <3>1 DEF Tabled, TablesTell
    <3>2. CASE p \in answered
      BY <1>2, <2>1, <3>2, TablesCases DEF Tabled, TablesTell, RowSame
    <3> QED BY <3>1, <3>2
  <2> QED BY <2>2, TablesStutter DEF Tabled
<1>3. CASE Orphaned
  BY <1>2, <1>3 DEF Orphaned, history
<1>4. CASE Quiet
  BY <1>2, <1>4, Zenon DEF Quiet, durable, history, RowSame
<1>5. ~Unlogged
  BY Zenon DEF Tabled, Unlogged
<1> QED BY <1>1, <1>3, <1>4, <1>5, ProducedSubmits, DeliveredClaims, AckedCompletes,
           NackedSettles, ReplayedRevives, PurgedRowsDiscards, EmptiedClears,
           RecoversCrashes, Zenon DEF DurableMoves


-----------------------------------------------------------------------------
(* Without a failing write, a step loses nothing, unless it is a crash     *)
(* that changes the DLQ table.                                             *)
LEMMA NothingLostStep ==
  ASSUME Typed, Kept, Dated, wal_enabled, DurableMoves \/ ReplayedAll, TasksOK',
         Peek(PeekLimit)' = Range(dlq'), wal_failures' = wal_failures,
         crashes' # crashes => UNCHANGED walDlq
  PROVE  \A p \in TaskId : LostAt(p)' => LostAt(p)
<1>1. crashes \in Int /\ wal_failures \in Int
  BY BrokerAssumption DEF Typed, HistoryOK
<1>2. CASE Recovers
  <2>1. UNCHANGED walDlq /\ UNCHANGED <<answered, removed>>
    <3>1. crashes' = crashes + 1 /\ UNCHANGED <<answered, removed>>
      BY <1>2, Zenon DEF Recovers, history
    <3>2. crashes' # crashes
      BY <1>1, <3>1
    <3> QED BY <3>1, <3>2
  <2>2. \A t \in TaskId : walTasks[t] # NoRow =>
          walTasks'[t] # NoRow /\ walTasks'[t].payload = walTasks[t].payload
    BY <1>2 DEF Recovers
  <2>3. \A p \in TaskId : \A t \in TaskId : OnDisk(t, p) => OnDisk(t, p)'
    BY <2>1, <2>2 DEF OnDisk
  <2> QED BY <2>1, <2>3, Zenon DEF LostAt
<1>3. CASE crashes' = crashes
  <2>1. Faults' = Faults /\ Faults \in Int
    BY <1>1, <1>3 DEF Faults
  <2>2. Faults' # Faults + 1
    BY <2>1
  <2> QED BY <2>2, LostStep DEF LostBound
<1> QED BY <1>2, <1>3, Zenon
        DEF DurableMoves, Produced, Delivered, Acked, Nacked, Replayed, PurgedRows,
            Unlogged, Emptied, Orphaned, Quiet, ReplayedAll

(* The broker does not die between the two commits of _handle_dlq_replay.  *)
ReplayIsWhole == \A t \in TaskId : ~CrashDuringReplay(t)

LEMMA CrashKeepsDlq ==
  ASSUME BrokerNext, ReplayIsWhole, crashes' # crashes
  PROVE  UNCHANGED walDlq
<1>1. \A q \in Queues : ~HandleProduce(q)
  BY DEF HandleProduce
<1>2. \A w \in Workers : \A q \in Queues : ~HandleConsume(w, q)
  BY Zenon DEF HandleConsume, HandOut, unobserved
<1>3. \A w \in Workers : \A q \in Queues : ~HandleConsumeEmpty(w, q)
  BY DEF HandleConsumeEmpty, unobserved
<1>4. \A w \in Workers : ~HandleConsumeAny(w)
  BY Zenon DEF HandleConsumeAny, HandOut, unobserved
<1>5. \A w \in Workers : /\ ~HandleRegister(w) /\ ~HandleHeartbeat(w)
                         /\ ~WorkerLost(w) /\ ~ExecutionEnds(w)
  BY DEF HandleRegister, HandleHeartbeat, WorkerLost, ExecutionEnds, unobserved
<1>6. \A w \in Workers : ~HandleAck(w) /\ ~HandleNack(w)
  BY Zenon DEF HandleAck, HandleNack, unobserved
<1>7. /\ \A t \in TaskId : ~HandleDlqReplay(t)
      /\ \A Q \in SUBSET Queues : ~HandleDlqPurge(Q)
  BY DEF HandleDlqReplay, HandleDlqPurge, unobserved
<1>8. ~ReplayDlqHandler /\ ~ResetHandler /\ ~BrokerEvict /\ ~BrokerTick
  BY DEF ReplayDlqHandler, ResetHandler, BrokerEvict, BrokerTick, unobserved
<1>9. CrashAndRecover
  BY <1>1, <1>2, <1>3, <1>4, <1>5, <1>6, <1>7, <1>8, Zenon DEF BrokerNext, ReplayIsWhole
<1> QED BY <1>9 DEF CrashAndRecover

(* A step in which no write fails is one of the ledger, or none.           *)
LEMMA TablesStep ==
  ASSUME Typed, Linked, CarryInv, Settled, DurableMoves, TasksOK',
         TablesTell, TablesTell', wal_failures' = wal_failures,
         Peek(PeekLimit)' = Range(dlq')
  PROVE  /\ Settled'
         /\ DurableLedger!LedgerNext \/ LedgerOfTables' = LedgerOfTables
<1>1. wal_enabled' = wal_enabled
  BY DEF DurableMoves
<1>2. CASE wal_enabled
  <2>1. Tabled
    BY <1>1, <1>2 DEF Tabled
  <2>2. Settled'
    BY <1>2, SettledStep, Zenon
  <2> QED BY <2>1, <2>2, LedgerStep, Zenon
<1>3. CASE ~wal_enabled
  <2>1. Settled'
    BY <1>1, <1>3 DEF Settled
  <2>2. \A p \in TaskId : LedgerOfTables'[p] = LedgerOfTables[p]
    BY <1>1, <1>3 DEF TablesTell
  <2> QED BY <1>1, <2>1, <2>2, TablesStutter
<1> QED BY <1>2, <1>3

=============================================================================
