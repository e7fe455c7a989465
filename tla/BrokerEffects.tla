--------------------------- MODULE BrokerEffects ---------------------------
(***************************************************************************)
(* What the steps of the Broker do, told by their effects: on the Task     *)
(* objects, and jointly on the objects, the rows of the two tables and the *)
(* history of the answers; and the types of the variables.  The proofs     *)
(* about the Broker first show that every step has one of these effects    *)
(* (BrokerStepProofs, BrokerProofs) and then what steps with these effects *)
(* preserve (BrokerStepProofs, DurableProofs).                             *)
(***************************************************************************)
EXTENDS Broker, TaskEffects

-----------------------------------------------------------------------------
(* enqueue_recovered of the rows load_pending_tasks finds                  *)
Reloaded ==
  /\ \A t \in LoadPendingTasks : /\ task'[t].status = "pending"
                                 /\ task'[t].queue_name = walTasks[t].queue_name
                                 /\ task'[t].payload = walTasks[t].payload
                                 /\ task'[t].attempts = walTasks[t].attempts
  /\ \A t \in TaskId \ LoadPendingTasks : task'[t] = NoTask

-----------------------------------------------------------------------------
(* CONSUME of a named queue and CONSUME of "*", when there is a task: the  *)
(* head of some queue q goes to worker w.                                  *)
Delivers(w, t) ==
  /\ w \in up /\ executing[w] = None
  /\ HandOut(w, t)
  /\ HandedOut(t)

(* DLQ_REPLAY                                                              *)
Replays(t) ==
  /\ HandleDlqReplay(t)
  /\ IF wal_enabled THEN Created(walDlq[t].queue_name, walDlq[t].payload)
                    ELSE Revived({t})

(* DLQ_PURGE                                                               *)
Purges(Q) ==
  /\ HandleDlqPurge(Q)
  /\ IF wal_enabled THEN UNCHANGED <<task, nextId>>
                    ELSE Dropped({t \in TaskId : /\ task[t].status = "dead_lettered"
                                                 /\ task[t].queue_name \in Q})

(* REGISTER, HEARTBEAT, the passing of time, a CONSUME that finds nothing, *)
(* and the death of a worker: no task moves.                               *)
RegistryOnly ==
  \/ BrokerTick
  \/ \E w \in Workers : \/ HandleRegister(w) \/ HandleHeartbeat(w)
                        \/ WorkerLost(w)
                        \/ ExecutionEnds(w)
                        \/ \E q \in Queues : HandleConsumeEmpty(w, q)

(* A crash between two handlers, or between the commits of DLQ_REPLAY.     *)
Crashes ==
  /\ Restart
  /\ Reloaded
  /\ \/ UNCHANGED walDlq
     \/ wal_enabled /\ \E t \in TaskId : ReplayDlqTask(t)

(* The steps of the broker with their effects.                             *)
BrokerMoves ==
  \/ \E q \in Queues : HandleProduce(q) /\ Created(q, nextId)
  \/ \E w \in Workers, t \in TaskId : Delivers(w, t)
  \/ \E w \in Workers : /\ HandleAck(w)
                        /\ executing[w] \in in_flight => Completed(executing[w])
  \/ \E w \in Workers : /\ HandleNack(w)
                        /\ executing[w] \in in_flight => Failed(executing[w])
  \/ \E t \in TaskId : Replays(t)
  \/ \E Q \in SUBSET Queues : Purges(Q)
  \/ ReplayDlqHandler /\ Revived({t \in TaskId : task[t].status = "dead_lettered"})
  \/ ResetHandler
  \/ BrokerEvict /\ Requeued(Orphans)
  \/ RegistryOnly
  \/ Crashes

-----------------------------------------------------------------------------
(* The types: the Task objects, whose invariant is QueueManagerProofs'     *)
(* concern, and the rest of the broker.                                    *)
TasksOK ==
  /\ task \in [TaskId -> Task \cup {NoTask}]
  /\ nextId \in 1..(MaxTasks + 1)
  /\ \A t \in TaskId : t >= nextId => task[t] = NoTask
  /\ in_flight = {t \in TaskId : task[t].status = "in_flight"}
  /\ Queued = {t \in TaskId : task[t].status = "pending"}
  /\ Range(dlq) = {t \in TaskId : task[t].status = "dead_lettered"}

(* The broker's own bookkeeping.                                           *)
HistoryOK ==
  /\ wal_enabled \in BOOLEAN
  /\ executing \in [Workers -> TaskId \cup {None}]
  /\ crashes \in 0..MaxCrashes
  /\ wal_failures \in 0..MaxWalFailures
  /\ acked \subseteq Payload
  /\ answered \subseteq TaskId
  /\ removed \subseteq Payload

(* The tables have rows of tasks that exist or existed only.               *)
TablesOK ==
  /\ WALTypeOK
  /\ \A t \in TaskId : t >= nextId => walTasks[t] = NoRow /\ walDlq[t] = NoRow

Typed == TasksOK /\ WRTypeOK /\ TablesOK /\ HistoryOK

-----------------------------------------------------------------------------
(* The joint effects of the steps on the Task objects, the rows of the two *)
(* tables and the history of the answers.                                  *)

history == <<acked, answered, removed>>

RowSame(t) == walTasks'[t] = walTasks[t] /\ walDlq'[t] = walDlq[t]

(* save_task                                                               *)
RowSaved(t, q, p) ==
  /\ walTasks'[t] # NoRow
  /\ walTasks'[t].queue_name = q
  /\ walTasks'[t].payload = p
  /\ walTasks'[t].attempts = 0
  /\ walTasks'[t].status = "pending"
  /\ walDlq'[t] = walDlq[t]

(* update_task_status                                                      *)
RowSet(t, st, a) ==
  /\ walTasks[t] = NoRow <=> walTasks'[t] = NoRow
  /\ walTasks[t] # NoRow => /\ walTasks'[t].queue_name = walTasks[t].queue_name
                            /\ walTasks'[t].payload = walTasks[t].payload
                            /\ walTasks'[t].attempts = a
                            /\ walTasks'[t].status = st
  /\ walDlq'[t] = walDlq[t]

(* add_to_dlq                                                              *)
RowBuried(t) ==
  /\ walTasks'[t] = NoRow
  /\ walDlq'[t] # NoRow
  /\ walDlq'[t].payload = IF t \in Peek(PeekLimit)' THEN task[t].payload ELSE 0

Only(T) == \A u \in TaskId \ T : task'[u] = task[u] /\ RowSame(u)

(* The WalStore call with effect R on the row of t, if there is a WAL: it  *)
(* returns or it raises.                                                   *)
Logs(t, R) ==
  /\ IF wal_enabled THEN R ELSE RowSame(t)
  /\ UNCHANGED wal_failures

FailsToLog(t) ==
  /\ wal_enabled /\ RowSame(t)
  /\ wal_failures' = wal_failures + 1

Produced(q) ==
  /\ Created(q, nextId) /\ Only({nextId})
  /\ \/ /\ Logs(nextId, RowSaved(nextId, q, nextId))
        /\ answered' = answered \cup {nextId}
     \/ FailsToLog(nextId) /\ UNCHANGED answered
  /\ UNCHANGED <<acked, removed, crashes>>

Delivered(t) ==
  /\ HandedOut(t) /\ Only({t})
  /\ \/ Logs(t, RowSet(t, "in_flight", task[t].attempts + 1))
     \/ FailsToLog(t)
  /\ UNCHANGED <<history, crashes>>

Acked(t) ==
  /\ Completed(t) /\ Only({t})
  /\ \/ /\ Logs(t, RowSet(t, "done", walTasks[t].attempts))
        /\ acked' = acked \cup {task[t].payload}
     \/ FailsToLog(t) /\ UNCHANGED acked
  /\ UNCHANGED <<answered, removed, crashes>>

Nacked(t) ==
  /\ Failed(t) /\ Only({t})
  /\ \/ Logs(t, IF Exhausted(t) THEN RowBuried(t)
                ELSE RowSet(t, "pending", task[t].attempts))
     \/ FailsToLog(t)
  /\ UNCHANGED <<history, crashes>>

Replayed(t) ==
  /\ wal_enabled /\ t # nextId /\ walDlq[t] # NoRow
  /\ Created(walDlq[t].queue_name, walDlq[t].payload) /\ Only({t, nextId})
  /\ task'[t] = task[t] /\ walTasks'[t] = walTasks[t] /\ walDlq'[t] = NoRow
  /\ \/ /\ RowSaved(nextId, walDlq[t].queue_name, walDlq[t].payload)
        /\ UNCHANGED wal_failures
     \/ FailsToLog(nextId)
  /\ UNCHANGED <<history, crashes>>

PurgedRows(Q) ==
  /\ wal_enabled /\ UNCHANGED <<task, nextId, walTasks>>
  /\ \A t \in TaskId :
       walDlq'[t] = IF walDlq[t].queue_name \in Q THEN NoRow ELSE walDlq[t]
  /\ removed' = removed \cup
       {walDlq[t].payload : t \in {u \in TaskId : walDlq[u].queue_name \in Q}}
  /\ UNCHANGED <<acked, answered, crashes, wal_failures>>

(* Replay and purge of the DLQ without a WAL.                              *)
Unlogged ==
  /\ ~wal_enabled /\ \A t \in TaskId : RowSame(t)
  /\ \E S \in SUBSET {t \in TaskId : task[t].status = "dead_lettered"} :
       \/ Revived(S) /\ UNCHANGED removed
       \/ Dropped(S) /\ removed' = removed \cup {task[t].payload : t \in S}
  /\ UNCHANGED <<acked, answered, crashes, wal_failures>>

Emptied ==
  /\ \A t \in TaskId : task'[t] = NoTask
  /\ \/ /\ \A t \in TaskId : IF wal_enabled
                             THEN walTasks'[t] = NoRow /\ walDlq'[t] = NoRow
                             ELSE RowSame(t)
        /\ removed' = removed \cup 1..(nextId - 1) /\ UNCHANGED wal_failures
     \/ /\ wal_enabled /\ \A t \in TaskId : RowSame(t)
        /\ wal_failures' = wal_failures + 1 /\ UNCHANGED removed
  /\ UNCHANGED <<nextId, acked, answered, crashes>>

Orphaned ==
  /\ Requeued(Orphans) /\ \A t \in TaskId : RowSame(t)
  /\ UNCHANGED <<history, crashes, wal_failures>>

Quiet == UNCHANGED <<task, nextId, durable, history, crashes>>

Recovers ==
  /\ Reloaded
  /\ \A t \in LoadPendingTasks :
       /\ walTasks'[t] # NoRow
       /\ walTasks'[t].queue_name = walTasks[t].queue_name
       /\ walTasks'[t].payload = walTasks[t].payload
       /\ walTasks'[t].attempts = walTasks[t].attempts
       /\ walTasks'[t].status = "pending"
  /\ \A t \in TaskId \ LoadPendingTasks : walTasks'[t] = walTasks[t]
  /\ \/ UNCHANGED walDlq
     \/ /\ wal_enabled
        /\ \E t \in TaskId : /\ walDlq[t] # NoRow /\ walDlq'[t] = NoRow
                             /\ \A u \in TaskId \ {t} : walDlq'[u] = walDlq[u]
  /\ crashes' = crashes + 1
  /\ UNCHANGED <<nextId, history, wal_failures>>

(* The dashboard's replay-all beside a WAL, whose tables do not learn of   *)
(* it.                                                                     *)
ReplayedAll ==
  /\ UNCHANGED wal_enabled /\ \A t \in TaskId : RowSame(t)
  /\ Revived({t \in TaskId : task[t].status = "dead_lettered"})
  /\ UNCHANGED <<history, crashes, wal_failures>>

(* Every other step.                                                       *)
DurableMoves ==
  /\ UNCHANGED wal_enabled
  /\ \/ \E q \in Queues : Produced(q)
     \/ \E t \in TaskId : \/ Delivered(t) \/ Acked(t) \/ Nacked(t) \/ Replayed(t)
     \/ \E Q \in SUBSET Queues : PurgedRows(Q)
     \/ Unlogged
     \/ Emptied
     \/ Orphaned
     \/ Quiet
     \/ Recovers

-----------------------------------------------------------------------------
(* A task and its rows.  A dead letter of the table has no row among the   *)
(* tasks and is not to be run; the row of a task is about the same work;   *)
(* a row marked done is not to be run.                                     *)
LinkedAt(t) ==
  /\ walDlq[t] # NoRow => /\ walTasks[t] = NoRow
                          /\ task[t].status \in {"dead_lettered", "none"}
  /\ walTasks[t] # NoRow /\ task[t].status # "none" =>
       /\ walTasks[t].payload = task[t].payload
       /\ walTasks[t].queue_name = task[t].queue_name
  /\ walTasks[t] # NoRow /\ walTasks[t].status = "done" =>
       task[t].status \in {"done", "none"}
  /\ ~wal_enabled => walTasks[t] = NoRow /\ walDlq[t] = NoRow

Linked == \A t \in TaskId : LinkedAt(t)

(* Which ids carry the payload p: in memory, to be run now or after a      *)
(* retry of the in-memory DLQ, or on disk.                                 *)
Runnable == {"pending", "in_flight"}
              \cup (IF wal_enabled THEN {} ELSE {"dead_lettered"})

Carries(t, p) ==
  \/ task[t].status \in Runnable /\ task[t].payload = p
  \/ walTasks[t] # NoRow /\ walTasks[t].payload = p
  \/ walDlq[t] # NoRow /\ walDlq[t].payload = p

(* ... and may run it again.                                               *)
MayRun(t, p) ==
  \/ task[t].status \in Runnable /\ task[t].payload = p
  \/ walTasks[t] # NoRow /\ walTasks[t].status # "done" /\ walTasks[t].payload = p
  \/ walDlq[t] # NoRow /\ walDlq[t].payload = p

Submission == Payload \ {0}

(* A payload is carried by one id, it was submitted and not removed, and   *)
(* once it is acknowledged it may not run.                                 *)
CarryInv ==
  /\ \A p \in Submission : \A t, u \in TaskId : Carries(t, p) /\ Carries(u, p) => t = u
  /\ \A p \in Submission : \A t \in TaskId : Carries(t, p) => p < nextId /\ p \notin removed
  /\ \A p \in Submission : \A t \in TaskId : MayRun(t, p) => p \notin acked
  /\ \A p \in acked \cup removed \cup answered : p < nextId

=============================================================================
