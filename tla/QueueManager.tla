---------------------------- MODULE QueueManager ----------------------------
(***************************************************************************)
(* broker/queue_manager.py: the pending queues, the in-flight registry,    *)
(* the archive of completed tasks and, through DeadLetterQueue, the dead   *)
(* letters.  One action per method.  Each `async with self._lock` block    *)
(* contains no await and the lock is therefore always free when asked for, *)
(* so a method never suspends and is one atomic step.                      *)
(***************************************************************************)
EXTENDS DeadLetterQueue

VARIABLES queues,      \* _queues: pending task ids of each queue, head first
          created,     \* keys of _queues in insertion order
          in_flight,   \* keys of _in_flight
          completed,   \* keys of _completed
          task,        \* the Task objects, by id
          nextId       \* the next fresh task id

qmVars == <<queues, created, in_flight, completed, dlq, task, nextId>>

Task == [queue_name       : Queues,
         payload          : Payload,
         status           : {"pending", "in_flight", "done", "dead_lettered"},
         attempts         : Nat,
         assigned_worker  : Workers \cup {None},
         dead_lettered_at : BOOLEAN]    \* whether the attribute is set

(* No Task object with this id exists (any more).                          *)
NoTask == [queue_name |-> None, payload |-> 0, status |-> "none",
           attempts |-> 0, assigned_worker |-> None,
           dead_lettered_at |-> FALSE]

NewTask(q, payload, attempts) ==
  [queue_name |-> q, payload |-> payload, status |-> "pending",
   attempts |-> attempts, assigned_worker |-> None,
   dead_lettered_at |-> FALSE]

(* _ensure_queue                                                           *)
EnsureQueue(q) == IF q \in Range(created) THEN created ELSE Append(created, q)

-----------------------------------------------------------------------------
(* The sequences that list the members of S once, in ascending order: as   *)
(* InOrder, a one-element set for a finite S.                              *)
Ascending(S) ==
  {s \in Surjection(1..Cardinality(S), S) :
     \A i, j \in DOMAIN s : i < j => s[i] < s[j]}

(* Start-up (BrokerServer.start): enqueue_recovered is called for each row *)
(* of the task table, in order of creation, before any connection is       *)
(* accepted.  rows maps task ids to [queue_name, payload, attempts].       *)
Recovered(rows, qs, cr, tk) ==
  LET of(q)  == {t \in DOMAIN rows : rows[t].queue_name = q}
      used   == {q \in Queues : of(q) # {}}
      before(p, q) == \E t \in of(p) : \A u \in of(q) : t < u
  IN  /\ qs \in {f \in [Queues -> UNION {Ascending(of(q)) : q \in Queues}] :
                   \A q \in Queues : f[q] \in Ascending(of(q))}
      /\ cr \in {c \in Bijection(1..Cardinality(used), used) :
                   \A i, j \in DOMAIN c : i < j => before(c[i], c[j])}
      /\ tk = [t \in TaskId |->
                 IF t \in DOMAIN rows
                 THEN NewTask(rows[t].queue_name, rows[t].payload,
                              rows[t].attempts)
                 ELSE NoTask]

(* A broker that has just recovered n unfinished tasks (none at first).    *)
QMInit ==
  /\ \E n \in 0..MaxTasks :
       /\ nextId = n + 1
       /\ \E rows \in [1..n -> [queue_name : Queues, payload : {0},
                                attempts : 0..MaxRetries]] :
            Recovered([t \in 1..n |-> [rows[t] EXCEPT !.payload = t]],
                      queues, created, task)
  /\ in_flight = {}
  /\ completed = {}
  /\ DLQInit

-----------------------------------------------------------------------------
(* Mutant: a new task is put at the front, as a retry is.                  *)
MEnqueue(q, payload) ==
  /\ nextId <= MaxTasks
  /\ nextId' = nextId + 1
  /\ created' = EnsureQueue(q)
  /\ queues' = [queues EXCEPT ![q] = <<nextId>> \o @]
  /\ task' = [task EXCEPT ![nextId] = NewTask(q, payload, 0)]
  /\ UNCHANGED <<in_flight, completed, dlq>>

Enqueue(q, payload) ==
  /\ nextId <= MaxTasks
  /\ nextId' = nextId + 1
  /\ created' = EnsureQueue(q)
  /\ queues' = [queues EXCEPT ![q] = Append(@, nextId)]
  /\ task' = [task EXCEPT ![nextId] = NewTask(q, payload, 0)]
  /\ UNCHANGED <<in_flight, completed, dlq>>

(* The tail of dequeue: pop the head of a non-empty queue for worker w.    *)
PopLeft(q, w) ==
  LET t == Head(queues[q])
  IN  /\ queues[q] # << >>
      /\ task[t].attempts < MaxAttempts
      /\ queues' = [queues EXCEPT ![q] = Tail(@)]
      /\ in_flight' = in_flight \cup {t}
      /\ task' = [task EXCEPT
                    ![t] = [task[t] EXCEPT !.status = "in_flight",
                                           !.assigned_worker = w,
                                           !.attempts = task[t].attempts + 1]]
      /\ UNCHANGED <<completed, dlq, nextId>>

(* dequeue of a named queue: also when it is empty, it exists afterwards.  *)
Dequeue(q, w) == PopLeft(q, w) /\ created' = EnsureQueue(q)

DequeueEmpty(q) ==
  /\ queues[q] = << >>
  /\ created' = EnsureQueue(q)
  /\ UNCHANGED <<queues, in_flight, completed, dlq, task, nextId>>

(* dequeue of "*": the first queue created that has a task.                *)
DequeueAny(w) ==
  /\ \E i \in DOMAIN created :
       /\ \A j \in 1..(i - 1) : queues[created[j]] = << >>
       /\ PopLeft(created[i], w)
  /\ UNCHANGED created

(* Mutant: a status that no other code knows.                              *)
MAcknowledge(t) ==
  /\ t \in in_flight
  /\ in_flight' = in_flight \ {t}
  /\ completed' = completed \cup {t}
  /\ task' = [task EXCEPT ![t].status = "completed"]
  /\ UNCHANGED <<queues, created, dlq, nextId>>

Acknowledge(t) ==
  /\ t \in in_flight
  /\ in_flight' = in_flight \ {t}
  /\ completed' = completed \cup {t}
  /\ task' = [task EXCEPT ![t].status = "done"]
  /\ UNCHANGED <<queues, created, dlq, nextId>>

(* A task popped from the in-flight registry goes back to the front.       *)
ToFront(t) ==
  /\ task' = [task EXCEPT ![t].status = "pending",
                          ![t].assigned_worker = None]
  /\ created' = EnsureQueue(task[t].queue_name)
  /\ queues' = [queues EXCEPT ![task[t].queue_name] = <<t>> \o @]

Exhausted(t) == task[t].attempts >= MaxRetries

(* Mutant: a failed task is put back without leaving _in_flight.           *)
MNegativeAcknowledge(t) ==
  /\ t \in in_flight
  /\ IF Exhausted(t)
     THEN /\ DLQAdd(t)
          /\ in_flight' = in_flight \ {t}
          /\ task' = [task EXCEPT ![t].status = "dead_lettered",
                                  ![t].dead_lettered_at = TRUE]
          /\ UNCHANGED <<queues, created>>
     ELSE ToFront(t) /\ UNCHANGED <<dlq, in_flight>>
  /\ UNCHANGED <<completed, nextId>>

NegativeAcknowledge(t) ==
  /\ t \in in_flight
  /\ in_flight' = in_flight \ {t}
  /\ IF Exhausted(t)
     THEN /\ DLQAdd(t)
          /\ task' = [task EXCEPT ![t].status = "dead_lettered",
                                  ![t].dead_lettered_at = TRUE]
          /\ UNCHANGED <<queues, created>>
     ELSE ToFront(t) /\ UNCHANGED dlq
  /\ UNCHANGED <<completed, nextId>>

(* Mutant: the task leaves _in_flight and is not queued again.             *)
MRequeueById(t) ==
  /\ t \in in_flight
  /\ in_flight' = in_flight \ {t}
  /\ task' = [task EXCEPT ![t] = NoTask]
  /\ UNCHANGED <<queues, created, completed, dlq, nextId>>

(* requeue_by_id: the retry budget is not consulted.                       *)
RequeueById(t) ==
  /\ t \in in_flight
  /\ in_flight' = in_flight \ {t}
  /\ ToFront(t)
  /\ UNCHANGED <<completed, dlq, nextId>>

(* requeue_by_id called for every member of S, as the eviction of dead     *)
(* workers does; ids not in flight are skipped.  S is gathered from Python *)
(* dicts and sets, so the order of the calls, and hence of the tasks at    *)
(* the front, is left open.  The queue of an in-flight task exists.        *)
RequeueEach(S) ==
  LET found == S \cap in_flight
      of(q) == {t \in found : task[t].queue_name = q}
      anyOrder(q) == Bijection(1..Cardinality(of(q)), of(q))
  IN  /\ \E front \in [Queues -> UNION {anyOrder(q) : q \in Queues}] :
           /\ \A q \in Queues : front[q] \in anyOrder(q)
           /\ queues' = [q \in Queues |-> front[q] \o queues[q]]
      /\ in_flight' = in_flight \ found
      /\ task' = [t \in TaskId |->
                    IF t \in found
                    THEN [task[t] EXCEPT !.status = "pending",
                                         !.assigned_worker = None]
                    ELSE task[t]]
      /\ UNCHANGED <<created, completed, dlq, nextId>>

-----------------------------------------------------------------------------
(* Operations on dead letters that also touch the queues or the objects.   *)

(* The dead letters in S are dropped: DeadLetterQueue.remove, and the      *)
(* per-queue purge of the DLQ_PURGE handler.                               *)
DlqRemove(S) ==
  /\ S # {} /\ S \subseteq Range(dlq)
  /\ DLQDrop(S)
  /\ task' = [t \in TaskId |-> IF t \in S THEN NoTask ELSE task[t]]
  /\ UNCHANGED <<queues, created, in_flight, completed, nextId>>

DlqPurgeQueue(q) == DlqRemove({t \in Range(dlq) : task[t].queue_name = q})

DlqPurge ==
  /\ DLQPurge
  /\ task' = [t \in TaskId |-> IF t \in Range(dlq) THEN NoTask ELSE task[t]]
  /\ UNCHANGED <<queues, created, in_flight, completed, nextId>>

(* Mutant: the retried task stays listed as a dead letter.                 *)
MDlqRetry(t) ==
  /\ t \in Range(dlq)
  /\ UNCHANGED dlq
  /\ task' = [task EXCEPT ![t] = [task[t] EXCEPT !.status = "pending",
                                                 !.attempts = 0,
                                                 !.assigned_worker = None]]
  /\ created' = EnsureQueue(task[t].queue_name)
  /\ queues' = [queues EXCEPT ![task[t].queue_name] = Append(@, t)]
  /\ UNCHANGED <<in_flight, completed, nextId>>

(* retry, then requeue(front=False): a fresh budget, at the back.          *)
DlqRetry(t) ==
  /\ t \in Range(dlq)
  /\ DLQDrop({t})
  /\ task' = [task EXCEPT ![t] = [task[t] EXCEPT !.status = "pending",
                                                 !.attempts = 0,
                                                 !.assigned_worker = None]]
  /\ created' = EnsureQueue(task[t].queue_name)
  /\ queues' = [queues EXCEPT ![task[t].queue_name] = Append(@, t)]
  /\ UNCHANGED <<in_flight, completed, nextId>>

(* retry called for every dead letter, oldest first (the replay-all of     *)
(* the HTTP API).                                                          *)
DlqRetryAll ==
  LET at(q) == {i \in DOMAIN dlq : task[dlq[i]].queue_name = q}
  IN  /\ \E back \in [Queues -> UNION {InOrder(dlq, at(q)) : q \in Queues}] :
           /\ \A q \in Queues : back[q] \in InOrder(dlq, at(q))
           /\ queues' = [q \in Queues |-> queues[q] \o back[q]]
      /\ DLQPurge
      /\ task' = [t \in TaskId |->
                    IF t \in Range(dlq)
                    THEN [task[t] EXCEPT !.status = "pending", !.attempts = 0,
                                         !.assigned_worker = None]
                    ELSE task[t]]
      /\ UNCHANGED <<created, in_flight, completed, nextId>>

(* Mutant: _in_flight is not cleared.                                      *)
MReset ==
  /\ queues' = [q \in Queues |-> << >>]
  /\ created' = << >>
  /\ completed' = {}
  /\ DLQPurge
  /\ task' = [t \in TaskId |-> IF t \in in_flight THEN task[t] ELSE NoTask]
  /\ UNCHANGED <<in_flight, nextId>>

Reset ==
  /\ queues' = [q \in Queues |-> << >>]
  /\ created' = << >>
  /\ in_flight' = {}
  /\ completed' = {}
  /\ DLQPurge
  /\ task' = [t \in TaskId |-> NoTask]
  /\ UNCHANGED nextId

QMNext ==
  \/ \E q \in Queues : \/ Enqueue(q, nextId)
                       \/ DequeueEmpty(q)
                       \/ DlqPurgeQueue(q)
  \/ \E q \in Queues, w \in Workers : Dequeue(q, w)
  \/ \E w \in Workers : DequeueAny(w)
  \/ \E t \in TaskId : \/ Acknowledge(t)
                       \/ NegativeAcknowledge(t)
                       \/ RequeueById(t)
                       \/ DlqRetry(t)
                       \/ DlqRemove({t})
  \/ \E S \in SUBSET in_flight : RequeueEach(S)
  \/ DlqRetryAll
  \/ DlqPurge
  \/ Reset

QMSpec == QMInit /\ [][QMNext]_qmVars

-----------------------------------------------------------------------------
(* The values of the QueueManager's state: queues of known ids, each id    *)
(* with a Task object or none.                                             *)
QMTypeOK ==
  /\ queues \in [Queues -> Seq(TaskId)]
  /\ created \in Seq(Queues)
  /\ in_flight \subseteq TaskId
  /\ completed \subseteq TaskId
  /\ dlq \in Seq(TaskId)
  /\ task \in [TaskId -> Task \cup {NoTask}]
  /\ nextId \in 1..(MaxTasks + 1)

Queued == UNION {Range(queues[q]) : q \in Queues}

Held == Queued \cup in_flight \cup completed \cup Range(dlq)

(* A task is in at most one of: a pending queue, the in-flight registry,   *)
(* the completed archive, the DLQ; and at most once in that place.  The    *)
(* places are updated by separate lines of enqueue, dequeue, acknowledge,  *)
(* negative_acknowledge, requeue_by_id and DeadLetterQueue.retry: any of   *)
(* them forgetting one half of a move runs a task twice.                   *)
ExclusivePlacement ==
  /\ \A q \in Queues : IsInjective(queues[q])
  /\ IsInjective(dlq)
  /\ \A p, q \in Queues :
       p # q => Range(queues[p]) \cap Range(queues[q]) = {}
  /\ Queued \cap (in_flight \cup completed \cup Range(dlq)) = {}
  /\ in_flight \cap (completed \cup Range(dlq)) = {}
  /\ completed \cap Range(dlq) = {}

(* Task.status names the place that holds the task, in both directions:    *)
(* a "pending" task is in the queue called task.queue_name, and so on.  A  *)
(* task whose place and status disagree is one that dequeue will never     *)
(* hand out again, or that acknowledge will not find.  A worker is named   *)
(* from dequeue on, and every way back into a queue clears the name.       *)
StatusNamesPlace ==
  \A t \in TaskId :
    /\ \A q \in Queues : t \in Range(queues[q]) <=>
         task[t].status = "pending" /\ task[t].queue_name = q
    /\ t \in in_flight <=> task[t].status = "in_flight"
    /\ t \in completed <=> task[t].status = "done"
    /\ t \in Range(dlq) <=> task[t].status = "dead_lettered"
    /\ task[t].assigned_worker = None <=> task[t].status \in {"pending", "none"}

(* The queue of every task the manager holds is a key of _queues, and no   *)
(* key occurs twice: the wildcard dequeue, which walks the keys, reaches   *)
(* every pending task, and a requeued task never creates a queue behind    *)
(* the others.                                                             *)
QueueOfTaskExists ==
  /\ IsInjective(created)
  /\ \A t \in Held : task[t].queue_name \in Range(created)

(* Dispatch is first-in first-out: in a queue, two tasks that have never   *)
(* been handed out nor dead-lettered are in the order they were submitted, *)
(* whatever retries, evictions and replays put around them.                *)
FreshTasksInOrder ==
  LET Fresh(t) == task[t].attempts = 0 /\ ~task[t].dead_lettered_at
  IN  \A q \in Queues : \A i, j \in DOMAIN queues[q] :
        i < j /\ Fresh(queues[q][i]) /\ Fresh(queues[q][j])
          => queues[q][i] < queues[q][j]

=============================================================================
