---------------------------- MODULE TaskEffects ----------------------------
(***************************************************************************)
(* The methods of the QueueManager told by their effects on the Task       *)
(* objects, without the deques and ordered dicts they go through.          *)
(***************************************************************************)
EXTENDS QueueManager

OthersSame(T) == \A u \in TaskId \ T : task'[u] = task[u]

(* enqueue                                                                 *)
Created(q, p) ==
  /\ nextId \in TaskId /\ task[nextId] = NoTask
  /\ task'[nextId].status = "pending"
  /\ task'[nextId].queue_name = q
  /\ task'[nextId].payload = p
  /\ task'[nextId].attempts = 0
  /\ nextId' = nextId + 1
  /\ OthersSame({nextId})

(* The object of t gets status to and keeps what it is about.              *)
Moved(t, from, to) ==
  /\ task[t] \in Task /\ task[t].status = from
  /\ task'[t].status = to
  /\ task'[t].queue_name = task[t].queue_name
  /\ task'[t].payload = task[t].payload

(* dequeue                                                                 *)
HandedOut(t) ==
  /\ t \in TaskId /\ t < nextId
  /\ Moved(t, "pending", "in_flight")
  /\ task'[t].attempts = task[t].attempts + 1
  /\ OthersSame({t}) /\ nextId' = nextId

(* acknowledge                                                             *)
Completed(t) ==
  /\ t \in TaskId /\ t < nextId
  /\ Moved(t, "in_flight", "done")
  /\ task'[t].attempts = task[t].attempts
  /\ OthersSame({t}) /\ nextId' = nextId

(* negative_acknowledge                                                    *)
Failed(t) ==
  /\ t \in TaskId /\ t < nextId
  /\ Moved(t, "in_flight", IF Exhausted(t) THEN "dead_lettered" ELSE "pending")
  /\ task'[t].attempts = task[t].attempts
  /\ OthersSame({t}) /\ nextId' = nextId

(* requeue_by_id of the members of S that are in flight                    *)
Requeued(S) ==
  /\ \A t \in S \cap in_flight : /\ t \in TaskId
                                 /\ Moved(t, "in_flight", "pending")
                                 /\ task'[t].attempts = task[t].attempts
  /\ OthersSame(S \cap in_flight) /\ nextId' = nextId

(* retry of the dead letters in S                                          *)
Revived(S) ==
  /\ \A t \in S : /\ t \in TaskId
                  /\ Moved(t, "dead_lettered", "pending")
                  /\ task'[t].attempts = 0
  /\ OthersSame(S) /\ nextId' = nextId

(* The dead letters in S lose their objects.                               *)
Dropped(S) ==
  /\ \A t \in S : /\ t \in TaskId /\ task[t].status = "dead_lettered"
                  /\ task'[t] = NoTask
  /\ OthersSame(S) /\ nextId' = nextId

=============================================================================
