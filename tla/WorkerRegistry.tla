--------------------------- MODULE WorkerRegistry ---------------------------
(***************************************************************************)
(* broker/worker_registry.py: which workers are registered, how long ago   *)
(* each was last heard, which tasks each holds, and the loop that evicts   *)
(* the silent ones; with the worker processes as far as the registry can   *)
(* tell them apart (connected or not).  Time is counted in whole seconds.  *)
(* The event loop is never blocked, so the eviction check runs at the      *)
(* instant its sleep ends: time does not pass while it is due.             *)
(***************************************************************************)
EXTENDS BrokerTypes

CONSTANTS HEARTBEAT_TIMEOUT,  \* HEARTBEAT_TIMEOUT_SECONDS
          CHECK_INTERVAL,     \* the sleep of start_eviction_loop
          CRASH_AGE,          \* the age _crash_worker_handler pretends
          MaxSilence,         \* longest silence of a running worker
          ReuseIds,           \* may an id be registered while it has an entry?
          Relapses            \* bound: may a connection be lost repeatedly?

ASSUME WRAssumption ==
  /\ HEARTBEAT_TIMEOUT \in Nat
  /\ CHECK_INTERVAL \in Nat \ {0}
  /\ CRASH_AGE \in Nat
  /\ MaxSilence \in Nat \ {0}
  /\ ReuseIds \in BOOLEAN
  /\ Relapses \in BOOLEAN

VARIABLES registered,      \* keys of _workers
          age,             \* now - last_heartbeat of each registered worker
          in_flight_tasks, \* WorkerInfo.in_flight_tasks
          sinceCheck,      \* seconds since the eviction loop last ran
          up,              \* workers whose connection the broker serves
          dropped          \* without Relapses: workers that were cut off once

wrVars == <<registered, age, in_flight_tasks, sinceCheck, up, dropped>>

(* An empty registry, as at the start of the broker.                       *)
WRInit ==
  /\ registered = {}
  /\ age = [w \in Workers |-> 0]
  /\ in_flight_tasks = [w \in Workers |-> {}]
  /\ sinceCheck = 0
  /\ up = {}
  /\ dropped = {}

(* Mutant: the tasks of a worker outlive its entry.                        *)
MForget(W) ==
  /\ age' = [w \in Workers |-> IF w \in W THEN 0 ELSE age[w]]
  /\ UNCHANGED in_flight_tasks

(* The state of an id that is not a key of _workers.                       *)
Forget(W) ==
  /\ age' = [w \in Workers |-> IF w \in W THEN 0 ELSE age[w]]
  /\ in_flight_tasks' = [w \in Workers |->
                           IF w \in W THEN {} ELSE in_flight_tasks[w]]

-----------------------------------------------------------------------------
(* A worker process connects and registers.  Known id or not, WorkerInfo   *)
(* is built afresh, with an empty in_flight_tasks.                         *)
Register(w) ==
  /\ w \notin up
  /\ w \in registered => ReuseIds
  /\ up' = up \cup {w}
  /\ registered' = registered \cup {w}
  /\ Forget({w})
  /\ UNCHANGED <<sinceCheck, dropped>>

(* record_heartbeat, from a running worker; an unknown id is told so and   *)
(* the worker only logs it.                                                *)
RecordHeartbeat(w) ==
  /\ w \in up
  /\ age' = [age EXCEPT ![w] = 0]
  /\ UNCHANGED <<registered, in_flight_tasks, sinceCheck, up, dropped>>

(* Mutant: the task is not tracked.                                        *)
MAssignTask(w, t) == UNCHANGED in_flight_tasks

(* assign_task and complete_task do nothing for an unknown id.             *)
AssignTask(w, t) ==
  in_flight_tasks' = [in_flight_tasks EXCEPT
                        ![w] = IF w \in registered THEN @ \cup {t} ELSE @]

CompleteTask(w, t) ==
  in_flight_tasks' = [in_flight_tasks EXCEPT ![w] = @ \ {t}]

(* Mutant: a worker is dead as soon as the timeout is reached.             *)
MExpired == {w \in registered : age[w] >= HEARTBEAT_TIMEOUT}

(* Mutant: one second of grace too many.                                   *)
MExpiredLate == {w \in registered : age[w] > HEARTBEAT_TIMEOUT + 1}

(* Mutant: only workers that still hold their connection are considered.   *)
MExpiredConnected == {w \in registered \cap up : age[w] > HEARTBEAT_TIMEOUT}

Expired == {w \in registered : age[w] > HEARTBEAT_TIMEOUT}

(* The tasks evict_dead_workers hands to requeue_by_id.                    *)
Orphans == UNION {in_flight_tasks[w] : w \in Expired}

EvictDeadWorkers ==
  /\ sinceCheck = CHECK_INTERVAL
  /\ sinceCheck' = 0
  /\ registered' = registered \ Expired
  /\ Forget(Expired)
  /\ UNCHANGED <<up, dropped>>

(* The connection of w ends, and with it what w could still send.          *)
Disconnect(w) ==
  /\ w \in up \cap dropped => Relapses
  /\ up' = up \ {w}
  /\ dropped' = IF Relapses THEN dropped ELSE dropped \cup (up \cap {w})

(* _crash_worker_handler: cut the connection of a registered worker and    *)
(* backdate its heartbeat.                                                 *)
CrashWorker(w) ==
  /\ w \in registered
  /\ Disconnect(w)
  /\ age' = [age EXCEPT ![w] = CRASH_AGE]
  /\ UNCHANGED <<registered, in_flight_tasks, sinceCheck>>

(* A worker's process dies or loses its connection: handle_connection      *)
(* comes to the end of the stream and changes nothing.                     *)
WorkerDies(w) ==
  /\ w \in up
  /\ Disconnect(w)
  /\ UNCHANGED <<registered, age, in_flight_tasks, sinceCheck>>

(* A second passes.  Not while the eviction check is due, and not while a  *)
(* running worker has already been silent for as long as it may be.        *)
Tick ==
  /\ sinceCheck < CHECK_INTERVAL
  /\ \A w \in registered \cap up : age[w] < MaxSilence
  /\ sinceCheck' = sinceCheck + 1
  /\ age' = [w \in Workers |->
               IF w \in registered THEN age[w] + 1 ELSE age[w]]
  /\ UNCHANGED <<registered, in_flight_tasks, up, dropped>>

(* unregister, on a graceful disconnect.  No handler of the broker calls   *)
(* it: a worker that leaves is evicted like one that died.                 *)
Unregister(w) ==
  /\ w \in registered
  /\ registered' = registered \ {w}
  /\ up' = up \ {w}
  /\ Forget({w})
  /\ UNCHANGED <<sinceCheck, dropped>>

WRNext ==
  \/ \E w \in Workers :
       \/ Register(w)
       \/ RecordHeartbeat(w)
       \/ CrashWorker(w)
       \/ WorkerDies(w)
       \/ Unregister(w)
       \/ \E t \in TaskId :
            /\ w \in up
            /\ AssignTask(w, t) \/ CompleteTask(w, t)
            /\ UNCHANGED <<registered, age, sinceCheck, up, dropped>>
  \/ EvictDeadWorkers
  \/ Tick

(* Time passes, the eviction task runs when due, and a running worker's    *)
(* heartbeat coroutine keeps running.  Nothing else is promised.           *)
WRFairness ==
  /\ WF_wrVars(Tick)
  /\ WF_wrVars(EvictDeadWorkers)
  /\ \A w \in Workers : WF_wrVars(RecordHeartbeat(w))

WRSpec == WRInit /\ [][WRNext]_wrVars /\ WRFairness

-----------------------------------------------------------------------------
(* The values of the registry's state; an id that is not a key of _workers *)
(* has no WorkerInfo, hence no age and no tasks.                           *)
WRTypeOK ==
  /\ registered \subseteq Workers
  /\ age \in [Workers -> Nat]
  /\ in_flight_tasks \in [Workers -> SUBSET TaskId]
  /\ sinceCheck \in 0..CHECK_INTERVAL
  /\ up \subseteq Workers
  /\ dropped \subseteq Workers
  /\ \A w \in Workers \ registered : age[w] = 0 /\ in_flight_tasks[w] = {}

(* start_eviction_loop: "a dead worker will be detected within 2s of its   *)
(* timeout expiring".  At every instant a silent worker still in the       *)
(* registry has been past its timeout for no longer than the time since    *)
(* the last check, so no silence lasts beyond timeout plus interval.  A    *)
(* worker cut off by _crash_worker_handler starts from the backdated age.  *)
DetectedInTime ==
  \A w \in registered :
    \/ age[w] <= HEARTBEAT_TIMEOUT + sinceCheck
    \/ w \notin up /\ age[w] \in CRASH_AGE..(CRASH_AGE + sinceCheck)

(* evict_dead_workers takes no worker that is alive: if no running worker  *)
(* is ever silent for longer than the timeout, each of them is registered. *)
LiveWorkersStay == MaxSilence <= HEARTBEAT_TIMEOUT => up \subseteq registered

(* A worker that stays silent is removed in the end, whatever the others   *)
(* register, send or suffer: the loop of start_eviction_loop never stops.  *)
SilentWorkerEvicted ==
  \A w \in Workers :
    w \in registered \ up ~> (w \notin registered \/ w \in up)

=============================================================================
