-------------------------- MODULE WorkerConnection --------------------------
(***************************************************************************)
(* worker/base_worker.py, run by run_worker.py: the consume loop and the   *)
(* heartbeat loop of one worker, two coroutines that share a connection    *)
(* under _conn_lock, against the handle_connection of broker/server.py     *)
(* that serves it.  Connections break at any moment, handlers of the       *)
(* broker raise, and the worker is shut down or cancelled.  A step of a    *)
(* coroutine ends where it awaits: the lock, an answer, a sleep, execute.  *)
(***************************************************************************)
EXTENDS Naturals, Sequences

CONSTANTS MaxDeliveries,  \* bound: tasks the broker hands out
          MaxBreaks       \* bound: connections that break

ASSUME ConnectionAssumption == MaxDeliveries \in Nat /\ MaxBreaks \in Nat

VARIABLES main,     \* run: the command it is sending, or where it awaits
          hb,       \* _heartbeat_loop, likewise
          lock,     \* _conn_lock: the holder, then the waiting (it is fair)
          reading,  \* the coroutines that wait for an answer
          running,  \* _running
          task,     \* the delivery that run is working on
          stopping, \* history: shutdown was called, for this run
          open,     \* is the connection intact?
          up,       \* requests not yet handled
          down,     \* answers not yet read
          stale,    \* requests left in the sockets of broken connections
          session,  \* history: what the broker saw on this connection
          delivered,\* number of tasks handed out
          reports,  \* history: the reports the broker got of each delivery
          breaks

workerVars == <<main, hb, lock, reading, running, task, stopping>>
wireVars == <<open, up, down, stale, breaks>>
brokerSide == <<session, delivered, reports>>
connectionVars == <<workerVars, wireVars, brokerSide>>

Commands == {"REGISTER", "CONSUME", "ACK", "NACK"}

ConnectionInit ==
  /\ main = "down" /\ hb = "off"
  /\ lock = << >> /\ reading = {}
  /\ running = FALSE /\ task = 0 /\ stopping = FALSE
  /\ open = FALSE /\ up = << >> /\ down = << >> /\ stale = << >>
  /\ session = <<"new", 0>>
  /\ delivered = 0
  /\ reports = [d \in 1..MaxDeliveries |-> << >>]
  /\ breaks = 0

-----------------------------------------------------------------------------
(* _send, in three steps: queue for the lock ...                           *)
Acquire(c) == lock' = Append(lock, c)

Release == lock' = Tail(lock)

(* ... write the request (into the void, if the connection is broken) ...  *)
Request(c) == [from    |-> c,
               command |-> IF c = "hb" THEN "HEARTBEAT" ELSE main,
               of      |-> IF c = "hb" THEN 0 ELSE task]

(* Mutant: a client without a lock, as ProducerClient is.                  *)
MWrite(c) ==
  /\ c \in {lock[i] : i \in DOMAIN lock}
  /\ c \notin reading
  /\ reading' = reading \cup {c}
  /\ up' = IF open THEN Append(up, Request(c)) ELSE up
  /\ UNCHANGED <<main, hb, lock, running, task, stopping, open, down, stale,
                 breaks, brokerSide>>

Write(c) ==
  /\ lock # << >> /\ Head(lock) = c
  /\ c \notin reading
  /\ reading' = reading \cup {c}
  /\ up' = IF open THEN Append(up, Request(c)) ELSE up
  /\ UNCHANGED <<main, hb, lock, running, task, stopping, open, down, stale,
                 breaks, brokerSide>>

(* ... and read the answer, or the end of the stream.                      *)
Answered(c) ==
  /\ c \in reading
  /\ down # << >>
  /\ reading' = reading \ {c}
  /\ down' = Tail(down)

Broken(c) ==
  /\ c \in reading
  /\ down = << >> /\ ~open
  /\ reading' = reading \ {c}
  /\ UNCHANGED down

-----------------------------------------------------------------------------
(* Mutant: the worker does not register.                                   *)
MConnect ==
  /\ main = "down"
  /\ main' = "CONSUME"
  /\ Acquire("main")
  /\ open' = TRUE /\ up' = << >> /\ down' = << >>
  /\ session' = <<"new", 0>>
  /\ stopping' = FALSE
  /\ UNCHANGED <<hb, reading, running, task, stale, breaks, delivered, reports>>

(* run: connect, up to the REGISTER.                                       *)
Connect ==
  /\ main = "down"
  /\ main' = "REGISTER"
  /\ Acquire("main")
  /\ open' = TRUE /\ up' = << >> /\ down' = << >>
  /\ session' = <<"new", 0>>
  /\ stopping' = FALSE
  /\ UNCHANGED <<hb, reading, running, task, stale, breaks, delivered, reports>>

(* The lock is given up and asked for again by the next _send.             *)
SendNext == lock' = Append(Tail(lock), "main")

(* Registered: _running is set, whatever shutdown did before, the          *)
(* heartbeat loop is started and the first CONSUME is sent.                *)
Registered ==
  /\ main = "REGISTER" /\ Answered("main")
  /\ main' = "CONSUME" /\ SendNext
  /\ running' = TRUE
  /\ hb' = "asleep"
  /\ UNCHANGED <<task, stopping, open, up, stale, breaks, brokerSide>>

(* Mutant: the report is sent under the lock that CONSUME took.            *)
MConsumed ==
  /\ main = "CONSUME" /\ Answered("main")
  /\ task' = Head(down).of
  /\ IF task' = 0 THEN main' = "paused" /\ Release
     ELSE main' = "executing" /\ UNCHANGED lock
  /\ UNCHANGED <<hb, running, stopping, open, up, stale, breaks, brokerSide>>

(* An empty queue, or a task to execute.                                   *)
Consumed ==
  /\ main = "CONSUME" /\ Answered("main")
  /\ Release
  /\ task' = Head(down).of
  /\ main' = IF task' = 0 THEN "paused" ELSE "executing"
  /\ UNCHANGED <<hb, running, stopping, open, up, stale, breaks, brokerSide>>

(* execute returns or raises.                                              *)
Executed ==
  /\ main = "executing"
  /\ main' \in {"ACK", "NACK"}
  /\ Acquire("main")
  /\ UNCHANGED <<hb, reading, running, task, stopping, wireVars, brokerSide>>

(* Mutant: the NACK follows the ACK even when that was answered.           *)
MReported ==
  /\ main \in {"ACK", "NACK"} /\ Answered("main")
  /\ IF main = "ACK" THEN main' = "NACK" /\ SendNext /\ UNCHANGED task
     ELSE main' = "paused" /\ Release /\ task' = 0
  /\ UNCHANGED <<hb, running, stopping, open, up, stale, breaks, brokerSide>>

(* Whatever the answer says.                                               *)
Reported ==
  /\ main \in {"ACK", "NACK"} /\ Answered("main")
  /\ Release
  /\ main' = "paused" /\ task' = 0
  /\ UNCHANGED <<hb, running, stopping, open, up, stale, breaks, brokerSide>>

(* Mutant: the heartbeat task is not cancelled.                            *)
MLeave(outcome) ==
  /\ main' = outcome
  /\ running' = FALSE
  /\ lock' = SelectSeq(lock, LAMBDA c : c # "main")
  /\ reading' = reading \ {"main"}
  /\ UNCHANGED hb

(* Out of the loop and, without an await in between, into the finally of   *)
(* run, which cancels the heartbeat task wherever it awaits.  The lock is  *)
(* given up by both.                                                       *)
Leave(outcome) ==
  /\ main' = outcome
  /\ running' = FALSE
  /\ hb' = "off"
  /\ lock' = << >>
  /\ reading' = {}

(* Mutant: the loop does not look at _running.                             *)
MLooped ==
  /\ main = "paused"
  /\ main' = "CONSUME" /\ Acquire("main")
  /\ UNCHANGED <<hb, reading, running, task, stopping, wireVars, brokerSide>>

(* The sleep is over: on with the loop, or out of it.                      *)
Looped ==
  /\ main = "paused"
  /\ IF running
     THEN main' = "CONSUME" /\ Acquire("main") /\ UNCHANGED <<hb, reading, running>>
     ELSE Leave("closing")
  /\ UNCHANGED <<task, stopping, wireVars, brokerSide>>

(* _send raises.  In connect the exception leaves run at once; a failed    *)
(* ACK is caught like an exception of execute, and a NACK is tried; any    *)
(* other leaves the loop.                                                  *)
SendFails ==
  /\ "main" \in reading /\ down = << >> /\ ~open
  /\ \/ /\ main = "REGISTER" /\ main' = "down"
        /\ Release
        /\ reading' = reading \ {"main"}
        /\ UNCHANGED <<hb, running>>
     \/ /\ main = "ACK" /\ main' = "NACK"
        /\ SendNext
        /\ reading' = reading \ {"main"}
        /\ UNCHANGED <<hb, running>>
     \/ main \in {"CONSUME", "NACK"} /\ Leave("failing")
  /\ UNCHANGED <<task, stopping, wireVars, brokerSide>>

(* Cancellation at an await inside the loop.                               *)
Cancelled ==
  /\ main \in {"CONSUME", "ACK", "NACK", "paused", "executing"}
  /\ Leave("closing")
  /\ UNCHANGED <<task, stopping, wireVars, brokerSide>>

(* What happens to what is on the wire when a connection ends: requests    *)
(* are still handled, or lost.                                             *)
Abandon(requests) ==
  /\ open' = FALSE
  /\ up' = << >>
  /\ stale' = stale \o requests
  /\ session' = <<"new", 0>>

(* _close, the end of run; run_worker.py calls run again if it raised.     *)
(* After a reset of the connection wait_closed may raise where run was     *)
(* about to return.                                                        *)
Closed ==
  /\ \/ main = "closing" /\ main' = "ended"
     \/ main = "failing" /\ main' = "down"
     \/ main = "closing" /\ ~open /\ main' = "down"
  /\ task' = 0
  /\ Abandon(up)
  /\ down' = << >>
  /\ UNCHANGED <<hb, lock, reading, running, stopping, breaks, delivered,
                 reports>>

(* shutdown; before Registered it would have no effect.                    *)
Shutdown ==
  /\ running
  /\ running' = FALSE
  /\ stopping' = TRUE
  /\ UNCHANGED <<main, hb, lock, reading, task, wireVars, brokerSide>>

-----------------------------------------------------------------------------
(* _heartbeat_loop: the sleep is over.                                     *)
HeartbeatDue ==
  /\ hb = "asleep"
  /\ IF running THEN hb' = "HEARTBEAT" /\ Acquire("hb")
     ELSE hb' = "off" /\ UNCHANGED lock
  /\ UNCHANGED <<main, reading, running, task, stopping, wireVars, brokerSide>>

(* Whatever came of it, the loop goes on while the worker runs.            *)
HeartbeatSent ==
  /\ hb = "HEARTBEAT"
  /\ Answered("hb") \/ Broken("hb")
  /\ Release
  /\ hb' = IF running THEN "asleep" ELSE "off"
  /\ UNCHANGED <<main, running, task, stopping, open, up, stale, breaks,
                 brokerSide>>

-----------------------------------------------------------------------------
(* What the broker does for request r, before it answers: a CONSUME may    *)
(* hand out a task.                                                        *)
Handle(r, d) ==
  /\ \/ r.command \in {"REGISTER", "HEARTBEAT"} /\ d = 0
        /\ UNCHANGED <<delivered, reports>>
     \/ r.command = "CONSUME" /\ d = 0 /\ UNCHANGED <<delivered, reports>>
     \/ /\ r.command = "CONSUME" /\ d = delivered + 1 /\ d <= MaxDeliveries
        /\ delivered' = d
        /\ UNCHANGED reports
     \/ /\ r.command \in {"ACK", "NACK"} /\ d = 0
        /\ reports' = [reports EXCEPT ![r.of] = Append(@, r.command)]
        /\ UNCHANGED delivered

(* The session after request r was handled.                                *)
Seen(r, d) ==
  CASE r.command = "HEARTBEAT" -> session
    [] d # 0 -> <<"busy", d>>
    [] OTHER -> <<"idle", 0>>

(* handle_connection: one request after the other, each answered.          *)
HandleRequest ==
  /\ open /\ up # << >>
  /\ \E d \in 0..MaxDeliveries :
       /\ Handle(Head(up), d)
       /\ session' = Seen(Head(up), d)
       /\ down' = Append(down, [from |-> Head(up).from, of |-> d])
  /\ up' = Tail(up)
  /\ UNCHANGED <<workerVars, open, stale, breaks>>

(* The handler raises (a WalStore call, after the change in memory), and   *)
(* the connection is closed without an answer.                             *)
HandlerRaises ==
  /\ open /\ up # << >>
  /\ Head(up).command \in {"CONSUME", "ACK", "NACK"}
  /\ breaks < MaxBreaks /\ breaks' = breaks + 1
  /\ \E d \in 0..MaxDeliveries : Handle(Head(up), d)
  /\ Abandon(<< >>)
  /\ UNCHANGED <<workerVars, down>>

(* A request that was in the socket when its connection broke.             *)
HandleStale ==
  /\ stale # << >>
  /\ \E d \in 0..MaxDeliveries : Handle(Head(stale), d)
  /\ stale' = Tail(stale)
  /\ UNCHANGED <<workerVars, open, up, down, breaks, session>>

ConnectionBreaks ==
  /\ open
  /\ breaks < MaxBreaks /\ breaks' = breaks + 1
  /\ Abandon(up) \/ Abandon(<< >>)
  /\ down' \in {down, << >>}
  /\ UNCHANGED <<workerVars, delivered, reports>>

MainStep == \/ Write("main")
            \/ Registered \/ Consumed \/ Reported \/ Looped \/ SendFails
            \/ Closed

HeartbeatStep == Write("hb") \/ HeartbeatDue \/ HeartbeatSent

ConnectionNext ==
  \/ Connect \/ MainStep \/ Executed \/ Cancelled \/ Shutdown
  \/ HeartbeatStep
  \/ HandleRequest \/ HandlerRaises \/ HandleStale \/ ConnectionBreaks

(* The coroutines and the broker run when they can; execute may take       *)
(* forever.                                                                *)
ConnectionFairness ==
  /\ WF_connectionVars(MainStep)
  /\ WF_connectionVars(HeartbeatStep)
  /\ WF_connectionVars(HandleRequest)

ConnectionSpec ==
  ConnectionInit /\ [][ConnectionNext]_connectionVars /\ ConnectionFairness

-----------------------------------------------------------------------------
Message == [from : {"main", "hb"}, command : Commands \cup {"HEARTBEAT"},
            of : 0..MaxDeliveries]

(* Type correctness.  It also says that at most one request or answer is   *)
(* on the wire, and that a report names a delivery.                        *)
ConnectionTypeOK ==
  /\ main \in Commands \cup {"down", "paused", "executing", "closing",
                            "failing", "ended"}
  /\ hb \in {"off", "asleep", "HEARTBEAT"}
  /\ reading \subseteq {"main", "hb"}
  /\ task \in 0..MaxDeliveries
  /\ main \in {"executing", "ACK", "NACK"} => task # 0
  /\ {running, stopping, open} \subseteq BOOLEAN
  /\ \A i \in DOMAIN up : up[i] \in Message
  /\ \A i \in DOMAIN stale : stale[i] \in Message
  /\ Len(up) + Len(down) <= 1
  /\ delivered \in 0..MaxDeliveries
  /\ breaks \in 0..MaxBreaks

(* _send: the answer that a coroutine is about to read is the answer to    *)
(* its own request, although two coroutines use the connection, either may *)
(* be cancelled between its request and the answer, and connections are    *)
(* replaced under the same object.                                         *)
RepliesMatch ==
  \A c \in reading : down # << >> => Head(down).from = c

(* run: a failed ACK is followed by a NACK and a worker reconnects after   *)
(* any failure, yet the broker gets at most one report of a delivery, late *)
(* ones from broken connections included.                                  *)
ReportedOnce == \A d \in 1..MaxDeliveries : Len(reports[d]) <= 1

(* The finally of run: no heartbeat task of an earlier run lives, holds    *)
(* the lock or waits for an answer while the worker connects again, or     *)
(* after run has returned.                                                 *)
NothingLeftBehind ==
  main \in {"down", "REGISTER", "ended"} =>
    /\ hb = "off"
    /\ "hb" \notin reading
    /\ \A i \in DOMAIN lock : lock[i] = "main"

Cycle == INSTANCE WorkerCycle WITH Deliveries <- 1..MaxDeliveries

(* Refinement: on each connection the broker sees the cycle REGISTER, then *)
(* CONSUME and one report for each task, that Broker.tla takes workers to  *)
(* follow.                                                                 *)
WorkerProtocol == Cycle!CycleSpec

(* _heartbeat_loop: a heartbeat never waits forever for the lock or for    *)
(* its answer, however long execute takes.                                 *)
HeartbeatsFlow == hb = "HEARTBEAT" ~> hb # "HEARTBEAT"

(* shutdown: unless execute never returns, a run that was told to stop     *)
(* ends, whatever happens to the connection meanwhile.                     *)
ShutdownEndsRun ==
  []<>(main # "executing") => (stopping ~> main \in {"ended", "down"})

=============================================================================
