------------------------------ MODULE Producers ------------------------------
(***************************************************************************)
(* producer/client.py and producer/backoff.py against the _handle_produce  *)
(* of broker/server.py and its load shedder: producers that submit batches *)
(* of tasks to one queue, each over its own connection, with connections   *)
(* that break and WalStore calls that raise.  Nothing in the repository    *)
(* calls one ProducerClient from two coroutines, so a producer is one      *)
(* sequential process.                                                     *)
(***************************************************************************)
EXTENDS LoadShedder, Sequences, Functions

CONSTANTS Producers,
          Batch,        \* the number of payloads each submits by produce_batch
          MAX_RETRIES,  \* max_retries of produce
          BASE_DELAY,   \* base_delay of the backoff, in ticks
          MAX_DELAY,    \* max_delay, in ticks
          MaxLosses     \* bound: connections that break

ASSUME ProducersAssumption ==
  /\ Batch \in [Producers -> Nat \ {0}]
  /\ MAX_RETRIES \in Nat
  /\ BASE_DELAY \in Nat
  /\ MAX_DELAY \in Nat
  /\ MaxLosses \in Nat

VARIABLES state,     \* what each producer is doing
          payload,   \* the payload of the current produce call
          attempt,   \* ExponentialBackoff._attempt of that call
          wait,      \* ticks left of asyncio.sleep
          connected, \* is the connection of the producer intact?
          request,   \* is a PRODUCE on its way to the broker?
          response,  \* the answer on its way back
          accepted,  \* history: payloads of each producer, as enqueued
          losses,    \* connections that broke
          promised   \* history: the rate behind the last hint, 0 if void

clientVars == <<state, payload, attempt, wait>>
wireVars == <<connected, request, response, losses>>
producerVars == <<shedderVars, clientVars, wireVars, accepted, promised>>

NoResponse == [status |-> "none"]
Ok == [status |-> "ok"]
RateLimited(hint) == [status |-> "rate_limited", retry_after |-> hint]

ProducersInit ==
  /\ ShedderInit
  /\ state = [p \in Producers |-> "calling"]
  /\ payload = [p \in Producers |-> 1]
  /\ attempt = [p \in Producers |-> 0]
  /\ wait = [p \in Producers |-> 0]
  /\ connected = [p \in Producers |-> TRUE]
  /\ request = [p \in Producers |-> FALSE]
  /\ response = [p \in Producers |-> NoResponse]
  /\ accepted = [p \in Producers |-> << >>]
  /\ losses = 0
  /\ promised = [p \in Producers |-> 0]

(* The number of tasks enqueued so far.                                    *)
Enqueued == FoldFunction(LAMBDA s, n : Len(s) + n, 0, accepted)

-----------------------------------------------------------------------------
(* produce and _send up to the read: what is written to a broken           *)
(* connection goes nowhere.                                                *)
Send(p) ==
  /\ \/ state[p] = "calling"
     \/ state[p] = "asleep" /\ wait[p] = 0
  /\ state' = [state EXCEPT ![p] = "reading"]
  /\ request' = [request EXCEPT ![p] = connected[p]]
  /\ UNCHANGED <<shedderVars, payload, attempt, wait, connected, response,
                 losses, accepted, promised>>

(* produce returns the task id; produce_batch goes on.                     *)
ReceiveOk(p) ==
  /\ state[p] = "reading" /\ response[p] = Ok
  /\ IF payload[p] < Batch[p]
     THEN /\ payload' = [payload EXCEPT ![p] = @ + 1]
          /\ state' = [state EXCEPT ![p] = "calling"]
     ELSE /\ state' = [state EXCEPT ![p] = "returned"]
          /\ UNCHANGED payload
  /\ attempt' = [attempt EXCEPT ![p] = 0]
  /\ response' = [response EXCEPT ![p] = NoResponse]
  /\ UNCHANGED <<shedderVars, wait, connected, request, losses, accepted,
                 promised>>

(* Mutant: the hint of the broker is a maximum, not a minimum.             *)
MNextWait(n, retry_after) ==
  {AtMost(d, retry_after) : d \in 0..AtMost(BASE_DELAY * 2^n, MAX_DELAY)}

(* next_wait: full jitter, with the hint of the broker as the floor.       *)
NextWait(n, retry_after) ==
  {AtLeast(d, retry_after) : d \in 0..AtMost(BASE_DELAY * 2^n, MAX_DELAY)}

(* The backoff is exhausted (RuntimeError), or the producer sleeps.        *)
ReceiveRateLimited(p) ==
  /\ state[p] = "reading" /\ response[p].status = "rate_limited"
  /\ \/ /\ attempt[p] >= MAX_RETRIES
        /\ state' = [state EXCEPT ![p] = "gave_up"]
        /\ promised' = [promised EXCEPT ![p] = 0]
        /\ UNCHANGED <<attempt, wait>>
     \/ /\ attempt[p] < MAX_RETRIES
        /\ state' = [state EXCEPT ![p] = "asleep"]
        /\ \E d \in NextWait(attempt[p], response[p].retry_after) :
             wait' = [wait EXCEPT ![p] = d]
        /\ attempt' = [attempt EXCEPT ![p] = @ + 1]
        /\ UNCHANGED promised
  /\ response' = [response EXCEPT ![p] = NoResponse]
  /\ UNCHANGED <<shedderVars, payload, connected, request, losses, accepted>>

(* Mutant: a client that reconnects and sends the request again.           *)
MReceiveNothing(p) ==
  /\ state[p] = "reading" /\ response[p] = NoResponse /\ ~connected[p]
  /\ connected' = [connected EXCEPT ![p] = TRUE]
  /\ request' = [request EXCEPT ![p] = TRUE]
  /\ UNCHANGED <<shedderVars, state, payload, attempt, wait, response, losses,
                 accepted, promised>>

(* readexactly meets the end of the stream: the exception leaves produce.  *)
ReceiveNothing(p) ==
  /\ state[p] = "reading" /\ response[p] = NoResponse /\ ~connected[p]
  /\ state' = [state EXCEPT ![p] = "lost"]
  /\ UNCHANGED <<shedderVars, payload, attempt, wait, wireVars, accepted,
                 promised>>

-----------------------------------------------------------------------------
(* A refill at a rate lower than the one a producer was promised, or a     *)
(* token that goes to another, voids the promise.                          *)
Kept(p) == IF AdjustedRate < promised[p] THEN 0 ELSE promised[p]

(* Mutant: the connection stays open when the handler raises.              *)
MHandleAllowed(p) ==
  /\ request[p]
  /\ Allow
  /\ request' = [request EXCEPT ![p] = FALSE]
  /\ accepted' = [accepted EXCEPT ![p] = Append(@, payload[p])]
  /\ \/ response' = [response EXCEPT ![p] = Ok] /\ UNCHANGED losses
     \/ losses < MaxLosses /\ losses' = losses + 1 /\ UNCHANGED response
  /\ promised' = [r \in Producers |-> 0]
  /\ UNCHANGED <<clientVars, connected>>

(* _handle_produce: the task is enqueued and answered; or, the WalStore    *)
(* call having raised, it is enqueued and the connection is closed.        *)
HandleAllowed(p) ==
  /\ request[p]
  /\ Allow
  /\ request' = [request EXCEPT ![p] = FALSE]
  /\ accepted' = [accepted EXCEPT ![p] = Append(@, payload[p])]
  /\ \/ /\ response' = [response EXCEPT ![p] = Ok]
        /\ UNCHANGED <<connected, losses>>
     \/ /\ losses < MaxLosses
        /\ losses' = losses + 1
        /\ connected' = [connected EXCEPT ![p] = FALSE]
        /\ UNCHANGED response
  /\ promised' = [r \in Producers |-> 0]
  /\ UNCHANGED clientVars

HandleRefused(p) ==
  /\ request[p]
  /\ Reject
  /\ request' = [request EXCEPT ![p] = FALSE]
  /\ response' = [response EXCEPT ![p] = RateLimited(RetryAfter)]
  /\ promised' = [r \in Producers |-> IF r = p THEN AdjustedRate ELSE Kept(r)]
  /\ UNCHANGED <<clientVars, connected, losses, accepted>>

(* A connection breaks.  What the broker had received it still handles,    *)
(* unless it is lost like an answer not yet read.                          *)
ConnectionLost(p) ==
  /\ connected[p]
  /\ losses < MaxLosses
  /\ losses' = losses + 1
  /\ connected' = [connected EXCEPT ![p] = FALSE]
  /\ \/ UNCHANGED <<request, response>>
     \/ /\ request' = [request EXCEPT ![p] = FALSE]
        /\ response' = [response EXCEPT ![p] = NoResponse]
  /\ UNCHANGED <<shedderVars, clientVars, accepted, promised>>

(* Someone reads the statistics.                                           *)
HandleStats ==
  /\ GetStats
  /\ promised' = [r \in Producers |-> Kept(r)]
  /\ UNCHANGED <<clientVars, wireVars, accepted>>

(* The workers drain the queue, return tasks, or slow down.                *)
Workload ==
  /\ \E d \in 0..Enqueued, l \in Latencies : Pressure(d, l)
  /\ UNCHANGED <<clientVars, wireVars, accepted, promised>>

ProducersTick ==
  /\ ShedderTick
  /\ wait' = [p \in Producers |-> AtLeast(0, wait[p] - 1)]
  /\ UNCHANGED <<state, payload, attempt, wireVars, accepted, promised>>

ProducersNext ==
  \/ \E p \in Producers : \/ Send(p)
                          \/ ReceiveOk(p)
                          \/ ReceiveRateLimited(p)
                          \/ ReceiveNothing(p)
                          \/ HandleAllowed(p)
                          \/ HandleRefused(p)
                          \/ ConnectionLost(p)
  \/ HandleStats
  \/ Workload
  \/ ProducersTick

(* Clients and broker run when they can, and time passes.                  *)
ProducersFairness ==
  /\ WF_producerVars(ProducersTick)
  /\ \A p \in Producers :
       /\ WF_producerVars(Send(p))
       /\ WF_producerVars(HandleAllowed(p) \/ HandleRefused(p))
       /\ WF_producerVars(ReceiveOk(p) \/ ReceiveRateLimited(p)
                           \/ ReceiveNothing(p))

ProducersSpec ==
  ProducersInit /\ [][ProducersNext]_producerVars /\ ProducersFairness

-----------------------------------------------------------------------------
(* The values of bucket, clients and connections.                          *)
ProducersTypeOK ==
  /\ ShedderTypeOK
  /\ state \in [Producers -> {"calling", "reading", "asleep", "returned",
                              "gave_up", "lost"}]
  /\ \A p \in Producers : payload[p] \in 1..Batch[p]
  /\ attempt \in [Producers -> 0..MAX_RETRIES]
  /\ wait \in [Producers -> Nat]
  /\ connected \in [Producers -> BOOLEAN]
  /\ request \in [Producers -> BOOLEAN]
  /\ accepted \in [Producers -> Seq(Nat)]
  /\ losses \in 0..MaxLosses
  /\ promised \in [Producers -> Nat]

(* produce submits a payload at most once, and produce_batch in order:     *)
(* what the broker enqueued for a producer is exactly the payloads whose   *)
(* produce has returned, and perhaps the current one if its answer is on   *)
(* its way or was lost with the connection.  A call that gives up leaves   *)
(* nothing behind.                                                         *)
AcceptedOnce ==
  \A p \in Producers :
    LET upTo(n) == [i \in 1..n |-> i]
    IN  \/ accepted[p] = upTo(payload[p] - 1) /\ state[p] # "returned"
        \/ /\ accepted[p] = upTo(payload[p])
           /\ \/ state[p] = "returned"
              \/ state[p] = "reading" /\ (response[p] = Ok \/ ~connected[p])
              \/ state[p] = "lost"

(* "The retry_after hint tells the producer how long to wait": a producer  *)
(* that waits as next_wait tells is refused again only if a token went to  *)
(* somebody else in the meantime, or the pressure has grown.               *)
RetryHintHolds ==
  [][\A p \in Producers :
       HandleRefused(p) /\ promised[p] > 0 => AdjustedRate < promised[p]
    ]_producerVars

(* Every produce call ends, with a task id or an exception, under any load *)
(* and any polling: there is no read timeout in the client, so this rests  *)
(* on the broker answering or closing the connection in every case.        *)
EveryCallEnds ==
  \A p \in Producers : <>(state[p] \in {"returned", "gave_up", "lost"})

=============================================================================
