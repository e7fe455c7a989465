----------------------------- MODULE LoadShedder -----------------------------
(***************************************************************************)
(* broker/load_shedder.py: the token bucket of one queue and the rate at   *)
(* which AdaptiveLoadShedder refills it.  (The buckets of different queues *)
(* share only two statistics counters.)  A bucket is created full; before  *)
(* that it can be thought of as full all along, since refilling a full     *)
(* bucket leaves it full.                                                  *)
(*                                                                         *)
(* The code computes with floats; here every quantity is an exact integer. *)
(* Time is counted in ticks, TICKS to a second, and tokens in fractions so *)
(* small that every rate _compute_adjusted_rate can return is a whole      *)
(* number of them per tick: one token is Token of them.                    *)
(***************************************************************************)
EXTENDS Integers

CONSTANTS BASE_FILL_RATE,         \* tokens per second
          MIN_FILL_RATE,
          QUEUE_DEPTH_THRESHOLD,
          LATENCY_THRESHOLD,
          BUCKET_CAPACITY,        \* tokens
          TICKS,                  \* ticks per second
          Latencies,              \* average latencies that may be reported
          MaxElapsed              \* bound: ticks since a refill told apart

VARIABLES tokens,    \* TokenBucket.tokens
          elapsed,   \* ticks since TokenBucket.last_refill
          depth,     \* queue_depth of the queue
          latency,   \* average_latency_ms of the queue
          floor,     \* history: a bucket always refilled at MIN_FILL_RATE
          nominal    \* history: a bucket always refilled at BASE_FILL_RATE

shedderVars == <<tokens, elapsed, depth, latency, floor, nominal>>

AtMost(a, b) == IF a <= b THEN a ELSE b
AtLeast(a, b) == IF a >= b THEN a ELSE b

Scale == 200 * (QUEUE_DEPTH_THRESHOLD * LATENCY_THRESHOLD)
Token == Scale * TICKS
Capacity == BUCKET_CAPACITY * Token
MinRate == MIN_FILL_RATE * Scale
BaseRate == BASE_FILL_RATE * Scale

(* A bucket not refilled for MaxElapsed ticks is full at any rate: longer  *)
(* times need not be told apart.                                           *)
ASSUME ShedderAssumption ==
  /\ BASE_FILL_RATE \in Nat \ {0}
  /\ MIN_FILL_RATE \in 1..BASE_FILL_RATE
  /\ QUEUE_DEPTH_THRESHOLD \in Nat \ {0}
  /\ LATENCY_THRESHOLD \in Nat \ {0}
  /\ BUCKET_CAPACITY \in Nat \ {0}
  /\ TICKS \in Nat \ {0}
  /\ Latencies \subseteq Nat
  /\ MaxElapsed \in Nat
  /\ MaxElapsed * MinRate >= Capacity

(* depth_factor, as a numerator over 20 * QUEUE_DEPTH_THRESHOLD.           *)
DepthFactor(d) ==
  IF d <= QUEUE_DEPTH_THRESHOLD THEN 20 * QUEUE_DEPTH_THRESHOLD
  ELSE AtLeast(QUEUE_DEPTH_THRESHOLD,
               20 * QUEUE_DEPTH_THRESHOLD - 2 * (d - QUEUE_DEPTH_THRESHOLD))

(* latency_factor, as a numerator over 10 * LATENCY_THRESHOLD.             *)
LatencyFactor(l) ==
  IF l <= LATENCY_THRESHOLD THEN 10 * LATENCY_THRESHOLD
  ELSE AtLeast(LATENCY_THRESHOLD,
               10 * LATENCY_THRESHOLD - (l - LATENCY_THRESHOLD))

(* _compute_adjusted_rate, per tick.                                       *)
AdjustedRate ==
  AtLeast(MinRate,
          BASE_FILL_RATE * (DepthFactor(depth) * LatencyFactor(latency)))

(* Mutant: the capacity is not observed.                                   *)
MRefilled == tokens + elapsed * AdjustedRate

(* The content after TokenBucket.refill: the whole time since the last     *)
(* refill counts at the rate of this moment.                               *)
Refilled == AtMost(Capacity, tokens + elapsed * AdjustedRate)

ShedderInit ==
  /\ tokens = Capacity
  /\ elapsed = 0
  /\ depth = 0
  /\ latency = 0
  /\ floor = Capacity
  /\ nominal = Capacity

-----------------------------------------------------------------------------
(* check_and_consume: one more task in the queue, or none.                 *)
Allow ==
  /\ Refilled >= Token
  /\ tokens' = Refilled - Token
  /\ elapsed' = 0
  /\ depth' = depth + 1
  /\ floor' = AtLeast(0, floor - Token)
  /\ nominal' = nominal - Token
  /\ UNCHANGED latency

Reject ==
  /\ Refilled < Token
  /\ tokens' = Refilled
  /\ elapsed' = 0
  /\ UNCHANGED <<depth, latency, floor, nominal>>

(* retry_after, rounded up to ticks: the time one token takes.             *)
RetryAfter == (Token + AdjustedRate - 1) \div AdjustedRate

(* Mutant: last_refill is not moved.                                       *)
MGetStats ==
  /\ tokens' = Refilled
  /\ UNCHANGED <<elapsed, depth, latency, floor, nominal>>

(* get_stats and get_bucket_info refill, too.                              *)
GetStats ==
  /\ tokens' = Refilled
  /\ elapsed' = 0
  /\ UNCHANGED <<depth, latency, floor, nominal>>

(* Workers take tasks and give them back, and report other latencies.      *)
Pressure(d, l) ==
  /\ depth' = d
  /\ latency' = l
  /\ UNCHANGED <<tokens, elapsed, floor, nominal>>

ShedderTick ==
  /\ elapsed' = AtMost(MaxElapsed, elapsed + 1)
  /\ floor' = AtMost(Capacity, floor + MinRate)
  /\ nominal' = AtMost(Capacity, nominal + BaseRate)
  /\ UNCHANGED <<tokens, depth, latency>>

ShedderNext ==
  \/ Allow
  \/ Reject
  \/ GetStats
  \/ \E d \in Nat, l \in Latencies : Pressure(d, l)
  \/ ShedderTick

ShedderSpec == ShedderInit /\ [][ShedderNext]_shedderVars

-----------------------------------------------------------------------------
(* The values of the bucket: never above its capacity, never in debt.      *)
ShedderTypeOK ==
  /\ tokens \in 0..Capacity
  /\ elapsed \in 0..MaxElapsed
  /\ depth \in Nat
  /\ latency \in Nat
  /\ floor \in 0..Capacity
  /\ nominal \in 0..Capacity

(* MIN_FILL_RATE: "Even under extreme load, we still allow some tasks      *)
(* through"; BASE_FILL_RATE: "the nominal rate at zero load".  However     *)
(* depth, latency, polls of the statistics and requests interleave, a      *)
(* request is let through whenever a bucket that always fills at the       *)
(* minimum rate would have a token for it, and only if a bucket that       *)
(* always fills at the nominal rate would.                                 *)
BetweenFloorAndNominal ==
  /\ floor >= Token => Refilled >= Token
  /\ Refilled >= Token => nominal >= Token

=============================================================================
