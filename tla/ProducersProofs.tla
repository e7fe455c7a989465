--------------------------- MODULE ProducersProofs ---------------------------
(***************************************************************************)
(* The load shedder keeps every queue between its minimum and its nominal  *)
(* rate, produce submits a payload at most once, and who waits as the      *)
(* retry_after hint tells is not refused again without a reason: for all   *)
(* tuning parameters, any number of producers and batches of any length,   *)
(* any pressure, and connections that break at any moment.                 *)
(***************************************************************************)
EXTENDS Producers, TLAPS

(* Products of naturals grow with their factors.                           *)
LEMMA ProductMonotone ==
  ASSUME NEW a \in Nat, NEW b \in Nat, NEW c \in Nat, b <= c
  PROVE  /\ a * b \in Nat
         /\ a * b <= a * c
         /\ a * b = b * a
  <1>1. a * (c - b) >= 0
    OBVIOUS
  <1>2. a * (c - b) = a * c - a * b
    OBVIOUS
  <1>. QED BY <1>1, <1>2

LEMMA Distributes ==
  ASSUME NEW e \in Nat, NEW r \in Nat
  PROVE  (e + 1) * r = e * r + r
  OBVIOUS

LEMMA PositiveProduct ==
  ASSUME NEW a \in Nat \ {0}, NEW b \in Nat \ {0}
  PROVE  a * b \in Nat \ {0} /\ a * b >= b
  <1>1. (a - 1) * b >= 0
    OBVIOUS
  <1>2. (a - 1) * b = a * b - b
    OBVIOUS
  <1>. QED BY <1>1, <1>2

(* The units are positive, and the rates are in order.                     *)
LEMMA Units ==
  /\ Scale \in Nat \ {0}
  /\ Token \in Nat \ {0}
  /\ Capacity \in Nat /\ Capacity >= Token
  /\ MinRate \in Nat /\ BaseRate \in Nat
  /\ MinRate <= BaseRate
<1>1. QUEUE_DEPTH_THRESHOLD * LATENCY_THRESHOLD \in Nat \ {0}
  BY ShedderAssumption, PositiveProduct
<1>2. Scale \in Nat \ {0}
  BY <1>1 DEF Scale
<1>3. Token \in Nat \ {0}
  BY <1>2, ShedderAssumption, PositiveProduct DEF Token
<1>4. Capacity \in Nat /\ Capacity >= Token
  BY <1>3, ShedderAssumption, PositiveProduct DEF Capacity
<1>5. MinRate \in Nat /\ BaseRate \in Nat
  BY <1>2, ShedderAssumption, PositiveProduct DEF MinRate, BaseRate
<1>6. MinRate <= BaseRate
  <2>1. /\ Scale * MIN_FILL_RATE <= Scale * BASE_FILL_RATE
        /\ Scale * MIN_FILL_RATE = MIN_FILL_RATE * Scale
    BY <1>2, ShedderAssumption, ProductMonotone
  <2>2. Scale * BASE_FILL_RATE = BASE_FILL_RATE * Scale
    BY <1>2, ShedderAssumption, ProductMonotone
  <2>. QED BY <2>1, <2>2 DEF MinRate, BaseRate
<1>. QED BY <1>2, <1>3, <1>4, <1>5, <1>6

(* _compute_adjusted_rate never leaves the range from MIN_FILL_RATE to     *)
(* BASE_FILL_RATE.                                                         *)
LEMMA RateInRange ==
  ASSUME depth \in Nat, latency \in Nat
  PROVE  AdjustedRate \in MinRate..BaseRate
<1>. DEFINE df == DepthFactor(depth)
            lf == LatencyFactor(latency)
            D  == 20 * QUEUE_DEPTH_THRESHOLD
            L  == 10 * LATENCY_THRESHOLD
<1>1. D \in Nat /\ df \in Nat /\ df <= D
  BY ShedderAssumption DEF DepthFactor, AtLeast
<1>2. L \in Nat /\ lf \in Nat /\ lf <= L
  BY ShedderAssumption DEF LatencyFactor, AtLeast
<1>3. D * L = Scale
  BY ShedderAssumption DEF Scale
<1>. HIDE DEF df, lf, D, L
<1>4. df * lf \in Nat /\ df * lf <= df * L
  BY <1>1, <1>2, ProductMonotone
<1>5. L * df <= L * D /\ L * df = df * L /\ L * D = D * L /\ L * D \in Nat
  <2>1. L * df <= L * D /\ L * df = df * L
    BY <1>1, <1>2, ProductMonotone
  <2>2. L * D = D * L /\ L * D \in Nat
    BY <1>1, <1>2, ProductMonotone
  <2>. QED BY <2>1, <2>2
<1>6. df * lf \in Nat /\ df * lf <= Scale
  <2>1. df * L \in Nat
    BY <1>1, <1>2, ProductMonotone
  <2>. QED BY <1>3, <1>4, <1>5, <2>1
<1>7. /\ BASE_FILL_RATE * (df * lf) \in Nat
      /\ BASE_FILL_RATE * (df * lf) <= BaseRate
  BY <1>6, Units, ShedderAssumption, ProductMonotone DEF BaseRate
<1>. QED BY <1>7, Units DEF AdjustedRate, AtLeast, df, lf

(* BetweenFloorAndNominal is not inductive: it says nothing of the time    *)
(* that has passed since the last refill.  ShedderInv counts that time at  *)
(* the minimum rate and at the nominal one.                                *)
ShedderInv ==
  /\ ShedderTypeOK
  /\ floor <= AtMost(Capacity, tokens + elapsed * MinRate)
  /\ AtMost(Capacity, tokens + elapsed * BaseRate) <= nominal

(* What refill makes of the time since the last refill is between what the *)
(* two extreme rates make of it.                                           *)
LEMMA RefilledBetween ==
  ASSUME ShedderInv
  PROVE  /\ Refilled \in 0..Capacity
         /\ floor <= Refilled
         /\ Refilled <= nominal
<1>1. AdjustedRate \in Nat /\ MinRate <= AdjustedRate /\ AdjustedRate <= BaseRate
  BY RateInRange, Units DEF ShedderInv, ShedderTypeOK
<1>2. elapsed \in Nat /\ tokens \in 0..Capacity /\ floor \in Nat /\ nominal \in Nat
  BY Units, ShedderAssumption DEF ShedderInv, ShedderTypeOK
<1>3. elapsed * MinRate \in Nat /\ elapsed * MinRate <= elapsed * AdjustedRate
  BY <1>1, <1>2, Units, ProductMonotone
<1>4. /\ elapsed * AdjustedRate \in Nat
      /\ elapsed * AdjustedRate <= elapsed * BaseRate
  BY <1>1, <1>2, Units, ProductMonotone
<1>5. elapsed * BaseRate \in Nat
  BY <1>1, <1>2, Units, ProductMonotone
<1>. QED BY <1>2, <1>3, <1>4, <1>5, Units DEF ShedderInv, Refilled, AtMost

LEMMA ShedderInitInv == ShedderInit => ShedderInv
<1>. SUFFICES ASSUME ShedderInit PROVE ShedderInv
  OBVIOUS
<1>1. elapsed * MinRate = 0 /\ elapsed * BaseRate = 0
  BY Units DEF ShedderInit
<1>. QED BY <1>1, Units, ShedderAssumption
         DEF ShedderInit, ShedderInv, ShedderTypeOK, AtMost

(* A refill, with or without a token taken, leaves the bucket in bounds.   *)
LEMMA RefillInv ==
  ASSUME ShedderInv, Allow \/ Reject \/ GetStats
  PROVE  ShedderInv'
<1>1. /\ Refilled \in 0..Capacity
      /\ floor <= Refilled
      /\ Refilled <= nominal
  BY RefilledBetween
<1>2. elapsed' = 0
  BY DEF Allow, Reject, GetStats
<1>3. elapsed' * MinRate = 0 /\ elapsed' * BaseRate = 0
  BY <1>2, Units
<1>. HIDE DEF Refilled
<1>4. CASE Allow
  BY <1>1, <1>2, <1>3, <1>4, Units, ShedderAssumption
  DEF Allow, ShedderInv, ShedderTypeOK, AtMost, AtLeast
<1>5. CASE Reject \/ GetStats
  BY <1>1, <1>2, <1>3, <1>5, Units, ShedderAssumption
  DEF Reject, GetStats, ShedderInv, ShedderTypeOK, AtMost
<1>. QED BY <1>4, <1>5

(* A tick adds as much to the extreme buckets as a later refill can make   *)
(* of it; once MaxElapsed is reached the bucket is full at either rate.    *)
LEMMA TickInv ==
  ASSUME ShedderInv, ShedderTick
  PROVE  ShedderInv'
<1>1. /\ elapsed \in 0..MaxElapsed /\ MaxElapsed \in Nat
      /\ tokens \in 0..Capacity
      /\ floor \in 0..Capacity /\ nominal \in 0..Capacity
  BY ShedderAssumption DEF ShedderInv, ShedderTypeOK
<1>2. /\ (elapsed + 1) * MinRate = elapsed * MinRate + MinRate
      /\ (elapsed + 1) * BaseRate = elapsed * BaseRate + BaseRate
  BY <1>1, Units, Distributes
<1>3. elapsed * MinRate \in Nat /\ elapsed * BaseRate \in Nat
  BY <1>1, Units, ProductMonotone
<1>4. /\ MaxElapsed * MinRate \in Nat /\ MaxElapsed * BaseRate \in Nat
      /\ MaxElapsed * MinRate >= Capacity /\ MaxElapsed * BaseRate >= Capacity
  BY Units, ShedderAssumption, ProductMonotone
<1>5. ShedderTypeOK'
  BY <1>1, Units DEF ShedderInv, ShedderTypeOK, ShedderTick, AtMost
<1>6. CASE elapsed < MaxElapsed
  <2>1. elapsed' = elapsed + 1
    BY <1>1, <1>6 DEF ShedderTick, AtMost
  <2>. QED BY <1>1, <1>2, <1>3, <1>5, <2>1, Units DEF ShedderInv, ShedderTick, AtMost
<1>7. CASE elapsed = MaxElapsed
  <2>1. elapsed' = MaxElapsed
    BY <1>1, <1>7 DEF ShedderTick, AtMost
  <2>. QED BY <1>1, <1>4, <1>5, <1>7, <2>1, Units DEF ShedderInv, ShedderTick, AtMost
<1>. QED BY <1>1, <1>6, <1>7

LEMMA ShedderStepInv == ShedderInv /\ [ShedderNext]_shedderVars => ShedderInv'
<1>. SUFFICES ASSUME ShedderInv, [ShedderNext]_shedderVars
              PROVE  ShedderInv'
  OBVIOUS
<1>1. CASE Allow \/ Reject \/ GetStats
  BY <1>1, RefillInv
<1>2. CASE \E d \in Nat, l \in Latencies : Pressure(d, l)
  BY <1>2, ShedderAssumption DEF Pressure, ShedderInv, ShedderTypeOK
<1>3. CASE ShedderTick
  BY <1>3, TickInv
<1>4. CASE UNCHANGED shedderVars
  BY <1>4 DEF shedderVars, ShedderInv, ShedderTypeOK
<1>. QED BY <1>1, <1>2, <1>3, <1>4 DEF ShedderNext

LEMMA ShedderInvBetween == ShedderInv => BetweenFloorAndNominal
  BY RefilledBetween, Units DEF BetweenFloorAndNominal, ShedderInv, ShedderTypeOK

(* Every step of the producers, their connections and the broker is a step *)
(* of the load shedder or leaves it alone.                                 *)
LEMMA ProducersStepShedder == [ProducersNext]_producerVars => [ShedderNext]_shedderVars
<1>. SUFFICES ASSUME [ProducersNext]_producerVars
              PROVE  [ShedderNext]_shedderVars
  OBVIOUS
<1>1. ASSUME NEW p \in Producers, \/ Send(p) \/ ReceiveOk(p)
                                 \/ ReceiveRateLimited(p) \/ ReceiveNothing(p)
                                 \/ ConnectionLost(p)
      PROVE  UNCHANGED shedderVars
  BY <1>1 DEF Send, ReceiveOk, ReceiveRateLimited, ReceiveNothing, ConnectionLost
<1>2. ASSUME NEW p \in Producers, HandleAllowed(p) \/ HandleRefused(p)
      PROVE  ShedderNext
  BY <1>2 DEF HandleAllowed, HandleRefused, ShedderNext
<1>3. CASE HandleStats
  BY <1>3 DEF HandleStats, ShedderNext
<1>4. CASE Workload
  <2>1. PICK d \in 0..Enqueued, l \in Latencies : Pressure(d, l)
    BY <1>4 DEF Workload
  <2>2. d \in Nat
    BY <2>1
  <2>. QED BY <2>1, <2>2 DEF ShedderNext
<1>5. CASE ProducersTick
  BY <1>5 DEF ProducersTick, ShedderNext
<1>6. CASE UNCHANGED producerVars
  BY <1>6 DEF producerVars
<1>. QED BY <1>1, <1>2, <1>3, <1>4, <1>5, <1>6 DEF ProducersNext

(* check_and_consume lets a request through whenever a bucket filled at    *)
(* MIN_FILL_RATE has a token for it, and only if one filled at             *)
(* BASE_FILL_RATE has: with any number of producers, any retries, any      *)
(* pressure and any polling of the statistics.                             *)
THEOREM ShedderBetween == ProducersSpec => []BetweenFloorAndNominal
<1>1. ProducersInit => ShedderInv
  BY ShedderInitInv DEF ProducersInit
<1>2. ShedderInv /\ [ProducersNext]_producerVars => ShedderInv'
  BY ShedderStepInv, ProducersStepShedder
<1>. QED BY <1>1, <1>2, ShedderInvBetween, PTL DEF ProducersSpec

-----------------------------------------------------------------------------
UpTo(n) == [i \in 1..n |-> i]

(* AcceptedOnce with what it needs to be inductive: where a request or an  *)
(* answer can be, and that the answer to an accepted request is "ok".      *)
OnceInv(p) ==
  /\ payload[p] \in Nat \ {0}
  /\ request[p] => state[p] \in {"reading", "lost"} /\ response[p] = NoResponse
  /\ response[p] # NoResponse => state[p] \in {"reading", "lost"}
  /\ \/ /\ accepted[p] = UpTo(payload[p] - 1)
        /\ state[p] # "returned"
        /\ response[p] # Ok
     \/ /\ accepted[p] = UpTo(payload[p])
        /\ ~request[p]
        /\ response[p] \in {Ok, NoResponse}
        /\ \/ state[p] \in {"returned", "lost"}
           \/ state[p] = "reading" /\ (response[p] = Ok \/ ~connected[p])

(* The variables of the clients are functions on the producers.            *)
ClientsOK ==
  /\ state = [p \in Producers |-> state[p]]
  /\ payload = [p \in Producers |-> payload[p]]
  /\ connected \in [Producers -> BOOLEAN]
  /\ request \in [Producers -> BOOLEAN]
  /\ response = [p \in Producers |-> response[p]]
  /\ accepted = [p \in Producers |-> accepted[p]]

ClientsInv == ClientsOK /\ \A p \in Producers : OnceInv(p)

LEMMA UpToAppend ==
  ASSUME NEW n \in Nat \ {0}
  PROVE  Append(UpTo(n - 1), n) = UpTo(n)
<1>1. UpTo(n - 1) \in Seq(Nat) /\ Len(UpTo(n - 1)) = n - 1
  BY DEF UpTo
<1>2. Append(UpTo(n - 1), n) \in Seq(Nat)
  BY <1>1
<1>3. Len(Append(UpTo(n - 1), n)) = n
  BY <1>1
<1>4. \A i \in 1..n : Append(UpTo(n - 1), n)[i] = i
  BY <1>1 DEF UpTo
<1>. QED BY <1>2, <1>3, <1>4 DEF UpTo

(* The answers are different values.                                       *)
LEMMA Responses ==
  /\ Ok # NoResponse
  /\ \A h : RateLimited(h) # Ok /\ RateLimited(h) # NoResponse
  /\ Ok.status = "ok" /\ NoResponse.status = "none"
  BY DEF Ok, NoResponse, RateLimited

LEMMA ClientsInit == ProducersInit => ClientsInv
<1>. SUFFICES ASSUME ProducersInit PROVE ClientsInv
  OBVIOUS
<1>1. UpTo(0) = << >>
  BY DEF UpTo
<1>2. ClientsOK
  BY DEF ProducersInit, ClientsOK
<1>3. ASSUME NEW p \in Producers PROVE OnceInv(p)
  BY <1>1, Responses DEF ProducersInit, OnceInv
<1>. QED BY <1>2, <1>3 DEF ClientsInv

LEMMA ClientsStep == ClientsInv /\ [ProducersNext]_producerVars => ClientsInv'
<1>. SUFFICES ASSUME ClientsInv, [ProducersNext]_producerVars
              PROVE  ClientsInv'
  OBVIOUS
<1>. USE DEF ClientsInv
<1>0. ASSUME UNCHANGED <<state, payload, connected, request, response, accepted>>
      PROVE  ClientsInv'
  BY <1>0 DEF ClientsOK, OnceInv
<1>1. ASSUME NEW p \in Producers, Send(p)
      PROVE  ClientsInv'
  <2>1. ClientsOK'
    BY <1>1 DEF Send, ClientsOK
  <2>2. ASSUME NEW q \in Producers PROVE OnceInv(q)'
    BY <1>1 DEF Send, ClientsOK, OnceInv
  <2>. QED BY <2>1, <2>2
<1>2. ASSUME NEW p \in Producers, ReceiveOk(p)
      PROVE  ClientsInv'
  <2>1. ClientsOK'
    BY <1>2 DEF ReceiveOk, ClientsOK
  <2>2. ASSUME NEW q \in Producers PROVE OnceInv(q)'
    BY <1>2, Responses DEF ReceiveOk, ClientsOK, OnceInv
  <2>. QED BY <2>1, <2>2
<1>3. ASSUME NEW p \in Producers, ReceiveRateLimited(p)
      PROVE  ClientsInv'
  <2>1. ClientsOK'
    BY <1>3, Zenon DEF ReceiveRateLimited, ClientsOK
  <2>2. ASSUME NEW q \in Producers PROVE OnceInv(q)'
    BY <1>3, Responses DEF ReceiveRateLimited, ClientsOK, OnceInv
  <2>. QED BY <2>1, <2>2
<1>4. ASSUME NEW p \in Producers, ReceiveNothing(p)
      PROVE  ClientsInv'
  <2>1. ClientsOK'
    BY <1>4 DEF ReceiveNothing, ClientsOK, wireVars
  <2>2. ASSUME NEW q \in Producers PROVE OnceInv(q)'
    BY <1>4 DEF ReceiveNothing, ClientsOK, OnceInv, wireVars
  <2>. QED BY <2>1, <2>2
<1>5. ASSUME NEW p \in Producers, HandleAllowed(p)
      PROVE  ClientsInv'
  <2>1. ClientsOK'
    BY <1>5, Zenon DEF HandleAllowed, ClientsOK, clientVars
  <2>2. accepted[p] = UpTo(payload[p] - 1) /\ payload[p] \in Nat \ {0}
    BY <1>5 DEF HandleAllowed, OnceInv
  <2>3. accepted'[p] = UpTo(payload'[p])
    BY <1>5, <2>2, UpToAppend DEF HandleAllowed, ClientsOK, clientVars
  <2>4. ASSUME NEW q \in Producers PROVE OnceInv(q)'
    BY <1>5, <2>3, Responses DEF HandleAllowed, ClientsOK, OnceInv, clientVars
  <2>. QED BY <2>1, <2>4
<1>6. ASSUME NEW p \in Producers, HandleRefused(p)
      PROVE  ClientsInv'
  <2>1. ClientsOK'
    BY <1>6 DEF HandleRefused, ClientsOK, clientVars
  <2>2. ASSUME NEW q \in Producers PROVE OnceInv(q)'
    BY <1>6, Responses DEF HandleRefused, ClientsOK, OnceInv, clientVars
  <2>. QED BY <2>1, <2>2
<1>7. ASSUME NEW p \in Producers, ConnectionLost(p)
      PROVE  ClientsInv'
  <2>1. ClientsOK'
    BY <1>7, Zenon DEF ConnectionLost, ClientsOK, clientVars
  <2>2. ASSUME NEW q \in Producers PROVE OnceInv(q)'
    BY <1>7, Responses DEF ConnectionLost, ClientsOK, OnceInv, clientVars
  <2>. QED BY <2>1, <2>2
<1>8. CASE HandleStats \/ Workload \/ ProducersTick \/ UNCHANGED producerVars
  BY <1>0, <1>8
  DEF HandleStats, Workload, ProducersTick, producerVars, clientVars, wireVars
<1>. QED BY <1>1, <1>2, <1>3, <1>4, <1>5, <1>6, <1>7, <1>8 DEF ProducersNext

(* A payload is enqueued at most once, and in the order of the batch: what *)
(* the broker accepted is what produce returned for, and at most the       *)
(* payload whose answer is under way or was lost.                          *)
THEOREM ProducersAcceptOnce == ProducersSpec => []AcceptedOnce
<1>1. ClientsInv => AcceptedOnce
  BY DEF ClientsInv, OnceInv, AcceptedOnce, UpTo
<1>. QED BY <1>1, ClientsInit, ClientsStep, PTL DEF ProducersSpec

-----------------------------------------------------------------------------
(* What the clients and their connections hold, apart from the bucket.     *)
Answer == {NoResponse, Ok} \cup {RateLimited(h) : h \in Nat}
States == {"calling", "reading", "asleep", "returned", "gave_up", "lost"}

ClientTypes ==
  /\ state \in [Producers -> States]
  /\ payload = [p \in Producers |-> payload[p]]
  /\ \A p \in Producers : payload[p] \in 1..Batch[p]
  /\ attempt \in [Producers -> 0..MAX_RETRIES]
  /\ wait \in [Producers -> Nat]
  /\ connected \in [Producers -> BOOLEAN]
  /\ request \in [Producers -> BOOLEAN]
  /\ response \in [Producers -> Answer]
  /\ accepted \in [Producers -> Seq(Nat)]
  /\ losses \in 0..MaxLosses
  /\ promised \in [Producers -> Nat]

LEMMA ClientTypesInit == ProducersInit => ClientTypes
  BY ProducersAssumption DEF ProducersInit, ClientTypes, Answer, States

LEMMA AnswerFields ==
  ASSUME NEW a \in Answer
  PROVE  /\ a.status = "rate_limited" => a.retry_after \in Nat
         /\ a.status = "rate_limited" <=> a \notin {NoResponse, Ok}
  BY DEF Answer, NoResponse, Ok, RateLimited

(* The hint is the time in which a bucket at the current rate gains a      *)
(* token, or more.                                                         *)
LEMMA HintSuffices ==
  ASSUME ShedderTypeOK
  PROVE  /\ AdjustedRate \in Nat \ {0}
         /\ RetryAfter \in Nat
         /\ RetryAfter * AdjustedRate >= Token
<1>1. AdjustedRate \in MinRate..BaseRate
  BY RateInRange DEF ShedderTypeOK
<1>2. MinRate \in Nat \ {0}
  BY Units, ShedderAssumption, PositiveProduct DEF MinRate
<1>3. PICK r \in Nat \ {0} : r = AdjustedRate
  BY <1>1, <1>2, Units
<1>4. PICK n \in Nat \ {0} : n = Token
  BY Units
<1>5. (n + r - 1) \div r \in Nat /\ ((n + r - 1) \div r) * r >= n
  <2>. DEFINE a == n + r - 1
              k == a \div r
  <2>1. a \in Nat /\ k \in Int /\ a = r * k + (a % r) /\ a % r \in 0..(r - 1)
    OBVIOUS
  <2>2. k >= 0
    OBVIOUS
  <2>3. r * k >= n
    BY <2>1
  <2>4. r * k = k * r
    BY <2>1
  <2>. QED BY <2>1, <2>2, <2>3, <2>4
<1>. QED BY <1>3, <1>4, <1>5 DEF RetryAfter

LEMMA ClientTypesStep ==
  ASSUME ShedderTypeOK, ClientTypes, [ProducersNext]_producerVars
  PROVE  ClientTypes'
<1>. USE ProducersAssumption
<1>1. ASSUME NEW p \in Producers, Send(p) PROVE ClientTypes'
  BY <1>1 DEF Send, ClientTypes, States
<1>2. ASSUME NEW p \in Producers, ReceiveOk(p) PROVE ClientTypes'
  <2>1. NoResponse \in Answer
    BY DEF Answer
  <2>2. payload[p] \in Nat /\ Batch[p] \in Nat
    BY DEF ClientTypes
  <2>3. /\ payload' = [r \in Producers |-> payload'[r]]
        /\ payload'[p] \in 1..Batch[p]
        /\ \A r \in Producers \ {p} : payload'[r] = payload[r]
    BY <1>2, <2>2 DEF ReceiveOk, ClientTypes
  <2>4. \A r \in Producers : payload'[r] \in 1..Batch[r]
    BY <2>3, Zenon DEF ClientTypes
  <2>5. attempt' \in [Producers -> 0..MAX_RETRIES]
    <3>1. 0 \in 0..MAX_RETRIES
      OBVIOUS
    <3>. QED BY <1>2, <3>1 DEF ReceiveOk, ClientTypes
  <2>6. state' \in [Producers -> States] /\ response' \in [Producers -> Answer]
    <3>1. "calling" \in States /\ "returned" \in States
      BY DEF States
    <3>2. /\ response' = [response EXCEPT ![p] = NoResponse]
          /\ \/ state' = [state EXCEPT ![p] = "calling"]
             \/ state' = [state EXCEPT ![p] = "returned"]
      BY <1>2, Zenon DEF ReceiveOk
    <3>3. state \in [Producers -> States] /\ response \in [Producers -> Answer]
      BY Zenon DEF ClientTypes
    <3>. QED BY <2>1, <3>1, <3>2, <3>3
  <2>. QED BY <1>2, <2>3, <2>4, <2>5, <2>6, Zenon DEF ReceiveOk, ClientTypes
<1>3. ASSUME NEW p \in Producers, ReceiveRateLimited(p) PROVE ClientTypes'
  <2>1. NoResponse \in Answer
    BY DEF Answer
  <2>2. response[p].retry_after \in Nat
    BY <1>3, AnswerFields DEF ReceiveRateLimited, ClientTypes
  <2>3. \A d \in NextWait(attempt[p], response[p].retry_after) : d \in Nat
    BY <2>2 DEF NextWait, AtLeast
  <2>. HIDE DEF NextWait
  <2>4. attempt[p] \in 0..MAX_RETRIES
    BY DEF ClientTypes
  <2>5. attempt' \in [Producers -> 0..MAX_RETRIES]
    <3>1. CASE UNCHANGED attempt
      BY <3>1 DEF ClientTypes
    <3>2. CASE attempt[p] < MAX_RETRIES /\ attempt' = [attempt EXCEPT ![p] = @ + 1]
      <4>1. attempt[p] + 1 \in 0..MAX_RETRIES
        BY <2>4, <3>2
      <4>. QED BY <3>2, <4>1 DEF ClientTypes
    <3>. QED BY <1>3, <3>1, <3>2 DEF ReceiveRateLimited
  <2>6. wait' \in [Producers -> Nat]
    <3>1. CASE UNCHANGED wait
      BY <3>1 DEF ClientTypes
    <3>2. ASSUME NEW d \in NextWait(attempt[p], response[p].retry_after),
                 wait' = [wait EXCEPT ![p] = d]
          PROVE  wait' \in [Producers -> Nat]
      BY <2>3, <3>2 DEF ClientTypes
    <3>. QED BY <1>3, <3>1, <3>2 DEF ReceiveRateLimited
  <2>7. /\ response' \in [Producers -> Answer]
        /\ promised' \in [Producers -> Nat]
        /\ state' \in [Producers -> States]
    <3>1. "gave_up" \in States /\ "asleep" \in States
      BY DEF States
    <3>2. \/ state' = [state EXCEPT ![p] = "gave_up"]
          \/ state' = [state EXCEPT ![p] = "asleep"]
      BY <1>3 DEF ReceiveRateLimited
    <3>3. promised' = promised \/ promised' = [promised EXCEPT ![p] = 0]
      BY <1>3 DEF ReceiveRateLimited
    <3>4. response' = [response EXCEPT ![p] = NoResponse]
      BY <1>3 DEF ReceiveRateLimited
    <3>5. state' \in [Producers -> States]
      BY <3>1, <3>2, Zenon DEF ClientTypes
    <3>6. promised' \in [Producers -> Nat]
      <4>1. promised \in [Producers -> Nat] /\ 0 \in Nat
        BY DEF ClientTypes
      <4>. QED BY <3>3, <4>1
    <3>. QED BY <2>1, <3>4, <3>5, <3>6, Zenon DEF ClientTypes
  <2>. QED BY <1>3, <2>5, <2>6, <2>7, Zenon DEF ReceiveRateLimited, ClientTypes
<1>4. ASSUME NEW p \in Producers, ReceiveNothing(p) PROVE ClientTypes'
  BY <1>4 DEF ReceiveNothing, ClientTypes, States, wireVars
<1>5. ASSUME NEW p \in Producers, HandleAllowed(p) PROVE ClientTypes'
  <2>1. Ok \in Answer
    BY DEF Answer
  <2>2. accepted[p] \in Seq(Nat) /\ payload[p] \in Nat
    BY DEF ClientTypes
  <2>3. accepted' \in [Producers -> Seq(Nat)]
    BY <1>5, <2>2 DEF HandleAllowed, ClientTypes
  <2>4. response' \in [Producers -> Answer] /\ promised' \in [Producers -> Nat]
    BY <1>5, <2>1, Zenon DEF HandleAllowed, ClientTypes
  <2>5. losses' \in 0..MaxLosses
    BY <1>5 DEF HandleAllowed, ClientTypes
  <2>6. connected' \in [Producers -> BOOLEAN] /\ request' \in [Producers -> BOOLEAN]
    BY <1>5, Zenon DEF HandleAllowed, ClientTypes
  <2>. QED BY <1>5, <2>3, <2>4, <2>5, <2>6 DEF HandleAllowed, ClientTypes, clientVars
<1>6. AdjustedRate \in Nat /\ RetryAfter \in Nat
  BY HintSuffices
<1>7. ASSUME NEW p \in Producers, HandleRefused(p) PROVE ClientTypes'
  <2>1. RateLimited(RetryAfter) \in Answer
    BY <1>6 DEF Answer
  <2>2. promised' \in [Producers -> Nat]
    BY <1>6, <1>7 DEF HandleRefused, Kept, ClientTypes
  <2>. QED BY <1>7, <2>1, <2>2 DEF HandleRefused, ClientTypes, clientVars
<1>8. ASSUME NEW p \in Producers, ConnectionLost(p) PROVE ClientTypes'
  <2>1. NoResponse \in Answer
    BY DEF Answer
  <2>2. response' \in [Producers -> Answer]
    BY <1>8, <2>1, Zenon DEF ConnectionLost, ClientTypes
  <2>3. losses' \in 0..MaxLosses
    BY <1>8 DEF ConnectionLost, ClientTypes
  <2>4. connected' \in [Producers -> BOOLEAN] /\ request' \in [Producers -> BOOLEAN]
    BY <1>8, Zenon DEF ConnectionLost, ClientTypes
  <2>. QED BY <1>8, <2>2, <2>3, <2>4 DEF ConnectionLost, ClientTypes, clientVars
<1>9. CASE HandleStats
  BY <1>6, <1>9 DEF HandleStats, Kept, ClientTypes, clientVars, wireVars
<1>10. CASE ProducersTick
  BY <1>10 DEF ProducersTick, AtLeast, ClientTypes, wireVars
<1>11. CASE Workload \/ UNCHANGED producerVars
  BY <1>11 DEF Workload, producerVars, ClientTypes, clientVars, wireVars
<1>. QED BY <1>1, <1>2, <1>3, <1>4, <1>5, <1>7, <1>8, <1>9, <1>10, <1>11
         DEF ProducersNext

(* The bucket, the clients and their connections keep their types: no      *)
(* produce call goes beyond MAX_RETRIES or the length of its batch.        *)
THEOREM ProducersTypeCorrect == ProducersSpec => []ProducersTypeOK
<1>1. ProducersInit => ShedderInv /\ ClientTypes
  BY ShedderInitInv, ClientTypesInit DEF ProducersInit
<1>2. ShedderInv /\ ClientTypes /\ [ProducersNext]_producerVars
        => ShedderInv' /\ ClientTypes'
  BY ShedderStepInv, ProducersStepShedder, ClientTypesStep DEF ShedderInv
<1>3. ShedderInv /\ ClientTypes => ProducersTypeOK
  BY DEF ShedderInv, ClientTypes, States, ProducersTypeOK
<1>. QED BY <1>1, <1>2, <1>3, PTL DEF ProducersSpec


-----------------------------------------------------------------------------
(* The promise to a producer that may still ask: the tokens of the bucket, *)
(* what the promised rate makes of the time since the last refill, and of  *)
(* the time the producer still has to wait, are enough for its request.    *)
Remaining(p) ==
  IF response[p] # NoResponse THEN response[p].retry_after
  ELSE IF state[p] = "asleep" THEN wait[p] ELSE 0

Covered(p) == Token <= tokens + (elapsed + Remaining(p)) * promised[p]

HintInv(p) ==
  /\ promised[p] # 0 => promised[p] >= MinRate
  /\ state[p] = "calling" \/ response[p] = Ok => promised[p] = 0
  /\ promised[p] # 0 /\ (request[p] \/ response[p] # NoResponse \/ state[p] = "asleep")
       => Covered(p)

(* The covering only grows with the waiting time.                          *)
LEMMA CoveredMonotone ==
  ASSUME NEW t \in Nat, NEW a \in Nat, NEW b \in Nat, NEW r \in Nat,
         Token <= t + a * r, a <= b
  PROVE  Token <= t + b * r
<1>1. r * a <= r * b /\ r * a = a * r /\ r * b \in Nat /\ r * a \in Nat
  BY ProductMonotone
<1>2. r * b = b * r
  BY ProductMonotone
<1>3. Token \in Nat
  BY Units
<1>. QED BY <1>1, <1>2, <1>3

(* A refill at the promised rate or a higher one keeps the promise.        *)
LEMMA RefillCovers ==
  ASSUME ShedderTypeOK, NEW m \in Nat, NEW r \in Nat, r <= AdjustedRate,
         Token <= tokens + (elapsed + m) * r
  PROVE  Token <= Refilled + (0 + m) * r
<1>1. /\ elapsed \in Nat /\ tokens \in Nat /\ AdjustedRate \in Nat
      /\ Token \in Nat /\ Capacity \in Nat /\ Token <= Capacity
  BY Units, HintSuffices, ShedderAssumption DEF ShedderTypeOK
<1>2. PICK R \in Nat : R = AdjustedRate
  BY <1>1
<1>3. /\ elapsed * r \in Nat /\ elapsed * R \in Nat /\ m * r \in Nat
      /\ elapsed * r <= elapsed * R
  BY <1>1, <1>2, ProductMonotone
<1>4. (elapsed + m) * r = elapsed * r + m * r
  BY <1>1
<1>5. 0 + m = m
  OBVIOUS
<1>. DEFINE sum == tokens + elapsed * R
<1>8. Refilled = AtMost(Capacity, sum) /\ sum \in Nat
  BY <1>1, <1>2, <1>3 DEF Refilled
<1>6. CASE sum <= Capacity
  <2>1. Refilled = sum
    <3>. HIDE DEF sum
    <3>. QED BY <1>1, <1>6, <1>8 DEF AtMost
  <2>. QED BY <1>1, <1>3, <1>4, <1>5, <2>1
<1>7. CASE ~(sum <= Capacity)
  <2>1. Refilled = Capacity
    <3>. HIDE DEF sum
    <3>. QED BY <1>1, <1>7, <1>8 DEF AtMost
  <2>. QED BY <1>1, <1>3, <1>5, <2>1
<1>. QED BY <1>6, <1>7

LEMMA ElapsedTick ==
  ASSUME ShedderTypeOK, ShedderTick
  PROVE  /\ elapsed \in 0..MaxElapsed /\ MaxElapsed \in Nat
         /\ elapsed < MaxElapsed => elapsed' = elapsed + 1
         /\ elapsed = MaxElapsed => elapsed' = elapsed
  BY ShedderAssumption DEF ShedderTypeOK, ShedderTick, AtMost

(* So does a tick, which the bucket gains and the producer waits less.     *)
LEMMA TickCovers ==
  ASSUME ShedderTypeOK, ShedderTick, NEW m \in Nat, NEW n \in Nat, m <= n + 1,
         NEW r \in Nat, MinRate <= r, Token <= tokens + (elapsed + m) * r
  PROVE  Token <= tokens' + (elapsed' + n) * r
<1>1. /\ elapsed \in 0..MaxElapsed /\ MaxElapsed \in Nat /\ tokens \in Nat
      /\ Token \in Nat /\ Capacity \in Nat /\ Token <= Capacity /\ MinRate \in Nat
      /\ tokens' = tokens
  BY Units, ShedderAssumption DEF ShedderTypeOK, ShedderTick
<1>2. CASE elapsed < MaxElapsed
  <2>1. elapsed' = elapsed + 1 /\ elapsed + m <= elapsed' + n
    BY <1>1, <1>2, ElapsedTick
  <2>2. elapsed + m \in Nat /\ elapsed' + n \in Nat
    BY <1>1, <2>1
  <2>. QED BY <1>1, <2>1, <2>2, CoveredMonotone
<1>3. CASE elapsed = MaxElapsed
  <2>1. elapsed' = MaxElapsed
    BY <1>3, ElapsedTick
  <2>2. Token <= MaxElapsed * MinRate /\ MaxElapsed * MinRate <= MaxElapsed * r
    BY <1>1, ShedderAssumption, ProductMonotone
  <2>3. Token <= tokens + MaxElapsed * r
    <3>1. MaxElapsed * r \in Nat /\ MaxElapsed * MinRate \in Nat
      BY <1>1, ProductMonotone
    <3>. QED BY <1>1, <2>2, <3>1
  <2>. QED BY <1>1, <2>1, <2>3, CoveredMonotone
<1>. QED BY <1>1, <1>2, <1>3


LEMMA RemainingType ==
  ASSUME ClientTypes, NEW p \in Producers, HintInv(p), promised[p] # 0
  PROVE  Remaining(p) \in Nat
<1>1. response[p] \in Answer /\ response[p] # Ok /\ wait[p] \in Nat
  BY DEF ClientTypes, HintInv
<1>. QED BY <1>1, AnswerFields DEF Remaining

(* A producer that no part of the step concerns.                           *)
LEMMA HintSame ==
  ASSUME NEW p \in Producers, HintInv(p), UNCHANGED <<tokens, elapsed>>,
         state'[p] = state[p], wait'[p] = wait[p], request'[p] = request[p],
         response'[p] = response[p], promised'[p] = promised[p]
  PROVE  HintInv(p)'
  BY DEF HintInv, Covered, Remaining

(* A refill keeps the promises that are not void.                          *)
LEMMA HintRefill ==
  ASSUME ShedderTypeOK, ClientTypes, NEW p \in Producers, HintInv(p),
         tokens' = Refilled, elapsed' = 0, promised'[p] = Kept(p),
         state'[p] = state[p], wait'[p] = wait[p], request'[p] = request[p],
         response'[p] = response[p]
  PROVE  HintInv(p)'
<1>1. AdjustedRate \in Nat /\ promised[p] \in Nat
  BY HintSuffices DEF ClientTypes
<1>2. CASE promised'[p] = 0
  BY <1>2 DEF HintInv
<1>3. CASE promised'[p] # 0
  <2>1. promised'[p] = promised[p] /\ promised[p] # 0 /\ promised[p] <= AdjustedRate
    BY <1>1, <1>3 DEF Kept
  <2>2. Remaining(p) \in Nat /\ Remaining(p)' = Remaining(p)
    BY <2>1, RemainingType, Zenon DEF Remaining
  <2>3. Covered(p) => Covered(p)'
    <3>1. PICK m \in Nat : m = Remaining(p) /\ m = Remaining(p)'
      BY <2>2
    <3>2. PICK r \in Nat : r = promised[p] /\ r = promised'[p] /\ r <= AdjustedRate
      BY <1>1, <2>1
    <3>3. Covered(p) <=> Token <= tokens + (elapsed + m) * r
      BY <3>1, <3>2 DEF Covered
    <3>4. Covered(p)' <=> Token <= tokens' + (elapsed' + m) * r
      BY <3>1, <3>2 DEF Covered, Token, Scale
    <3>. QED BY <3>2, <3>3, <3>4, RefillCovers
  <2>. QED BY <2>1, <2>3 DEF HintInv
<1>. QED BY <1>2, <1>3

(* The refused producer: its hint covers a token at the rate of now.       *)
LEMMA HintRefused ==
  ASSUME ShedderTypeOK, ClientTypes, NEW p \in Producers, HandleRefused(p),
         OnceInv(p)
  PROVE  HintInv(p)'
<1>1. /\ AdjustedRate \in Nat \ {0} /\ RetryAfter \in Nat
      /\ RetryAfter * AdjustedRate >= Token
      /\ AdjustedRate >= MinRate /\ MinRate \in Nat
  <2>1. AdjustedRate \in MinRate..BaseRate
    BY RateInRange DEF ShedderTypeOK
  <2>. QED BY <2>1, HintSuffices, Units
<1>2. /\ response'[p] = RateLimited(RetryAfter) /\ promised'[p] = AdjustedRate
      /\ elapsed' = 0 /\ tokens' = Refilled /\ state'[p] = state[p]
  <2>1. response \in [Producers -> Answer]
    BY Zenon DEF ClientTypes
  <2>. QED BY <2>1, Zenon DEF HandleRefused, Reject, clientVars
<1>3. Refilled \in Nat
  <2>1. /\ elapsed \in Nat /\ tokens \in Nat /\ Capacity \in Nat
    BY Units, ShedderAssumption DEF ShedderTypeOK
  <2>2. elapsed * AdjustedRate \in Nat
    BY <1>1, <2>1, ProductMonotone
  <2>. QED BY <2>1, <2>2 DEF Refilled, AtMost
<1>4. Remaining(p)' = RetryAfter
  BY <1>2, Responses DEF Remaining, RateLimited
<1>5. Covered(p)'
  <2>1. PICK r \in Nat : r = AdjustedRate /\ r = promised'[p]
    BY <1>1, <1>2
  <2>2. PICK h \in Nat : h = RetryAfter /\ h = Remaining(p)'
    BY <1>1, <1>4
  <2>3. PICK t \in Nat : t = tokens'
    BY <1>2, <1>3
  <2>4. Covered(p)' <=> Token <= t + (0 + h) * r
    BY <1>2, <2>1, <2>2, <2>3 DEF Covered, Token, Scale
  <2>5. h * r \in Nat /\ h * r >= Token /\ Token \in Nat
    BY <1>1, <2>1, <2>2, Units, ProductMonotone
  <2>6. (0 + h) * r = h * r
    OBVIOUS
  <2>7. Token <= t + h * r
    BY <2>5
  <2>. QED BY <2>4, <2>6, <2>7, Zenon
<1>6. state[p] # "calling"
  BY DEF HandleRefused, OnceInv
<1>. QED BY <1>1, <1>2, <1>5, <1>6, Responses DEF HintInv

(* The refused producer waits as long as the hint tells, or longer.        *)
LEMMA HintSleep ==
  ASSUME ShedderTypeOK, ClientTypes, NEW p \in Producers, ReceiveRateLimited(p),
         HintInv(p), OnceInv(p)
  PROVE  HintInv(p)'
<1>1. /\ response[p] # NoResponse /\ response[p] # Ok
      /\ response[p].retry_after \in Nat /\ ~request[p]
      /\ promised[p] \in Nat
  BY AnswerFields, Responses DEF ReceiveRateLimited, ClientTypes, OnceInv
<1>2. /\ response'[p] = NoResponse /\ UNCHANGED <<tokens, elapsed, request>>
      /\ state'[p] \in {"gave_up", "asleep"}
  BY DEF ReceiveRateLimited, ClientTypes, shedderVars
<1>3. CASE promised'[p] = 0
  BY <1>3, Zenon DEF HintInv
<1>4. CASE promised'[p] # 0
  <2>1. /\ state'[p] = "asleep" /\ promised' = promised
        /\ \E d \in NextWait(attempt[p], response[p].retry_after) : wait'[p] = d
    BY <1>4 DEF ReceiveRateLimited, ClientTypes
  <2>2. wait'[p] \in Nat /\ wait'[p] >= response[p].retry_after
    BY <1>1, <2>1 DEF NextWait, AtLeast
  <2>3. PICK h \in Nat : h = Remaining(p) /\ h <= wait'[p]
    BY <1>1, <2>2 DEF Remaining
  <2>4. PICK w \in Nat : w = Remaining(p)' /\ h <= w
    BY <1>2, <2>1, <2>2, <2>3 DEF Remaining
  <2>5. PICK r \in Nat : r = promised[p] /\ r = promised'[p] /\ r # 0
    BY <1>1, <1>4, <2>1
  <2>6. Covered(p)
    BY <1>1, <2>5 DEF HintInv
  <2>7. PICK t \in Nat, e \in Nat : t = tokens /\ t = tokens' /\ e = elapsed /\ e = elapsed'
    BY <1>2, Units, ShedderAssumption DEF ShedderTypeOK
  <2>8. Token <= t + (e + h) * r
    BY <2>3, <2>5, <2>6, <2>7 DEF Covered
  <2>9. Token <= t + (e + w) * r
    <3>1. e + h \in Nat /\ e + w \in Nat /\ e + h <= e + w
      BY <2>4
    <3>. QED BY <2>8, <3>1, CoveredMonotone, Zenon
  <2>10. Covered(p)'
    BY <2>4, <2>5, <2>7, <2>9 DEF Covered, Token, Scale
  <2>. QED BY <1>2, <2>1, <2>10, Responses, Zenon DEF HintInv
<1>. QED BY <1>3, <1>4


LEMMA HintTick ==
  ASSUME ShedderTypeOK, ClientTypes, NEW p \in Producers, ProducersTick, HintInv(p)
  PROVE  HintInv(p)'
<1>1. /\ UNCHANGED <<state, request, response, promised>> /\ ShedderTick
      /\ wait'[p] = AtLeast(0, wait[p] - 1) /\ wait[p] \in Nat
      /\ promised[p] \in Nat
  BY DEF ProducersTick, ClientTypes, wireVars
<1>2. CASE promised[p] = 0
  BY <1>1, <1>2 DEF HintInv
<1>3. CASE promised[p] # 0
  <2>1. Remaining(p) \in Nat /\ MinRate <= promised[p]
    BY <1>3, RemainingType DEF HintInv
  <2>2. Remaining(p)' \in Nat /\ Remaining(p) <= Remaining(p)' + 1
    BY <1>1, <2>1 DEF Remaining, AtLeast
  <2>3. Covered(p) => Covered(p)'
    <3>1. PICK m \in Nat, n \in Nat : m = Remaining(p) /\ n = Remaining(p)' /\ m <= n + 1
      BY <2>1, <2>2
    <3>2. PICK r \in Nat : r = promised[p] /\ r = promised'[p] /\ MinRate <= r
      BY <1>1, <2>1
    <3>3. Covered(p) <=> Token <= tokens + (elapsed + m) * r
      BY <3>1, <3>2 DEF Covered
    <3>4. Covered(p)' <=> Token <= tokens' + (elapsed' + n) * r
      BY <3>1, <3>2 DEF Covered, Token, Scale
    <3>. QED BY <1>1, <3>1, <3>2, <3>3, <3>4, TickCovers
  <2>. QED BY <1>1, <2>1, <2>3 DEF HintInv, MinRate, Scale
<1>. QED BY <1>2, <1>3

HintsInv == \A p \in Producers : HintInv(p)

LEMMA HintsInit == ProducersInit => HintsInv
  BY DEF ProducersInit, HintsInv, HintInv

LEMMA HintsStep ==
  ASSUME ShedderTypeOK, ClientTypes, ClientsInv, HintsInv, [ProducersNext]_producerVars
  PROVE  HintsInv'
<1>. SUFFICES ASSUME NEW q \in Producers PROVE HintInv(q)'
  BY DEF HintsInv
<1>0. HintInv(q) /\ OnceInv(q) /\ response[q] \in Answer
  BY DEF HintsInv, ClientsInv, ClientTypes
<1>1. ASSUME NEW p \in Producers, Send(p) PROVE HintInv(q)'
  <2>1. CASE q # p
    BY <1>0, <1>1, <2>1, HintSame DEF Send, shedderVars, ClientTypes
  <2>2. CASE q = p
    <3>1. /\ state'[q] = "reading" /\ (request'[q] => connected[q])
          /\ UNCHANGED <<tokens, elapsed, response, promised>>
          /\ response[q] = NoResponse
          /\ state[q] = "calling" \/ (state[q] = "asleep" /\ wait[q] = 0)
      BY <1>0, <1>1, <2>2 DEF Send, shedderVars, ClientTypes, OnceInv
    <3>2. Remaining(q)' = 0 /\ (state[q] = "asleep" => Remaining(q) = 0)
      BY <3>1 DEF Remaining
    <3>3. state[q] = "asleep" => (Covered(q)' <=> Covered(q))
      BY <3>1, <3>2 DEF Covered, Token, Scale
    <3>. QED BY <1>0, <3>1, <3>3, Responses DEF HintInv, MinRate, Scale
  <2>. QED BY <2>1, <2>2
<1>2. ASSUME NEW p \in Producers, ReceiveOk(p) PROVE HintInv(q)'
  <2>1. CASE q # p
    BY <1>0, <1>2, <2>1, HintSame DEF ReceiveOk, shedderVars, ClientTypes
  <2>2. CASE q = p
    BY <1>0, <1>2, <2>2 DEF ReceiveOk, HintInv
  <2>. QED BY <2>1, <2>2
<1>3. ASSUME NEW p \in Producers, ReceiveRateLimited(p) PROVE HintInv(q)'
  <2>1. CASE q # p
    BY <1>0, <1>3, <2>1, HintSame DEF ReceiveRateLimited, shedderVars, ClientTypes
  <2>2. CASE q = p
    BY <1>0, <1>3, <2>2, HintSleep
  <2>. QED BY <2>1, <2>2
<1>4. ASSUME NEW p \in Producers, ReceiveNothing(p) PROVE HintInv(q)'
  <2>1. CASE q # p
    BY <1>0, <1>4, <2>1, HintSame DEF ReceiveNothing, shedderVars, wireVars, ClientTypes
  <2>2. CASE q = p
    <3>1. /\ state'[q] = "lost" /\ state[q] = "reading"
          /\ UNCHANGED <<tokens, elapsed, response, promised, request, wait>>
      BY <1>4, <2>2 DEF ReceiveNothing, shedderVars, wireVars, ClientTypes
    <3>2. Covered(q)' <=> Covered(q)
      BY <3>1 DEF Covered, Remaining, Token, Scale
    <3>. QED BY <1>0, <3>1, <3>2 DEF HintInv, MinRate, Scale
  <2>. QED BY <2>1, <2>2
<1>5. ASSUME NEW p \in Producers, HandleAllowed(p) PROVE HintInv(q)'
  BY <1>5 DEF HandleAllowed, HintInv
<1>6. ASSUME NEW p \in Producers, HandleRefused(p) PROVE HintInv(q)'
  <2>1. CASE q # p
    BY <1>0, <1>6, <2>1, HintRefill, Zenon DEF HandleRefused, Reject, clientVars, ClientTypes
  <2>2. CASE q = p
    BY <1>0, <1>6, <2>2, HintRefused
  <2>. QED BY <2>1, <2>2
<1>7. ASSUME NEW p \in Producers, ConnectionLost(p) PROVE HintInv(q)'
  <2>1. CASE request'[q] = request[q] /\ response'[q] = response[q]
    BY <1>0, <1>7, <2>1, HintSame, Zenon DEF ConnectionLost, shedderVars, clientVars
  <2>2. CASE request'[q] = FALSE /\ response'[q] = NoResponse
    <3>1. UNCHANGED <<tokens, elapsed, state, wait, promised>>
      BY <1>7 DEF ConnectionLost, shedderVars, clientVars
    <3>2. state[q] = "asleep" => response[q] = NoResponse
      BY <1>0 DEF OnceInv
    <3>3. state[q] = "asleep" => (Covered(q)' <=> Covered(q))
      BY <2>2, <3>1, <3>2 DEF Covered, Remaining, Token, Scale
    <3>. QED BY <1>0, <2>2, <3>1, <3>3, Responses DEF HintInv, MinRate, Scale
  <2>. QED BY <1>7, <2>1, <2>2, Zenon DEF ConnectionLost, ClientTypes
<1>8. CASE HandleStats
  BY <1>0, <1>8, HintRefill DEF HandleStats, GetStats, clientVars, wireVars, ClientTypes
<1>9. CASE Workload
  <2>1. UNCHANGED <<tokens, elapsed>>
    BY <1>9 DEF Workload, Pressure
  <2>. QED BY <1>0, <1>9, <2>1, HintSame DEF Workload, clientVars, wireVars
<1>10. CASE ProducersTick
  BY <1>0, <1>10, HintTick
<1>11. CASE UNCHANGED producerVars
  BY <1>0, <1>11, HintSame DEF producerVars, shedderVars, clientVars, wireVars
<1>. QED BY <1>1, <1>2, <1>3, <1>4, <1>5, <1>6, <1>7, <1>8, <1>9, <1>10, <1>11
         DEF ProducersNext

(* A refusal although the hint was followed: the rate has fallen.          *)
LEMMA RefusedAgain ==
  ASSUME ShedderTypeOK, ClientTypes, ClientsInv, HintsInv,
         NEW p \in Producers, HandleRefused(p), promised[p] > 0
  PROVE  AdjustedRate < promised[p]
<1>1. /\ request[p] /\ response[p] = NoResponse /\ state[p] # "asleep"
      /\ promised[p] \in Nat /\ promised[p] # 0 /\ HintInv(p)
  <2>1. OnceInv(p) /\ HintInv(p) /\ request[p]
    BY DEF HandleRefused, ClientsInv, HintsInv
  <2>2. promised[p] \in Nat /\ promised[p] # 0
    BY DEF ClientTypes
  <2>. QED BY <2>1, <2>2 DEF OnceInv
<1>2. Covered(p) /\ Remaining(p) = 0
  BY <1>1 DEF HintInv, Remaining
<1>3. PICK r \in Nat : r = promised[p]
  BY <1>1
<1>4. AdjustedRate \in Nat /\ Token \in Nat
  BY HintSuffices, Units
<1>5. CASE r <= AdjustedRate
  <2>1. Token <= tokens + (elapsed + 0) * r
    BY <1>2, <1>3 DEF Covered
  <2>2. Token <= Refilled + (0 + 0) * r
    BY <1>5, <2>1, RefillCovers
  <2>3. (0 + 0) * r = 0
    OBVIOUS
  <2>4. Refilled < Token
    BY DEF HandleRefused, Reject
  <2>5. Refilled \in Nat
    <3>1. elapsed \in Nat /\ tokens \in Nat /\ Capacity \in Nat
      BY Units, ShedderAssumption DEF ShedderTypeOK
    <3>2. elapsed * AdjustedRate \in Nat
      BY <1>4, <3>1, ProductMonotone
    <3>. QED BY <3>1, <3>2 DEF Refilled, AtMost
  <2>. QED BY <1>4, <2>2, <2>3, <2>4, <2>5
<1>. QED BY <1>3, <1>4, <1>5

(* A producer that waits as next_wait tells is refused again only if a     *)
(* token went to somebody else in the meantime or the pressure has grown:  *)
(* for any tuning parameters, any number of producers, and any polling.    *)
THEOREM ProducersRetryHintHolds == ProducersSpec => RetryHintHolds
<1>. DEFINE Inv == ShedderInv /\ ClientTypes /\ ClientsInv /\ HintsInv
            Hint == \A p \in Producers :
                      HandleRefused(p) /\ promised[p] > 0 => AdjustedRate < promised[p]
<1>1. ProducersInit => Inv
  BY ShedderInitInv, ClientTypesInit, ClientsInit, HintsInit DEF ProducersInit
<1>2. Inv /\ [ProducersNext]_producerVars => Inv'
  BY ShedderStepInv, ProducersStepShedder, ClientTypesStep, ClientsStep, HintsStep
     DEF ShedderInv
<1>3. Inv => Hint
  BY RefusedAgain DEF ShedderInv
<1>. QED BY <1>1, <1>2, <1>3, PTL DEF ProducersSpec, RetryHintHolds


=============================================================================
