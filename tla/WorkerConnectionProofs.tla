----------------------- MODULE WorkerConnectionProofs -----------------------
(***************************************************************************)
(* For any number of deliveries and of broken connections: the coroutines  *)
(* of a worker keep their types, read their own answers, leave nothing     *)
(* behind for the next connection, report a delivery at most once, and     *)
(* show the broker the cycle of WorkerCycle.                               *)
(***************************************************************************)
EXTENDS WorkerConnection, SequenceTheorems, TLAPS

(* _conn_lock is held by a coroutine that sends, the other one waits.      *)
LockOK ==
  /\ main \in Commands \cup {"down", "paused", "executing", "closing",
                             "failing", "ended"}
  /\ hb \in {"off", "asleep", "HEARTBEAT"}
  /\ lock = IF main \in Commands
            THEN IF hb = "HEARTBEAT"
                 THEN IF lock = <<"hb", "main">> THEN <<"hb", "main">>
                      ELSE <<"main", "hb">>
                 ELSE <<"main">>
            ELSE IF hb = "HEARTBEAT" THEN <<"hb">> ELSE << >>
  /\ reading \subseteq {"main", "hb"}
  /\ "main" \in reading => lock \in {<<"main">>, <<"main", "hb">>}
  /\ "hb" \in reading => lock \in {<<"hb">>, <<"hb", "main">>}
  /\ main \in {"down", "REGISTER", "ended", "closing", "failing"} => hb = "off"

(* The wire carries nothing, or the request or the answer of the coroutine *)
(* that waits for it; between the end of the loop and _close, also what a  *)
(* cancelled coroutine left.                                               *)
Owner(m) == m.from \in reading \/ main \in {"closing", "failing"}

WireOK ==
  /\ open \in BOOLEAN
  /\ task \in 0..MaxDeliveries
  /\ ~open => up = << >>
  /\ \/ up = << >> /\ down = << >>
     \/ \E m \in Message : up = <<m>> /\ down = << >> /\ Owner(m)
     \/ \E m \in [from : {"main", "hb"}, of : 0..MaxDeliveries] :
          up = << >> /\ down = <<m>> /\ Owner(m)

(* Sequences of at most two elements.                                      *)
LEMMA One ==
  ASSUME NEW m
  PROVE  /\ Append(<< >>, m) = <<m>> /\ Tail(<<m>>) = << >> /\ Head(<<m>>) = m
         /\ <<m>> # << >>
  BY SMT

LEMMA Two ==
  ASSUME NEW m, NEW n
  PROVE  /\ Append(<<m>>, n) = <<m, n>>
         /\ Tail(<<m, n>>) = <<n>>
         /\ Head(<<m, n>>) = m
         /\ <<m, n>> # << >>
         /\ \A k : <<k>> # <<m, n>>
<1>1. Append(<<m>>, n) = <<m, n>>
  <2> DEFINE S == {m, n}
  <2>1. <<m>> \in Seq(S) /\ <<m, n>> \in Seq(S) /\ n \in S
    OBVIOUS
  <2>2. Len(<<m>>) = 1 /\ Len(<<m, n>>) = 2
    OBVIOUS
  <2>3. <<m, n>>[1] = m /\ <<m, n>>[2] = n /\ <<m>>[1] = m
    OBVIOUS
  <2> HIDE DEF S
  <2>4. /\ Append(<<m>>, n) \in Seq(S)
        /\ Len(Append(<<m>>, n)) = 2
        /\ Append(<<m>>, n)[1] = m /\ Append(<<m>>, n)[2] = n
    BY <2>1, <2>2, <2>3, AppendProperties
  <2>5. \A i \in 1..2 : Append(<<m>>, n)[i] = <<m, n>>[i]
    BY <2>3, <2>4, SMT
  <2> QED  BY <2>1, <2>2, <2>4, <2>5, SeqEqual, Zenon
<1>2. Tail(<<m, n>>) = <<n>>
  BY SMT
<1>3. Head(<<m, n>>) = m /\ <<m, n>> # << >>
  BY SMT
<1>4. \A k : <<k>> # <<m, n>>
  <2>1. Len(<<m, n>>) = 2 /\ \A k : Len(<<k>>) = 1
    BY SMT
  <2> QED  BY <2>1, SMT
<1> QED  BY <1>1, <1>2, <1>3, <1>4

LEMMA LockFacts ==
  /\ Append(<< >>, "main") = <<"main">> /\ Append(<< >>, "hb") = <<"hb">>
  /\ Append(<<"main">>, "hb") = <<"main", "hb">>
  /\ Append(<<"hb">>, "main") = <<"hb", "main">>
  /\ Tail(<<"main">>) = << >> /\ Tail(<<"hb">>) = << >>
  /\ Tail(<<"main", "hb">>) = <<"hb">> /\ Tail(<<"hb", "main">>) = <<"main">>
  /\ Head(<<"main">>) = "main" /\ Head(<<"main", "hb">>) = "main"
  /\ Head(<<"hb">>) = "hb" /\ Head(<<"hb", "main">>) = "hb"
  /\ << >> # <<"main">> /\ << >> # <<"hb">> /\ <<"main">> # <<"hb">>
  /\ << >> # <<"main", "hb">> /\ << >> # <<"hb", "main">>
  /\ <<"main", "hb">> # <<"hb", "main">>
  /\ <<"main">> # <<"main", "hb">> /\ <<"main">> # <<"hb", "main">>
  /\ <<"hb">> # <<"main", "hb">> /\ <<"hb">> # <<"hb", "main">>
<1>1. <<"main">> # <<"hb">> /\ <<"main", "hb">> # <<"hb", "main">>
  BY Head(<<"main">>) # Head(<<"hb">>),
     Head(<<"main", "hb">>) # Head(<<"hb", "main">>), SMT
<1> QED  BY <1>1, One, Two

LEMMA ZeroInRange == 0 \in 0..MaxDeliveries
  BY ConnectionAssumption, SMT

LEMMA LockInit == ConnectionInit => LockOK /\ WireOK
  BY ZeroInRange, Zenon DEF ConnectionInit, LockOK, WireOK, Commands

(* The lock is held by the coroutine that sends, and passed on in order.   *)
LEMMA LockStep ==
  ASSUME LockOK, WireOK, [ConnectionNext]_connectionVars
  PROVE  LockOK'
<1> USE LockFacts DEF LockOK, Commands
<1>1. CASE Connect  BY <1>1 DEF Connect, Acquire
<1>2. CASE Write("main")  BY <1>2 DEF Write
<1>3. CASE Write("hb")  BY <1>3 DEF Write
<1>4. CASE Registered  BY <1>4, Zenon DEF Registered, Answered, SendNext
<1>5. CASE Consumed  BY <1>5, Zenon DEF Consumed, Answered, Release
<1>6. CASE Executed  BY <1>6, Zenon DEF Executed, Acquire
<1>7. CASE Reported  BY <1>7, Zenon DEF Reported, Answered, Release
<1>8. CASE Looped  BY <1>8, Zenon DEF Looped, Acquire, Leave
<1>9. CASE SendFails  BY <1>9, Zenon DEF SendFails, Release, SendNext, Leave
<1>10. CASE Cancelled  BY <1>10 DEF Cancelled, Leave
<1>11. CASE Closed  BY <1>11 DEF Closed
<1>12. CASE Shutdown  BY <1>12 DEF Shutdown
<1>13. CASE HeartbeatDue  BY <1>13, Zenon DEF HeartbeatDue, Acquire
<1>14. CASE HeartbeatSent
  BY <1>14, Zenon DEF HeartbeatSent, Answered, Broken, Release
<1>15. CASE \/ UNCHANGED connectionVars
            \/ HandleRequest \/ HandlerRaises \/ HandleStale \/ ConnectionBreaks
  BY <1>15, Zenon DEF connectionVars, workerVars, HandleRequest, HandlerRaises,
               HandleStale, ConnectionBreaks
<1> QED  BY <1>1, <1>2, <1>3, <1>4, <1>5, <1>6, <1>7, <1>8, <1>9, <1>10,
            <1>11, <1>12, <1>13, <1>14, <1>15
         DEF ConnectionNext, MainStep, HeartbeatStep

(* A request is on the wire, or an answer, or nothing.                     *)
LEMMA WireStep ==
  ASSUME LockOK, WireOK, [ConnectionNext]_connectionVars
  PROVE  WireOK'
<1> USE LockFacts, One, ZeroInRange DEF WireOK, Owner
<1>1. CASE Connect  BY <1>1 DEF Connect
<1>2. ASSUME NEW c \in {"main", "hb"}, Write(c)  PROVE WireOK'
  <2>1. Head(lock) = c /\ reading = {}
    BY <1>2 DEF Write, LockOK, Commands
  <2>2. main \notin {"closing", "failing"}
    BY <1>2 DEF Write, LockOK, Commands
  <2>3. up = << >> /\ down = << >>
    BY <2>1, <2>2
  <2>4. Request(c) \in Message /\ Request(c).from = c
    BY <1>2, <2>1 DEF Request, Message, Write, LockOK, Commands
  <2> QED  BY <1>2, <2>3, <2>4 DEF Write
<1>3. ASSUME NEW c \in {"main", "hb"}, Answered(c), main \notin {"closing", "failing"}
      PROVE  /\ reading' = {} /\ up = << >> /\ down' = << >>
             /\ Head(down).of \in 0..MaxDeliveries
  <2>1. reading = {c}
    BY <1>3, Zenon DEF Answered, LockOK
  <2>2. PICK m \in [from : {"main", "hb"}, of : 0..MaxDeliveries] :
          up = << >> /\ down = <<m>>
    BY <1>3 DEF Answered
  <2> QED  BY <1>3, <2>1, <2>2 DEF Answered
<1>4. CASE Registered  BY <1>3, <1>4 DEF Registered
<1>5. CASE Consumed  BY <1>3, <1>5 DEF Consumed
<1>6. CASE Executed  BY <1>6 DEF Executed, wireVars
<1>7. CASE Reported  BY <1>3, <1>7 DEF Reported
<1>8. CASE Looped  BY <1>8 DEF Looped, Leave, wireVars
<1>9. CASE SendFails  BY <1>9 DEF SendFails, Leave, wireVars
<1>10. CASE Cancelled  BY <1>10 DEF Cancelled, Leave, wireVars
<1>11. CASE Closed  BY <1>11, Zenon DEF Closed, Abandon
<1>12. CASE Shutdown  BY <1>12 DEF Shutdown, wireVars
<1>13. CASE HeartbeatDue  BY <1>13 DEF HeartbeatDue, wireVars
<1>14. CASE HeartbeatSent
  <2>1. main \notin {"closing", "failing"}
    BY <1>14 DEF HeartbeatSent, LockOK
  <2>2. CASE Answered("hb")  BY <1>3, <1>14, <2>1, <2>2 DEF HeartbeatSent
  <2>3. CASE Broken("hb")  BY <1>14, <2>3 DEF HeartbeatSent, Broken
  <2> QED  BY <1>14, <2>2, <2>3 DEF HeartbeatSent
<1>15. CASE HandleRequest
  <2>1. PICK m \in Message : up = <<m>> /\ down = << >> /\ Owner(m)
    BY <1>15 DEF HandleRequest
  <2>2. PICK d \in 0..MaxDeliveries :
          down' = Append(down, [from |-> Head(up).from, of |-> d])
    BY <1>15 DEF HandleRequest
  <2>3. /\ up' = << >> /\ down' = <<[from |-> m.from, of |-> d]>>
        /\ UNCHANGED <<main, reading, open, task>>
    BY <1>15, <2>1, <2>2 DEF HandleRequest, workerVars
  <2>4. [from |-> m.from, of |-> d] \in [from : {"main", "hb"}, of : 0..MaxDeliveries]
    BY <2>1 DEF Message
  <2> QED  BY <2>1, <2>3, <2>4
<1>16. CASE HandlerRaises  BY <1>16, Zenon DEF HandlerRaises, Abandon, workerVars
<1>17. CASE HandleStale  BY <1>17 DEF HandleStale, workerVars
<1>18. CASE ConnectionBreaks
  BY <1>18, Zenon DEF ConnectionBreaks, Abandon, workerVars
<1>19. CASE UNCHANGED connectionVars
  BY <1>19 DEF connectionVars, workerVars, wireVars
<1> QED  BY <1>1, <1>2, <1>4, <1>5, <1>6, <1>7, <1>8, <1>9, <1>10, <1>11,
            <1>12, <1>13, <1>14, <1>15, <1>16, <1>17, <1>18, <1>19
         DEF ConnectionNext, MainStep, HeartbeatStep

(* _send: the answer that a coroutine reads is the answer to its own       *)
(* request, in every behaviour and for every value of the constants.       *)
THEOREM ConnectionRepliesMatch == ConnectionSpec => []RepliesMatch
<1>1. LockOK /\ WireOK => RepliesMatch
  <2> SUFFICES ASSUME LockOK, WireOK, NEW c \in reading, down # << >>
               PROVE  Head(down).from = c
    BY DEF RepliesMatch
  <2>1. reading = {c}  BY LockFacts, Zenon DEF LockOK
  <2>2. main \notin {"closing", "failing"}
    BY <2>1, LockFacts DEF LockOK, Commands
  <2> QED  BY <2>1, <2>2, One DEF WireOK, Owner
<1> QED  BY <1>1, LockInit, LockStep, WireStep, PTL DEF ConnectionSpec

(* run: when the worker connects, and after run has returned, the          *)
(* heartbeat task of the run before is gone and does not hold the lock.    *)
THEOREM ConnectionNothingLeft == ConnectionSpec => []NothingLeftBehind
<1>1. LockOK => NothingLeftBehind
  <2> SUFFICES ASSUME LockOK, main \in {"down", "REGISTER", "ended"}
               PROVE  /\ hb = "off" /\ "hb" \notin reading
                      /\ \A i \in DOMAIN lock : lock[i] = "main"
    BY DEF NothingLeftBehind
  <2>1. lock \in {<< >>, <<"main">>} /\ hb = "off"
    BY DEF LockOK, Commands
  <2>2. "hb" \notin reading
    BY <2>1, LockFacts DEF LockOK
  <2> QED  BY <2>1, <2>2
<1> QED  BY <1>1, LockInit, LockStep, WireStep, PTL DEF ConnectionSpec

-----------------------------------------------------------------------------
(* The state of the session that the broker is in, while the connection is *)
(* open, when run is at a command or between two; and what that makes of a *)
(* request on the wire, also one whose sender was cancelled.               *)
New == session = <<"new", 0>>
Idle == session = <<"idle", 0>>
Busy == \E d \in 1..MaxDeliveries : session = <<"busy", d>>

(* The answer to run's request is on the wire.                             *)
Replied == "main" \in reading /\ down # << >>

SessionOK ==
  /\ open /\ main = "REGISTER" => IF Replied THEN Idle ELSE New
  /\ open /\ main = "CONSUME" =>
       IF Replied /\ Head(down).of # 0 THEN Busy ELSE Idle
  /\ open /\ main = "executing" => Busy
  /\ open /\ main \in {"ACK", "NACK"} => IF Replied THEN Idle ELSE Busy
  /\ open /\ main = "paused" => Idle
  /\ \A m \in Message : open /\ up = <<m>> =>
       /\ m.from = "hb" <=> m.command = "HEARTBEAT"
       /\ m.from = "main" /\ main \notin {"closing", "failing"} =>
            m.command = main
       /\ m.command = "REGISTER" => New
       /\ m.command = "CONSUME" => Idle
       /\ m.command \in {"ACK", "NACK"} => Busy

LEMMA SessionInit == ConnectionInit => SessionOK
  BY DEF ConnectionInit, SessionOK

(* What the broker makes of a request is a step of the cycle.              *)
LEMMA HandledRequest ==
  ASSUME LockOK, WireOK, SessionOK, HandleRequest
  PROVE  /\ [Cycle!CycleNext]_session
         /\ SessionOK'
<1>1. PICK m \in Message : up = <<m>> /\ down = << >> /\ Owner(m)
  BY One DEF HandleRequest, WireOK
<1>2. PICK d \in 0..MaxDeliveries :
        /\ Handle(m, d) /\ session' = Seen(m, d)
        /\ down' = <<[from |-> m.from, of |-> d]>>
  BY <1>1, One DEF HandleRequest
<1>3. /\ open /\ up' = << >> /\ down' # << >>
      /\ Head(down').of = d /\ Head(down').from = m.from
      /\ UNCHANGED <<main, reading, open, task>>
  BY <1>1, <1>2, One DEF HandleRequest, workerVars
<1>4. /\ m.from = "hb" <=> m.command = "HEARTBEAT"
      /\ m.from = "main" /\ main \notin {"closing", "failing"} => m.command = main
      /\ m.command = "REGISTER" => New
      /\ m.command = "CONSUME" => Idle
      /\ m.command \in {"ACK", "NACK"} => Busy
      /\ m.from \in {"main", "hb"}
      /\ m.command \in {"REGISTER", "CONSUME", "ACK", "NACK", "HEARTBEAT"}
  BY <1>1, <1>3 DEF SessionOK, Message, Commands
<1>5. \A n \in Message : up' # <<n>>
  BY <1>3, One
<1>6. m.from \in reading \/ main \in {"closing", "failing"}
  BY <1>1 DEF Owner
<1>7. "main" \notin reading \/ "hb" \notin reading
  BY LockFacts DEF LockOK
<1>8. CASE m.command = "HEARTBEAT"
  <2>0. d = 0  BY <1>2, <1>8 DEF Handle
  <2>1. session' = session  BY <1>2, <1>8, <2>0 DEF Seen
  <2>2. ~Replied /\ (main \in {"closing", "failing"} \/ ~Replied')
    BY <1>1, <1>3, <1>4, <1>6, <1>7, <1>8 DEF Replied
  <2> QED  BY <1>3, <1>5, <2>1, <2>2 DEF SessionOK, New, Idle, Busy, Replied
<1>9. CASE m.command \in {"REGISTER", "ACK", "NACK"}
  <2>1. d = 0  BY <1>2, <1>9 DEF Handle
  <2>2. session' = <<"idle", 0>>  BY <1>2, <1>9, <2>1 DEF Seen
  <2>3. Cycle!CycleNext
    BY <1>4, <1>9, <2>2 DEF Cycle!CycleNext, Cycle!Register, Cycle!Report, New, Busy
  <2>4. main \in {"closing", "failing"} \/ (main = m.command /\ Replied')
    BY <1>3, <1>4, <1>6, <1>9 DEF Replied
  <2> QED  BY <1>3, <1>5, <1>9, <2>2, <2>3, <2>4 DEF SessionOK, Idle
<1>10. CASE m.command = "CONSUME"
  <2>1. session = <<"idle", 0>>  BY <1>4, <1>10 DEF Idle
  <2>2. session' = IF d # 0 THEN <<"busy", d>> ELSE <<"idle", 0>>
    BY <1>2, <1>10 DEF Seen
  <2>3. d # 0 => d \in 1..MaxDeliveries
    BY ConnectionAssumption
  <2>4. [Cycle!CycleNext]_session
    BY <2>1, <2>2, <2>3 DEF Cycle!CycleNext, Cycle!Deliver
  <2>5. main \in {"closing", "failing"} \/ (main = "CONSUME" /\ Replied')
    BY <1>3, <1>4, <1>6, <1>10 DEF Replied
  <2>6. (d # 0 => Busy') /\ (d = 0 => Idle')
    BY <2>2, <2>3 DEF Busy, Idle
  <2> QED  BY <1>3, <1>5, <2>4, <2>5, <2>6 DEF SessionOK
<1> QED  BY <1>4, <1>8, <1>9, <1>10

(* The other steps keep the session or lose it.                            *)
LEMMA SessionStep ==
  ASSUME LockOK, WireOK, SessionOK, [ConnectionNext]_connectionVars
  PROVE  /\ [Cycle!CycleNext]_session
         /\ SessionOK'
<1> USE One DEF brokerSide, wireVars
<1>0. session' = session \/ session' = <<"new", 0>> => [Cycle!CycleNext]_session
  BY DEF Cycle!CycleNext, Cycle!Lose
<1>1. CASE Connect
  <2>1. /\ main' = "REGISTER" /\ up' = << >> /\ down' = << >>
        /\ session' = <<"new", 0>>
    BY <1>1 DEF Connect
  <2> QED  BY <1>0, <2>1 DEF SessionOK, New, Replied
<1>2. ASSUME NEW c \in {"main", "hb"}, Write(c)  PROVE SessionOK' /\ session' = session
  <2>1. Head(lock) = c /\ reading = {} /\ main \notin {"closing", "failing"}
    BY <1>2, LockFacts DEF Write, LockOK, Commands
  <2>2. up = << >> /\ down = << >>
    BY <2>1 DEF WireOK, Owner
  <2>3. /\ UNCHANGED <<main, open, session, down>>
        /\ up' = IF open THEN <<Request(c)>> ELSE << >>
    BY <1>2, <2>2 DEF Write
  <2>4. ~Replied /\ ~Replied'
    BY <2>2, <2>3 DEF Replied
  <2>5. c = "main" => main \in Commands
    BY <2>1, <1>2, LockFacts DEF LockOK, Write
  <2>6. \A m \in Message : up' = <<m>> => m = Request(c)
    BY <2>3
  <2>7. /\ Request(c).from = c
        /\ Request(c).command = IF c = "hb" THEN "HEARTBEAT" ELSE main
    BY DEF Request
  <2> QED  BY <1>2, <2>1, <2>3, <2>4, <2>5, <2>6, <2>7
           DEF SessionOK, New, Idle, Busy, Commands
<1>3. ASSUME "main" \in reading, down # << >>, main \in Commands
      PROVE  up = << >> /\ Replied /\ "hb" \notin reading
  BY <1>3, LockFacts DEF WireOK, LockOK, Replied
<1>4. CASE Registered
  <2>1. /\ main = "REGISTER" /\ "main" \in reading /\ down # << >>
        /\ main' = "CONSUME" /\ "main" \notin reading'
        /\ UNCHANGED <<open, up, session>>
    BY <1>4 DEF Registered, Answered
  <2> QED  BY <1>0, <1>3, <2>1 DEF SessionOK, Idle, Replied, Commands
<1>5. CASE Consumed
  <2>1. /\ main = "CONSUME" /\ "main" \in reading /\ down # << >>
        /\ main' = IF Head(down).of = 0 THEN "paused" ELSE "executing"
        /\ UNCHANGED <<open, up, session>>
    BY <1>5 DEF Consumed, Answered
  <2> QED  BY <1>0, <1>3, <2>1 DEF SessionOK, Idle, Busy, Commands
<1>6. CASE Executed
  <2>1. "main" \notin reading /\ "main" \notin reading'
    BY <1>6, LockFacts DEF Executed, LockOK, Commands
  <2>2. /\ main = "executing" /\ main' \in {"ACK", "NACK"}
        /\ UNCHANGED <<open, up, session, reading>>
    BY <1>6 DEF Executed
  <2>3. \A m \in Message : up = <<m>> => m.from # "main"
    BY <2>1, <2>2 DEF WireOK, Owner
  <2> QED  BY <1>0, <2>1, <2>2, <2>3 DEF SessionOK, New, Idle, Busy, Replied
<1>7. CASE Reported
  <2>1. /\ main \in {"ACK", "NACK"} /\ "main" \in reading /\ down # << >>
        /\ main' = "paused"
        /\ UNCHANGED <<open, up, session>>
    BY <1>7 DEF Reported, Answered
  <2> QED  BY <1>0, <1>3, <2>1, Zenon DEF SessionOK, Idle, Commands
<1>8. ASSUME main' \in {"closing", "failing"}, UNCHANGED <<open, up, session>>
      PROVE  SessionOK'
  BY <1>8 DEF SessionOK, New, Idle, Busy
<1>9. CASE Looped
  <2>1. CASE running
    <3>1. "main" \notin reading /\ "main" \notin reading'
      BY <1>9, <2>1, LockFacts DEF Looped, LockOK, Commands
    <3>2. /\ main = "paused" /\ main' = "CONSUME"
          /\ UNCHANGED <<open, up, session>>
      BY <1>9, <2>1 DEF Looped
    <3>3. \A m \in Message : up = <<m>> => m.from # "main"
      BY <3>1, <3>2 DEF WireOK, Owner
    <3> QED  BY <1>0, <3>1, <3>2, <3>3 DEF SessionOK, New, Idle, Busy, Replied
  <2>2. CASE ~running
    BY <1>0, <1>8, <1>9, <2>2 DEF Looped, Leave
  <2> QED  BY <2>1, <2>2
<1>10. CASE SendFails \/ Cancelled \/ Closed \/ HandlerRaises \/ ConnectionBreaks
  <2>1. CASE SendFails
    BY <1>0, <2>1 DEF SendFails, SessionOK, WireOK
  <2>2. CASE Cancelled
    BY <1>0, <1>8, <2>2 DEF Cancelled, Leave
  <2>3. CASE Closed \/ HandlerRaises \/ ConnectionBreaks
    <3>1. ~open' /\ session' = <<"new", 0>>
      BY <2>3 DEF Closed, HandlerRaises, ConnectionBreaks, Abandon
    <3> QED  BY <1>0, <3>1 DEF SessionOK
  <2> QED  BY <1>10, <2>1, <2>2, <2>3
<1>11. CASE Shutdown \/ HandleStale \/ HeartbeatDue \/ UNCHANGED connectionVars
  <2>1. UNCHANGED <<main, reading, open, up, down, session>>
    BY <1>11 DEF Shutdown, HandleStale, HeartbeatDue, connectionVars, workerVars
  <2> QED  BY <1>0, <2>1 DEF SessionOK, New, Idle, Busy, Replied
<1>12. CASE HeartbeatSent
  <2>1. "main" \notin reading /\ "main" \notin reading'
    BY <1>12, LockFacts DEF HeartbeatSent, Answered, Broken, LockOK
  <2>2. UNCHANGED <<main, open, up, session>>
    BY <1>12 DEF HeartbeatSent
  <2> QED  BY <1>0, <2>1, <2>2 DEF SessionOK, New, Idle, Busy, Replied
<1> QED  BY <1>0, <1>1, <1>2, <1>4, <1>5, <1>6, <1>7, <1>9, <1>10, <1>11, <1>12,
            HandledRequest
         DEF ConnectionNext, MainStep, HeartbeatStep

(* Refinement: whatever breaks, raises or is cancelled, on each connection *)
(* the broker sees a worker register, then take one task at a time and     *)
(* report it before it asks for the next.                                  *)
THEOREM ConnectionImplementsCycle == ConnectionSpec => WorkerProtocol
<1>1. ConnectionInit => Cycle!CycleInit
  BY DEF ConnectionInit, Cycle!CycleInit
<1>2. ConnectionSpec => [](LockOK /\ WireOK /\ SessionOK)
  BY LockInit, SessionInit, LockStep, WireStep, SessionStep, PTL
     DEF ConnectionSpec
<1> QED  BY <1>1, <1>2, SessionStep, PTL
         DEF ConnectionSpec, WorkerProtocol, Cycle!CycleSpec

-----------------------------------------------------------------------------
(***************************************************************************)
(* For any number of deliveries and of broken connections, the broker gets *)
(* at most one report of a delivery.  The argument follows a report from   *)
(* the worker through the wire, or the socket of a broken connection, to   *)
(* the handler: it is in at most one of these places, and while it is, or  *)
(* has been, in one of them the worker cannot send another.                *)
(***************************************************************************)
IsReport(m, d) == m.command \in {"ACK", "NACK"} /\ m.of = d

(* A report of d is among the requests in s; and there is no second one.   *)
Has(s, d) == \E i \in DOMAIN s : IsReport(s[i], d)
Once(s, d) == \A i, j \in DOMAIN s : IsReport(s[i], d) /\ IsReport(s[j], d) => i = j

(* A report of d has been sent: r are the reports that the broker got.     *)
Sent(u, s, r, d) == r[d] # << >> \/ Has(s, d) \/ Has(u, d)

(* It was sent once.                                                       *)
Single(u, s, r, d) ==
  /\ Len(r[d]) <= 1
  /\ r[d] # << >> => ~Has(s, d) /\ ~Has(u, d)
  /\ Has(u, d) => ~Has(s, d)
  /\ Once(s, d)

(* Run may still write a report of d, now or when it has read the answer   *)
(* to its CONSUME.  A NACK after a failed ACK is no such report, since it  *)
(* is written to a connection known to be broken.                          *)
Unreported(d) ==
  \/ down # << >> /\ Head(down).of = d
  \/ /\ task = d
     /\ \/ main = "executing"
        \/ main = "ACK" /\ "main" \notin reading
        \/ main = "NACK" /\ "main" \notin reading /\ open

Tracked(d) ==
  /\ Single(up, stale, reports, d)
  /\ d > delivered => ~Sent(up, stale, reports, d)
  /\ Unreported(d) => ~Sent(up, stale, reports, d)

ReportOK ==
  /\ stale \in Seq(Message)
  /\ reports \in [1..MaxDeliveries -> Seq({"ACK", "NACK"})]
  /\ delivered \in 0..MaxDeliveries
  /\ task \in 0..delivered
  /\ down # << >> => Head(down).of \in 0..delivered
  /\ \A d \in 1..MaxDeliveries : Tracked(d)

-----------------------------------------------------------------------------
LEMMA HasNone == ASSUME NEW d  PROVE ~Has(<< >>, d)
  BY DEF Has

LEMMA HasOne ==
  ASSUME NEW m, NEW d
  PROVE  (Has(<<m>>, d) <=> IsReport(m, d)) /\ Once(<<m>>, d)
<1>1. DOMAIN <<m>> = {1} /\ <<m>>[1] = m
  BY SMT
<1> QED  BY <1>1, Zenon DEF Has, Once

LEMMA HasConcat ==
  ASSUME NEW S, NEW s \in Seq(S), NEW m \in S, NEW d
  PROVE  /\ s \o <<m>> \in Seq(S)
         /\ Has(s \o <<m>>, d) <=> Has(s, d) \/ IsReport(m, d)
         /\ Once(s, d) /\ ~(Has(s, d) /\ IsReport(m, d)) => Once(s \o <<m>>, d)
<1> DEFINE t == s \o <<m>>
<1>1. /\ t \in Seq(S) /\ Len(s) \in Nat /\ Len(t) = Len(s) + 1
      /\ DOMAIN s = 1..Len(s) /\ DOMAIN t = 1..(Len(s) + 1)
      /\ \A i \in 1..Len(s) : t[i] = s[i]
      /\ t[Len(s) + 1] = m
  BY SMT
<1> HIDE DEF t
<1>2. \A i \in DOMAIN t : i \in DOMAIN s \/ i = Len(s) + 1
  BY <1>1, SMT
<1>3. DOMAIN s \subseteq DOMAIN t /\ Len(s) + 1 \in DOMAIN t
  BY <1>1, SMT
<1>4. Has(t, d) <=> Has(s, d) \/ IsReport(m, d)
  BY <1>1, <1>2, <1>3, Zenon DEF Has
<1>5. Once(s, d) /\ ~(Has(s, d) /\ IsReport(m, d)) => Once(t, d)
  BY <1>1, <1>2, <1>3, Zenon DEF Has, Once
<1> QED  BY <1>1, <1>4, <1>5 DEF t

LEMMA HasTail ==
  ASSUME NEW S, NEW s \in Seq(S), s # << >>, NEW d
  PROVE  /\ Tail(s) \in Seq(S) /\ Head(s) \in S
         /\ Has(s, d) <=> IsReport(Head(s), d) \/ Has(Tail(s), d)
         /\ Once(s, d) => /\ Once(Tail(s), d)
                          /\ IsReport(Head(s), d) => ~Has(Tail(s), d)
<1> DEFINE t == Tail(s)
<1>1. /\ t \in Seq(S) /\ Head(s) \in S /\ Head(s) = s[1]
      /\ Len(s) \in Nat \ {0} /\ DOMAIN s = 1..Len(s)
      /\ DOMAIN t = 1..(Len(s) - 1)
      /\ \A i \in 1..(Len(s) - 1) : t[i] = s[i + 1]
  BY SMT
<1> HIDE DEF t
<1>2. 1 \in DOMAIN s
      /\ \A i \in DOMAIN t : i + 1 \in DOMAIN s /\ t[i] = s[i + 1] /\ i + 1 # 1
  BY <1>1, SMT
<1>3. \A i \in DOMAIN s : i = 1 \/ \E j \in DOMAIN t : i = j + 1
  <2> SUFFICES ASSUME NEW i \in DOMAIN s, i # 1
               PROVE  \E j \in DOMAIN t : i = j + 1
    OBVIOUS
  <2>1. i - 1 \in DOMAIN t /\ i = (i - 1) + 1
    BY <1>1, SMT
  <2> QED  BY <2>1
<1>4. \A i, j \in DOMAIN t : i + 1 = j + 1 => i = j
  BY <1>1, SMT
<1>5. Has(s, d) <=> IsReport(Head(s), d) \/ Has(t, d)
  BY <1>1, <1>2, <1>3, Zenon DEF Has
<1>6. Once(s, d) => Once(t, d)
  BY <1>1, <1>2, <1>4, Zenon DEF Once
<1>7. Once(s, d) /\ IsReport(Head(s), d) => ~Has(t, d)
  BY <1>1, <1>2, Zenon DEF Once, Has
<1> QED  BY <1>1, <1>5, <1>6, <1>7 DEF t

-----------------------------------------------------------------------------
LEMMA ReportInit == ConnectionInit => ReportOK
<1> SUFFICES ASSUME ConnectionInit  PROVE ReportOK
  OBVIOUS
<1>1. /\ stale = << >> /\ up = << >> /\ down = << >> /\ task = 0
      /\ delivered = 0 /\ reports = [d \in 1..MaxDeliveries |-> << >>]
      /\ main = "down"
  BY DEF ConnectionInit
<1>2. << >> \in Seq(Message) /\ << >> \in Seq({"ACK", "NACK"}) /\ Len(<< >>) = 0
  OBVIOUS
<1>3. ASSUME NEW d \in 1..MaxDeliveries  PROVE Tracked(d)
  <2>1. ~Has(up, d) /\ ~Has(stale, d) /\ reports[d] = << >> /\ Once(stale, d)
    BY <1>1, HasNone DEF Once
  <2> QED  BY <1>1, <1>2, <2>1 DEF Tracked, Single, Sent
<1>4. 0 \in 0..MaxDeliveries /\ 0 \in 0..0
  BY ConnectionAssumption, SMT
<1>5. reports \in [1..MaxDeliveries -> Seq({"ACK", "NACK"})]
  BY <1>1, <1>2
<1> QED  BY <1>1, <1>2, <1>3, <1>4, <1>5, Zenon DEF ReportOK

(* Nothing is written and nothing handled.                                 *)
LEMMA Shrink ==
  ASSUME ReportOK, up' = up \/ up' = << >>,
         UNCHANGED <<stale, reports, delivered>>,
         task' \in 0..delivered,
         down' # << >> => Head(down').of \in 0..delivered,
         \A d \in 1..MaxDeliveries : Unreported(d)' => Unreported(d)
  PROVE  ReportOK'
<1>1. ASSUME NEW d \in 1..MaxDeliveries  PROVE Tracked(d)'
  <2>1. Has(up', d) => Has(up, d)
    BY HasNone
  <2>2. Unreported(d)' => Unreported(d)
    OBVIOUS
  <2>3. Tracked(d)
    BY DEF ReportOK
  <2> QED  BY <2>1, <2>2, <2>3, Zenon DEF Tracked, Single, Sent
<1> QED  BY <1>1, Zenon DEF ReportOK

(* A connection ends, and what was on its way stays in the socket.         *)
LEMMA Moved ==
  ASSUME ReportOK, WireOK, up' = << >>, stale' = stale \o up,
         UNCHANGED <<reports, delivered>>,
         task' \in 0..delivered,
         down' # << >> => Head(down').of \in 0..delivered,
         \A d \in 1..MaxDeliveries : Unreported(d)' => Unreported(d)
  PROVE  ReportOK'
<1>1. CASE up = << >>
  <2>1. stale \o << >> = stale
    BY DEF ReportOK
  <2> QED  BY <1>1, <2>1, Shrink
<1>2. ASSUME NEW m \in Message, up = <<m>>  PROVE ReportOK'
  <2>1. ASSUME NEW d \in 1..MaxDeliveries  PROVE Tracked(d)'
    <3>1. /\ Has(stale', d) <=> Has(stale, d) \/ Has(up, d)
          /\ Once(stale, d) /\ ~(Has(stale, d) /\ Has(up, d)) => Once(stale', d)
      BY <1>2, HasConcat, HasOne DEF ReportOK
    <3>2. ~Has(up', d)
      BY HasNone
    <3>3. (Unreported(d)' => Unreported(d)) /\ Tracked(d)
      BY DEF ReportOK
    <3> QED  BY <3>1, <3>2, <3>3, Zenon DEF Tracked, Single, Sent
  <2>2. stale' \in Seq(Message)
    BY <1>2, HasConcat DEF ReportOK
  <2> QED  BY <2>1, <2>2, Zenon DEF ReportOK
<1> QED  BY <1>1, <1>2 DEF WireOK

(* What the broker knows after it handled request m.                       *)
LEMMA HandleEffect ==
  ASSUME ReportOK, NEW m \in Message, NEW e \in 0..MaxDeliveries, Handle(m, e)
  PROVE  /\ delivered' \in 0..MaxDeliveries /\ delivered <= delivered'
         /\ e \in 0..delivered'
         /\ e # 0 => e > delivered /\ ~IsReport(m, m.of)
         /\ reports' \in [1..MaxDeliveries -> Seq({"ACK", "NACK"})]
         /\ \A d \in 1..MaxDeliveries :
              IF IsReport(m, d) THEN reports'[d] = Append(reports[d], m.command)
              ELSE reports'[d] = reports[d]
<1> USE DEF ReportOK, IsReport
<1>1. CASE m.command \in {"REGISTER", "HEARTBEAT"} /\ e = 0
           /\ UNCHANGED <<delivered, reports>>
  BY <1>1, SMT
<1>2. CASE m.command = "CONSUME" /\ e = 0 /\ UNCHANGED <<delivered, reports>>
  BY <1>2, SMT
<1>3. CASE /\ m.command = "CONSUME" /\ e = delivered + 1 /\ e <= MaxDeliveries
           /\ delivered' = e
           /\ UNCHANGED reports
  BY <1>3, SMT
<1>4. CASE /\ m.command \in {"ACK", "NACK"} /\ e = 0
           /\ reports' = [reports EXCEPT ![m.of] = Append(@, m.command)]
           /\ UNCHANGED delivered
  <2>1. /\ delivered' \in 0..MaxDeliveries /\ delivered <= delivered'
        /\ e \in 0..delivered' /\ e = 0
    BY <1>4, SMT
  <2>2. m.command \in {"ACK", "NACK"}
    BY <1>4
  <2>3. ASSUME NEW d \in 1..MaxDeliveries
        PROVE  /\ reports[d] \in Seq({"ACK", "NACK"})
               /\ Append(reports[d], m.command) \in Seq({"ACK", "NACK"})
               /\ reports'[d] = IF d = m.of THEN Append(reports[d], m.command)
                                ELSE reports[d]
    <3>1. reports[d] \in Seq({"ACK", "NACK"})
      OBVIOUS
    <3>2. Append(reports[d], m.command) \in Seq({"ACK", "NACK"})
      BY <3>1, <2>2, AppendProperties
    <3>3. reports'[d] = IF d = m.of THEN Append(reports[d], m.command)
                        ELSE reports[d]
      BY <1>4, Zenon
    <3> QED  BY <3>1, <3>2, <3>3
  <2>4. reports' = [d \in 1..MaxDeliveries |-> reports'[d]]
    BY <1>4, Zenon
  <2>5. \A d \in 1..MaxDeliveries : reports'[d] \in Seq({"ACK", "NACK"})
    BY <2>3, Zenon
  <2>6. reports' \in [1..MaxDeliveries -> Seq({"ACK", "NACK"})]
    BY <2>4, <2>5, Zenon
  <2> QED  BY <2>1, <2>2, <2>3, <2>6, Zenon
<1> QED  BY <1>1, <1>2, <1>3, <1>4 DEF Handle

(* Request m, of the wire or of a socket, is handled.                      *)
LEMMA Handled ==
  ASSUME ReportOK, NEW m \in Message, NEW e \in 0..MaxDeliveries, Handle(m, e),
         \/ up = <<m>> /\ up' = << >> /\ stale' = stale
         \/ /\ up' = up
            /\ stale # << >> /\ m = Head(stale) /\ stale' = Tail(stale),
         task' = task,
         down' # << >> => Head(down').of \in 0..delivered \cup {e},
         \A d \in 1..MaxDeliveries : Unreported(d)' => Unreported(d) \/ d = e
  PROVE  ReportOK'
<1>1. /\ delivered' \in 0..MaxDeliveries /\ delivered <= delivered'
      /\ e \in 0..delivered'
      /\ e # 0 => e > delivered /\ ~IsReport(m, m.of)
      /\ reports' \in [1..MaxDeliveries -> Seq({"ACK", "NACK"})]
      /\ \A d \in 1..MaxDeliveries :
           IF IsReport(m, d) THEN reports'[d] = Append(reports[d], m.command)
           ELSE reports'[d] = reports[d]
  BY HandleEffect, Zenon
<1>2. stale' \in Seq(Message)
  BY HasTail, Zenon DEF ReportOK
<1>3. task' \in 0..delivered' /\ (down' # << >> => Head(down').of \in 0..delivered')
  BY <1>1, SMT DEF ReportOK
<1>4. ASSUME NEW d \in 1..MaxDeliveries  PROVE Tracked(d)'
  <2>1. /\ Has(up, d) \/ Has(stale, d) <=>
             IsReport(m, d) \/ Has(up', d) \/ Has(stale', d)
        /\ Has(up', d) => Has(up, d)
        /\ Has(stale', d) => Has(stale, d)
        /\ Once(stale, d) => Once(stale', d)
        /\ Single(up, stale, reports, d) /\ IsReport(m, d) =>
             ~Has(up', d) /\ ~Has(stale', d)
    <3>1. CASE up = <<m>> /\ up' = << >> /\ stale' = stale
      BY <3>1, HasOne, HasNone, Zenon DEF Single
    <3>2. CASE /\ up' = up
               /\ stale # << >> /\ m = Head(stale) /\ stale' = Tail(stale)
      <4>1. /\ Has(stale, d) <=> IsReport(m, d) \/ Has(stale', d)
            /\ Once(stale, d) => /\ Once(stale', d)
                                 /\ IsReport(m, d) => ~Has(stale', d)
        BY <3>2, HasTail DEF ReportOK
      <4> QED  BY <3>2, <4>1, Zenon DEF Single
    <3> QED  BY <3>1, <3>2
  <2>2. Tracked(d)
    BY DEF ReportOK
  <2>3. reports[d] \in Seq({"ACK", "NACK"})
    BY DEF ReportOK
  <2>4. d > delivered' => d > delivered
    BY <1>1, SMT DEF ReportOK
  <2>5. CASE IsReport(m, d)
    <3>1. Sent(up, stale, reports, d) /\ reports[d] = << >>
      BY <2>1, <2>2, <2>5, Zenon DEF Sent, Tracked, Single
    <3>2. ~Unreported(d) /\ ~(d > delivered) /\ m.of = d
      BY <2>2, <2>5, <3>1, Zenon DEF Tracked, IsReport
    <3>3. e = 0
      BY <1>1, <2>5, <3>2
    <3>4. ~Unreported(d)'
      <4>1. d # 0  BY SMT
      <4> QED  BY <3>2, <3>3, <4>1
    <3>5. Len(reports'[d]) = 1
      <4>1. reports'[d] = <<m.command>>
        BY <1>1, <2>5, <3>1, One
      <4> QED  BY <4>1
    <3> QED  BY <2>1, <2>2, <2>4, <2>5, <3>2, <3>4, <3>5
             DEF Tracked, Single
  <2>6. CASE ~IsReport(m, d)
    <3>1. reports'[d] = reports[d]
      BY <1>1, <2>6
    <3>2. Sent(up', stale', reports', d) => Sent(up, stale, reports, d)
      BY <2>1, <3>1, Zenon DEF Sent
    <3>3. Single(up', stale', reports', d)
      BY <2>1, <2>2, <3>1, Zenon DEF Tracked, Single
    <3>4. Unreported(d)' => Unreported(d) \/ d > delivered
      BY <1>1, SMT
    <3> QED  BY <2>2, <2>4, <3>2, <3>3, <3>4, Zenon DEF Tracked
  <2> QED  BY <2>5, <2>6
<1> QED  BY <1>1, <1>2, <1>3, <1>4, Zenon DEF ReportOK

-----------------------------------------------------------------------------
(* run and _heartbeat_loop: a request is written only to an open           *)
(* connection, and a report only if none of its delivery was sent.         *)
LEMMA ReportWritten ==
  ASSUME LockOK, WireOK, ReportOK, NEW c \in {"main", "hb"}, Write(c)
  PROVE  ReportOK'
<1>1. Head(lock) = c /\ reading = {} /\ main \notin {"closing", "failing"}
  BY LockFacts DEF Write, LockOK, Commands
<1>2. up = << >> /\ down = << >>
  BY <1>1 DEF WireOK, Owner
<1>3. /\ UNCHANGED <<main, task, open, down, stale, reports, delivered>>
      /\ up' = IF open THEN <<Request(c)>> ELSE << >>
      /\ reading' = {c}
  BY <1>1, <1>2, One DEF Write, brokerSide
<1>4. \A d \in 1..MaxDeliveries : Unreported(d)' => Unreported(d)
  BY <1>1, <1>3 DEF Unreported
<1>5. task \in 0..delivered /\ (down # << >> => Head(down).of \in 0..delivered)
  BY DEF ReportOK
<1>6. CASE ~open
  BY <1>3, <1>4, <1>5, <1>6, Shrink
<1>7. CASE open
  <2>1. ASSUME NEW d \in 1..MaxDeliveries  PROVE Tracked(d)'
    <3>1. (Has(up', d) <=> IsReport(Request(c), d)) /\ ~Has(up, d)
      BY <1>2, <1>3, <1>7, HasOne, HasNone
    <3>2. Tracked(d)
      BY DEF ReportOK
    <3>3. CASE IsReport(Request(c), d)
      <4>1. c = "main" /\ main \in {"ACK", "NACK"} /\ task = d
        BY <3>3 DEF IsReport, Request
      <4>2. Unreported(d)
        BY <1>1, <1>7, <4>1 DEF Unreported
      <4>3. ~Sent(up, stale, reports, d)
        BY <3>2, <4>2 DEF Tracked
      <4>4. ~Unreported(d)'
        BY <1>2, <1>3, <4>1 DEF Unreported
      <4>5. ~(d > delivered)
        BY <1>5, <4>1, SMT DEF ReportOK
      <4> QED  BY <1>3, <3>1, <3>2, <4>3, <4>4, <4>5, Zenon
               DEF Tracked, Single, Sent
    <3>4. CASE ~IsReport(Request(c), d)
      BY <1>3, <1>4, <3>1, <3>2, <3>4, Zenon DEF Tracked, Single, Sent
    <3> QED  BY <3>3, <3>4
  <2> QED  BY <1>3, <1>5, <2>1, Zenon DEF ReportOK
<1> QED  BY <1>6, <1>7

LEMMA ReportStep ==
  ASSUME LockOK, WireOK, ReportOK, [ConnectionNext]_connectionVars
  PROVE  ReportOK'
<1> USE DEF brokerSide, wireVars
<1>a. /\ 0 \in 0..delivered /\ task \in 0..delivered
      /\ down # << >> => Head(down).of \in 0..delivered
  BY SMT DEF ReportOK
<1>b. ASSUME NEW c \in {"main", "hb"}, Answered(c), main \notin {"closing", "failing"}
      PROVE  down # << >> /\ down' = << >>
  BY <1>b, One, Zenon DEF WireOK, Answered
<1>c. "main" \in reading => main \in Commands
  BY LockFacts DEF LockOK, Commands
<1>1. CASE Connect
  BY <1>1, <1>a, Shrink DEF Connect, Unreported
<1>2. ASSUME NEW c \in {"main", "hb"}, Write(c)  PROVE ReportOK'
  BY <1>2, ReportWritten
<1>3. CASE Registered
  BY <1>3, <1>a, <1>b, Shrink DEF Registered, Unreported
<1>4. CASE Consumed
  <2>1. /\ down # << >> /\ down' = << >> /\ task' = Head(down).of
        /\ main' \in {"paused", "executing"}
        /\ UNCHANGED <<up, stale, reports, delivered>>
    BY <1>4, <1>b DEF Consumed
  <2> QED  BY <2>1, <1>a, Shrink DEF Unreported
<1>5. CASE Executed
  <2>1. /\ main = "executing" /\ main' \in {"ACK", "NACK"}
        /\ UNCHANGED <<up, down, stale, reports, delivered, task>>
    BY <1>5 DEF Executed
  <2> QED  BY <2>1, <1>a, Shrink DEF Unreported
<1>6. CASE Reported
  <2>1. /\ down' = << >> /\ task' = 0 /\ main' = "paused"
        /\ UNCHANGED <<up, stale, reports, delivered>>
    BY <1>6, <1>b DEF Reported
  <2> QED  BY <2>1, <1>a, Shrink DEF Unreported
<1>7. CASE Looped
  <2>1. /\ main' \in {"CONSUME", "closing"}
        /\ UNCHANGED <<up, down, stale, reports, delivered, task>>
    BY <1>7 DEF Looped, Leave
  <2> QED  BY <2>1, <1>a, Shrink DEF Unreported
<1>8. CASE SendFails
  <2>1. /\ main' \in {"down", "NACK", "failing"} /\ ~open'
        /\ UNCHANGED <<up, down, stale, reports, delivered, task>>
    BY <1>8 DEF SendFails, Leave
  <2> QED  BY <2>1, <1>a, Shrink DEF Unreported
<1>9. CASE Cancelled
  <2>1. /\ main' = "closing"
        /\ UNCHANGED <<up, down, stale, reports, delivered, task>>
    BY <1>9 DEF Cancelled, Leave
  <2> QED  BY <2>1, <1>a, Shrink DEF Unreported
<1>10. CASE Closed
  <2>1. /\ main' \in {"ended", "down"} /\ down' = << >> /\ task' = 0
        /\ up' = << >> /\ stale' = stale \o up
        /\ UNCHANGED <<reports, delivered>>
    BY <1>10 DEF Closed, Abandon
  <2>2. \A d \in 1..MaxDeliveries : ~Unreported(d)'
    BY <2>1 DEF Unreported
  <2> QED  BY <2>1, <2>2, <1>a, Moved
<1>11. CASE Shutdown \/ HeartbeatDue \/ UNCHANGED connectionVars
  <2>1. UNCHANGED <<main, reading, open, up, down, stale, reports, delivered, task>>
    BY <1>11 DEF Shutdown, HeartbeatDue, connectionVars, workerVars
  <2> QED  BY <2>1, <1>a, Shrink DEF Unreported
<1>12. CASE HeartbeatSent
  <2>1. main \notin {"closing", "failing"} /\ "main" \notin reading
    BY <1>12, LockFacts DEF HeartbeatSent, Answered, Broken, LockOK
  <2>2. down' = << >> \/ down' = down
    BY <1>12, <1>b, <2>1 DEF HeartbeatSent, Broken
  <2>3. UNCHANGED <<main, open, up, stale, reports, delivered, task>>
    BY <1>12 DEF HeartbeatSent
  <2> QED  BY <2>1, <2>2, <2>3, <1>a, Shrink DEF Unreported
<1>13. CASE HandleRequest
  <2>1. PICK m \in Message : up = <<m>> /\ down = << >>
    BY <1>13, One DEF HandleRequest, WireOK
  <2>2. PICK e \in 0..MaxDeliveries :
          Handle(m, e) /\ down' = <<[from |-> m.from, of |-> e]>>
    BY <1>13, <2>1, One DEF HandleRequest
  <2>3. /\ up' = << >> /\ Head(down').of = e
        /\ UNCHANGED <<main, reading, open, task, stale>>
    BY <1>13, <2>1, <2>2, One DEF HandleRequest, workerVars
  <2>4. \A d \in 1..MaxDeliveries : Unreported(d)' => Unreported(d) \/ d = e
    BY <2>3 DEF Unreported
  <2> QED  BY <2>1, <2>2, <2>3, <2>4, Handled
<1>14. CASE HandlerRaises
  <2>1. PICK m \in Message : up = <<m>> /\ down = << >>
    BY <1>14, One DEF HandlerRaises, WireOK
  <2>2. PICK e \in 0..MaxDeliveries : Handle(m, e)
    BY <1>14, <2>1, One DEF HandlerRaises
  <2>3. /\ up' = << >> /\ stale' = stale \o << >> /\ ~open'
        /\ UNCHANGED <<main, reading, task, down>>
    BY <1>14 DEF HandlerRaises, Abandon, workerVars
  <2>4. stale' = stale
    BY <2>3 DEF ReportOK
  <2>5. \A d \in 1..MaxDeliveries : Unreported(d)' => Unreported(d)
    BY <2>3 DEF Unreported
  <2> QED  BY <2>1, <2>2, <2>3, <2>4, <2>5, Handled
<1>15. CASE HandleStale
  <2>1. stale # << >> /\ Head(stale) \in Message
    BY <1>15, HasTail DEF HandleStale, ReportOK
  <2>2. PICK e \in 0..MaxDeliveries : Handle(Head(stale), e)
    BY <1>15 DEF HandleStale
  <2>3. stale' = Tail(stale) /\ UNCHANGED <<main, reading, open, task, up, down>>
    BY <1>15 DEF HandleStale, workerVars
  <2>4. \A d \in 1..MaxDeliveries : Unreported(d)' => Unreported(d)
    BY <2>3 DEF Unreported
  <2> QED  BY <2>1, <2>2, <2>3, <2>4, <1>a, Handled
<1>16. CASE ConnectionBreaks
  <2>1. /\ up' = << >> /\ ~open' /\ down' \in {down, << >>}
        /\ UNCHANGED <<main, reading, task, reports, delivered>>
        /\ stale' = stale \o up \/ stale' = stale \o << >>
    BY <1>16 DEF ConnectionBreaks, Abandon, workerVars
  <2>2. stale \o << >> = stale
    BY DEF ReportOK
  <2>3. \A d \in 1..MaxDeliveries : Unreported(d)' => Unreported(d)
    BY <2>1 DEF Unreported
  <2>4. down' # << >> => Head(down').of \in 0..delivered
    BY <2>1, <1>a
  <2>5. CASE stale' = stale \o up
    BY <2>1, <2>3, <2>4, <2>5, <1>a, Moved
  <2>6. CASE stale' = stale
    BY <2>1, <2>3, <2>4, <2>6, <1>a, Shrink
  <2> QED  BY <2>1, <2>2, <2>5, <2>6
<1> QED  BY <1>1, <1>2, <1>3, <1>4, <1>5, <1>6, <1>7, <1>8, <1>9, <1>10,
            <1>11, <1>12, <1>13, <1>14, <1>15, <1>16
         DEF ConnectionNext, MainStep, HeartbeatStep

(* run: although a NACK follows a failed ACK, and a request that was in    *)
(* the socket of a broken connection may be handled at any later time, the *)
(* broker gets at most one report of each delivery.                        *)
THEOREM ConnectionReportsOnce == ConnectionSpec => []ReportedOnce
<1>1. ReportOK => ReportedOnce
  BY DEF ReportOK, ReportedOnce, Tracked, Single
<1> QED  BY <1>1, LockInit, LockStep, WireStep, ReportInit, ReportStep, PTL
         DEF ConnectionSpec

-----------------------------------------------------------------------------
(* What the type invariant says beyond the lock, the wire and the reports. *)
FlagsOK ==
  /\ running \in BOOLEAN /\ stopping \in BOOLEAN
  /\ breaks \in 0..MaxBreaks
  /\ main \in {"executing", "ACK", "NACK"} => task # 0

LEMMA FlagsInit == ConnectionInit => FlagsOK
<1>1. 0 \in 0..MaxBreaks
  BY ConnectionAssumption, SMT
<1> QED  BY <1>1, Zenon DEF ConnectionInit, FlagsOK

LEMMA FlagsStep ==
  ASSUME LockOK, FlagsOK, [ConnectionNext]_connectionVars
  PROVE  FlagsOK'
<1> USE DEF FlagsOK, wireVars
<1>1. CASE Connect  BY <1>1, Zenon DEF Connect
<1>2. ASSUME NEW c \in {"main", "hb"}, Write(c)  PROVE FlagsOK'
  BY <1>2 DEF Write
<1>3. CASE Registered  BY <1>3 DEF Registered
<1>4. CASE Consumed  BY <1>4 DEF Consumed
<1>5. CASE Executed  BY <1>5 DEF Executed
<1>6. CASE Reported  BY <1>6 DEF Reported
<1>7. CASE Looped  BY <1>7, Zenon DEF Looped, Leave
<1>8. CASE SendFails  BY <1>8, Zenon DEF SendFails, Leave
<1>9. CASE Cancelled  BY <1>9, Zenon DEF Cancelled, Leave
<1>10. CASE Closed  BY <1>10 DEF Closed
<1>11. CASE Shutdown  BY <1>11, Zenon DEF Shutdown
<1>12. CASE HeartbeatDue \/ HeartbeatSent
  BY <1>12 DEF HeartbeatDue, HeartbeatSent
<1>13. CASE \/ UNCHANGED connectionVars \/ HandleRequest \/ HandleStale
  BY <1>13 DEF connectionVars, workerVars, HandleRequest, HandleStale
<1>14. CASE HandlerRaises \/ ConnectionBreaks
  <2>1. breaks' \in 0..MaxBreaks
    BY <1>14, ConnectionAssumption, SMT DEF HandlerRaises, ConnectionBreaks
  <2> QED  BY <1>14, <2>1 DEF HandlerRaises, ConnectionBreaks, workerVars
<1> QED  BY <1>1, <1>2, <1>3, <1>4, <1>5, <1>6, <1>7, <1>8, <1>9, <1>10,
            <1>11, <1>12, <1>13, <1>14
         DEF ConnectionNext, MainStep, HeartbeatStep

LEMMA ConnectionTypes ==
  LockOK /\ WireOK /\ ReportOK /\ FlagsOK => ConnectionTypeOK
<1> SUFFICES ASSUME LockOK, WireOK, ReportOK, FlagsOK PROVE ConnectionTypeOK
  OBVIOUS
<1>1. /\ \A i \in DOMAIN up : up[i] \in Message
      /\ Len(up) + Len(down) <= 1
  <2>0. Len(<< >>) = 0 /\ DOMAIN << >> = {}
    OBVIOUS
  <2>1. \A m : Len(<<m>>) = 1 /\ DOMAIN <<m>> = {1} /\ <<m>>[1] = m
    BY SMT
  <2>2. CASE up = << >> /\ down = << >>
    BY <2>0, <2>2, SMT
  <2>3. ASSUME NEW m \in Message, up = <<m>>, down = << >>
        PROVE  /\ \A i \in DOMAIN up : up[i] \in Message
               /\ Len(up) + Len(down) <= 1
    BY <2>0, <2>1, <2>3, SMT
  <2>4. ASSUME NEW m, up = << >>, down = <<m>>
        PROVE  /\ \A i \in DOMAIN up : up[i] \in Message
               /\ Len(up) + Len(down) <= 1
    BY <2>0, <2>1, <2>4, SMT
  <2> QED  BY <2>2, <2>3, <2>4 DEF WireOK
<1>2. \A i \in DOMAIN stale : stale[i] \in Message
  BY ElementOfSeq, LenProperties DEF ReportOK
<1> QED  BY <1>1, <1>2 DEF LockOK, WireOK, ReportOK, FlagsOK, ConnectionTypeOK

(* The two coroutines of a worker have at most one request or answer on    *)
(* the wire between them, and report only what they were handed.           *)
THEOREM ConnectionTypeCorrect == ConnectionSpec => []ConnectionTypeOK
BY ConnectionTypes, LockInit, LockStep, WireStep, ReportInit, ReportStep,
   FlagsInit, FlagsStep, PTL
   DEF ConnectionSpec

=============================================================================
