------------------------- MODULE QueueLedgerProofs -------------------------
(***************************************************************************)
(* The QueueManager implements TaskLedger and hands out fresh tasks in the *)
(* order of their creation, for any set of queues and workers, any number  *)
(* of tasks and any retry budget. Every method call is one step of the     *)
(* ledger, or none: the invariant of QueueManagerProofs says that a        *)
(* container holds the tasks with the status it stands for, so the guards  *)
(* of the methods, which ask the containers, are guards on the ledger.     *)
(***************************************************************************)
EXTENDS QueueManagerProofs, QueueLedger

(* The entry of a task in the ledger, from its object and the id counter.  *)
Entry(f, n, t) == IF f[t].status # "none" THEN f[t].status
                  ELSE IF t < n THEN "gone" ELSE "new"

LEMMA LedgerEntries ==
  /\ LedgerOfTasks = [t \in TaskId |-> Entry(task, nextId, t)]
  /\ LedgerOfTasks' = [t \in TaskId |-> Entry(task', nextId', t)]
  BY DEF LedgerOfTasks, Entry

(* A method that changes the entries of the tasks in S alone.              *)
LEMMA MoveOf ==
  ASSUME NEW S \in SUBSET TaskId, NEW from, NEW to,
         \A t \in S : Entry(task, nextId, t) = from /\ Entry(task', nextId', t) = to,
         \A t \in TaskId \ S : Entry(task', nextId', t) = Entry(task, nextId, t)
  PROVE  Ledger!Move(S, from, to)
<1>1. \A p \in S : LedgerOfTasks[p] = from
  BY LedgerEntries
<1>2. LedgerOfTasks' = [p \in TaskId |-> IF p \in S THEN to ELSE LedgerOfTasks[p]]
  BY LedgerEntries
<1> QED BY <1>1, <1>2 DEF Ledger!Move

(* The same, when the status of one Task object changes.                   *)
LEMMA MoveOne ==
  ASSUME NEW t \in TaskId, NEW from, NEW to, nextId' = nextId,
         from # "none", to # "none",
         task[t].status = from, task'[t].status = to,
         \A u \in TaskId \ {t} : task'[u] = task[u]
  PROVE  Ledger!Move({t}, from, to)
<1>1. Entry(task, nextId, t) = from /\ Entry(task', nextId', t) = to
  BY DEF Entry
<1>2. \A u \in TaskId \ {t} : Entry(task', nextId', u) = Entry(task, nextId, u)
  BY DEF Entry
<1> QED BY <1>1, <1>2, MoveOf

(* No method call but those below changes the ledger.                      *)
LEMMA SameLedger ==
  ASSUME UNCHANGED <<task, nextId>>
  PROVE  LedgerOfTasks' = LedgerOfTasks
  BY DEF LedgerOfTasks

-----------------------------------------------------------------------------
LEMMA EnqueueSubmits ==
  ASSUME QMInd, NEW q \in Queues, Enqueue(q, nextId)
  PROVE  Ledger!LedgerNext
<1> USE TypesAssumption
<1>1. /\ nextId \in TaskId /\ nextId' = nextId + 1
      /\ task[nextId] = NoTask
  BY DEF Enqueue, QMInd, ObjectsOK, TaskId
<1>2. /\ task'[nextId].status = "pending"
      /\ \A u \in TaskId \ {nextId} : task'[u] = task[u]
  BY <1>1 DEF Enqueue, QMInd, ObjectsOK, NewTask
<1>3. Entry(task, nextId, nextId) = "new" /\ Entry(task', nextId', nextId) = "pending"
  BY <1>1, <1>2 DEF Entry, NoTask, TaskId
<1>4. \A u \in TaskId \ {nextId} :
        Entry(task', nextId', u) = Entry(task, nextId, u)
  BY <1>1, <1>2 DEF Entry, TaskId
<1>5. Ledger!Move({nextId}, "new", "pending")
  BY <1>1, <1>3, <1>4, MoveOf
<1> QED BY <1>1, <1>5 DEF Ledger!LedgerNext, Ledger!Submit

LEMMA PopLeftClaims ==
  ASSUME QMInd, NEW q \in Queues, NEW w \in Workers, PopLeft(q, w)
  PROVE  Ledger!LedgerNext
<1> USE TypesAssumption
<1> DEFINE t == Head(queues[q])
<1>1. t \in Pending(task, q)
  BY ListsTail, Zenon DEF PopLeft, QMInd, Placed
<1>2. t \in TaskId /\ task[t].status = "pending" /\ task[t] \in Task
  BY <1>1 DEF Pending, QMInd, ObjectsOK, NoTask
<1>3. task'[t].status = "in_flight" /\ \A u \in TaskId \ {t} : task'[u] = task[u]
  <2> DEFINE new == [task[t] EXCEPT !.status = "in_flight",
                                    !.assigned_worker = w,
                                    !.attempts = task[t].attempts + 1]
  <2>1. new.status = "in_flight"
    BY <1>2 DEF Task
  <2>2. task' = [task EXCEPT ![t] = new]
    BY DEF PopLeft
  <2> HIDE DEF new
  <2> QED BY <1>2, <2>1, <2>2 DEF QMInd, ObjectsOK
<1>4. nextId' = nextId
  BY DEF PopLeft
<1> HIDE DEF t
<1>5. Ledger!Move({t}, "pending", "in_flight")
  BY <1>2, <1>3, <1>4, MoveOne
<1> QED BY <1>2, <1>5, Zenon DEF Ledger!LedgerNext, Ledger!Claim

LEMMA AcknowledgeCompletes ==
  ASSUME QMInd, NEW t \in TaskId, Acknowledge(t)
  PROVE  Ledger!LedgerNext
<1>1. task[t].status = "in_flight" /\ task[t] \in Task
  BY DEF Acknowledge, QMInd, ObjectsOK, Placed, Having, NoTask
<1>2. task'[t].status = "done" /\ \A u \in TaskId \ {t} : task'[u] = task[u]
  BY <1>1 DEF Acknowledge, QMInd, ObjectsOK, Task
<1>3. Ledger!Move({t}, "in_flight", "done")
  BY <1>1, <1>2, MoveOne DEF Acknowledge
<1> QED BY <1>3 DEF Ledger!LedgerNext, Ledger!Complete

LEMMA ToFrontReturns ==
  ASSUME QMInd, NEW t \in in_flight, ToFront(t), nextId' = nextId
  PROVE  Ledger!LedgerNext
<1>1. t \in TaskId /\ task[t].status = "in_flight" /\ task[t] \in Task
  BY DEF QMInd, ObjectsOK, Placed, Having, NoTask
<1>2. task'[t].status = "pending" /\ \A u \in TaskId \ {t} : task'[u] = task[u]
  BY <1>1 DEF ToFront, QMInd, ObjectsOK, Task
<1>3. Ledger!Move({t}, "in_flight", "pending")
  BY <1>1, <1>2, MoveOne
<1>4. {t} \in SUBSET TaskId
  BY <1>1
<1> QED BY <1>3, <1>4 DEF Ledger!LedgerNext, Ledger!Return

LEMMA NegativeAcknowledgeSettles ==
  ASSUME QMInd, NEW t \in TaskId, NegativeAcknowledge(t)
  PROVE  Ledger!LedgerNext
<1>1. CASE ~Exhausted(t)
  BY <1>1, ToFrontReturns DEF NegativeAcknowledge
<1>2. CASE Exhausted(t)
  <2>1. task[t].status = "in_flight" /\ task[t] \in Task
    BY DEF NegativeAcknowledge, QMInd, ObjectsOK, Placed, Having, NoTask
  <2>2. task'[t].status = "dead_lettered" /\ \A u \in TaskId \ {t} : task'[u] = task[u]
    BY <1>2, <2>1 DEF NegativeAcknowledge, QMInd, ObjectsOK, Task
  <2>3. Ledger!Move({t}, "in_flight", "dead_lettered")
    BY <2>1, <2>2, MoveOne DEF NegativeAcknowledge
  <2> QED BY <2>3 DEF Ledger!LedgerNext, Ledger!Bury
<1> QED BY <1>1, <1>2

LEMMA RequeueEachReturns ==
  ASSUME QMInd, NEW S, RequeueEach(S)
  PROVE  Ledger!LedgerNext
<1> DEFINE found == S \cap in_flight
<1>1. \A t \in found : t \in TaskId /\ task[t].status = "in_flight" /\ task[t] \in Task
  BY DEF QMInd, ObjectsOK, Placed, Having, NoTask
<1>2. /\ \A t \in found : task'[t].status = "pending"
      /\ \A t \in TaskId \ found : task'[t] = task[t]
      /\ nextId' = nextId
  BY <1>1, Zenon DEF RequeueEach, Task
<1>3. found \in SUBSET TaskId
  BY <1>1
<1> HIDE DEF found
<1>4. /\ \A t \in found : /\ Entry(task, nextId, t) = "in_flight"
                          /\ Entry(task', nextId', t) = "pending"
      /\ \A t \in TaskId \ found : Entry(task', nextId', t) = Entry(task, nextId, t)
  BY <1>1, <1>2 DEF Entry
<1>5. Ledger!Move(found, "in_flight", "pending")
  BY <1>3, <1>4, MoveOf
<1> QED BY <1>3, <1>5 DEF Ledger!LedgerNext, Ledger!Return

(* Dead letters dropped with their Task objects.                           *)
LEMMA DropDiscards ==
  ASSUME QMInd, NEW S, S \subseteq Range(dlq), nextId' = nextId,
         task' = [t \in TaskId |-> IF t \in S THEN NoTask ELSE task[t]]
  PROVE  Ledger!LedgerNext
<1> USE TypesAssumption
<1>1. \A t \in S : t \in TaskId /\ task[t].status = "dead_lettered"
  BY DEF QMInd, Placed, Lists, Having
<1>2. \A t \in S : t < nextId
  BY <1>1 DEF QMInd, ObjectsOK, NoTask, TaskId
<1>3. /\ \A t \in S : task'[t].status = "none"
      /\ \A t \in TaskId \ S : task'[t] = task[t]
  BY <1>1 DEF NoTask
<1>4. /\ \A t \in S : /\ Entry(task, nextId, t) = "dead_lettered"
                      /\ Entry(task', nextId', t) = "gone"
      /\ \A t \in TaskId \ S : Entry(task', nextId', t) = Entry(task, nextId, t)
  BY <1>1, <1>2, <1>3 DEF Entry
<1>5. S \in SUBSET TaskId
  BY <1>1
<1>6. Ledger!Move(S, "dead_lettered", "gone")
  BY <1>4, <1>5, MoveOf
<1> QED BY <1>5, <1>6 DEF Ledger!LedgerNext, Ledger!Discard

LEMMA DlqRetryRevives ==
  ASSUME QMInd, NEW t \in TaskId, DlqRetry(t)
  PROVE  Ledger!LedgerNext
<1>1. task[t].status = "dead_lettered" /\ task[t] \in Task
  BY DEF DlqRetry, QMInd, ObjectsOK, Placed, Lists, Having, NoTask
<1>2. task'[t].status = "pending" /\ \A u \in TaskId \ {t} : task'[u] = task[u]
  <2> DEFINE new == [task[t] EXCEPT !.status = "pending", !.attempts = 0,
                                    !.assigned_worker = None]
  <2>1. new.status = "pending"
    BY <1>1 DEF Task
  <2>2. task' = [task EXCEPT ![t] = new]
    BY DEF DlqRetry
  <2> HIDE DEF new
  <2> QED BY <2>1, <2>2 DEF QMInd, ObjectsOK
<1>3. Ledger!Move({t}, "dead_lettered", "pending")
  BY <1>1, <1>2, MoveOne, Zenon DEF DlqRetry
<1>4. {t} \in SUBSET TaskId
  OBVIOUS
<1> QED BY <1>3, <1>4 DEF Ledger!LedgerNext, Ledger!Revive

LEMMA DlqRetryAllRevives ==
  ASSUME QMInd, DlqRetryAll
  PROVE  Ledger!LedgerNext
<1> DEFINE S == Range(dlq)
<1>1. \A t \in S : t \in TaskId /\ task[t].status = "dead_lettered" /\ task[t] \in Task
  BY DEF QMInd, ObjectsOK, Placed, Lists, Having, NoTask
<1>2. /\ \A t \in S : task'[t].status = "pending"
      /\ \A t \in TaskId \ S : task'[t] = task[t]
      /\ nextId' = nextId
  BY <1>1, Zenon DEF DlqRetryAll, Task
<1>3. S \in SUBSET TaskId
  BY <1>1
<1> HIDE DEF S
<1>4. /\ \A t \in S : /\ Entry(task, nextId, t) = "dead_lettered"
                      /\ Entry(task', nextId', t) = "pending"
      /\ \A t \in TaskId \ S : Entry(task', nextId', t) = Entry(task, nextId, t)
  BY <1>1, <1>2 DEF Entry
<1>5. Ledger!Move(S, "dead_lettered", "pending")
  BY <1>3, <1>4, MoveOf
<1> QED BY <1>3, <1>5 DEF Ledger!LedgerNext, Ledger!Revive

LEMMA ResetClears ==
  ASSUME QMInd, Reset
  PROVE  Ledger!LedgerNext
<1> USE TypesAssumption
<1>1. \A t \in TaskId : task'[t].status = "none" /\ nextId' = nextId
  BY DEF Reset, NoTask
<1>2. \A t \in TaskId : Entry(task', nextId', t) =
                          IF Entry(task, nextId, t) = "new" THEN "new" ELSE "gone"
  <2> SUFFICES ASSUME NEW t \in TaskId
               PROVE  Entry(task', nextId', t) =
                        IF Entry(task, nextId, t) = "new" THEN "new" ELSE "gone"
    OBVIOUS
  <2>1. task[t].status # "none" => t < nextId /\ task[t].status # "new"
    BY DEF QMInd, ObjectsOK, NoTask, Task, TaskId
  <2> QED BY <1>1, <2>1 DEF Entry
<1>3. Ledger!Clear
  BY <1>2, LedgerEntries DEF Ledger!Clear
<1> QED BY <1>3 DEF Ledger!LedgerNext

(* A recovered task is pending, and all other ids are new.                 *)
LEMMA InitLedger == QMInit => Ledger!LedgerInit
<1> USE TypesAssumption
<1> SUFFICES ASSUME QMInit PROVE Ledger!LedgerInit
  OBVIOUS
<1>1. PICK n \in 0..MaxTasks :
        /\ nextId = n + 1
        /\ \E rows \in [1..n -> [queue_name : Queues, payload : {0},
                                 attempts : 0..MaxRetries]] :
             Recovered([t \in 1..n |-> [rows[t] EXCEPT !.payload = t]],
                       queues, created, task)
  BY Zenon DEF QMInit
<1>2. \A t \in TaskId : task[t].status = IF t \in 1..n THEN "pending" ELSE "none"
  BY <1>1 DEF Recovered, NewTask, NoTask
<1>3. \A t \in TaskId : Entry(task, nextId, t) \in {"new", "pending"}
  BY <1>1, <1>2 DEF Entry, TaskId
<1> QED BY <1>3, LedgerEntries DEF Ledger!LedgerInit

LEMMA NextLedger ==
  ASSUME QMInd, [QMNext]_qmVars
  PROVE  [Ledger!LedgerNext]_LedgerOfTasks
<1>1. ASSUME NEW q \in Queues, DequeueEmpty(q) PROVE LedgerOfTasks' = LedgerOfTasks
  BY <1>1, SameLedger DEF DequeueEmpty
<1>2. ASSUME NEW S, DlqRemove(S) PROVE Ledger!LedgerNext
  BY <1>2, DropDiscards DEF DlqRemove
<1>3. CASE DlqPurge
  BY <1>3, DropDiscards DEF DlqPurge
<1>4. ASSUME NEW w \in Workers, DequeueAny(w) PROVE Ledger!LedgerNext
  <2>1. PICK i \in DOMAIN created : PopLeft(created[i], w)
    BY <1>4 DEF DequeueAny
  <2>2. created[i] \in Queues
    BY <2>1, ElementOfSeq DEF QMInd, ObjectsOK
  <2> QED BY <2>1, <2>2, PopLeftClaims
<1>5. ASSUME NEW t \in TaskId, RequeueById(t) PROVE Ledger!LedgerNext
  BY <1>5, ToFrontReturns DEF RequeueById
<1>6. CASE UNCHANGED qmVars
  BY <1>6, SameLedger DEF qmVars
<1> QED BY <1>1, <1>2, <1>3, <1>4, <1>5, <1>6, EnqueueSubmits, PopLeftClaims,
           AcknowledgeCompletes, NegativeAcknowledgeSettles, RequeueEachReturns,
           DlqRetryRevives, DlqRetryAllRevives, ResetClears, Zenon
        DEF QMNext, Dequeue, DlqPurgeQueue

(* Refinement: the QueueManager implements the ledger of tasks.  Whatever  *)
(* methods are called, in whatever order, a task is never lost, never      *)
(* runs again once done, and only moves as the ledger allows.              *)
THEOREM QMImplementsLedger == QMSpec => TaskLifecycle
BY InitInd, NextInd, InitLedger, NextLedger, PTL
   DEF QMSpec, TaskLifecycle, Ledger!LedgerSpec

-----------------------------------------------------------------------------
(***************************************************************************)
(* Dispatch is first-in first-out.  FreshTasksInOrder alone is not         *)
(* inductive: it has to be known that what is put back at the front was    *)
(* handed out before, and what a replay puts at the back was dead-lettered *)
(* before, so that neither is fresh.                                       *)
(***************************************************************************)
Fresh(f, t) == f[t].attempts = 0 /\ ~f[t].dead_lettered_at

Ordered(f, s) ==
  \A i, j \in DOMAIN s : i < j /\ Fresh(f, s[i]) /\ Fresh(f, s[j]) => s[i] < s[j]

Used ==
  \A t \in TaskId : /\ task[t].status = "in_flight" => task[t].attempts # 0
                    /\ task[t].status = "dead_lettered" => task[t].dead_lettered_at

InOrderInd == Used /\ \A q \in Queues : Ordered(task, queues[q])

LEMMA OrderFresh == InOrderInd => FreshTasksInOrder
BY DEF InOrderInd, Ordered, Fresh, FreshTasksInOrder

(* The order stays when no member becomes fresh.                           *)
LEMMA OrderedKept ==
  ASSUME NEW f, NEW g, NEW s, NEW S, Lists(s, S), Ordered(f, s),
         \A t \in S : Fresh(g, t) => Fresh(f, t)
  PROVE  Ordered(g, s)
<1>1. \A i \in DOMAIN s : s[i] \in S
  BY DEF Lists, Range
<1> QED BY <1>1 DEF Ordered

(* Two lists of which one has no fresh member.                             *)
LEMMA OrderedConcat ==
  ASSUME NEW g, NEW s, NEW S, NEW r, NEW R, Lists(s, S), Lists(r, R),
         Ordered(g, s), Ordered(g, r),
         (\A t \in S : ~Fresh(g, t)) \/ (\A t \in R : ~Fresh(g, t))
  PROVE  Ordered(g, s \o r)
<1> DEFINE U == S \cup R
<1>1. s \in Seq(U) /\ r \in Seq(U)
  BY SeqMonotonic DEF Lists
<1>2. /\ Len(s) \in Nat /\ Len(r) \in Nat
      /\ DOMAIN s = 1..Len(s) /\ DOMAIN r = 1..Len(r)
      /\ DOMAIN (s \o r) = 1..(Len(s) + Len(r))
      /\ \A i \in 1..(Len(s) + Len(r)) :
           (s \o r)[i] = IF i <= Len(s) THEN s[i] ELSE r[i - Len(s)]
  BY <1>1, LenProperties, ConcatProperties
<1>3. (\A i \in 1..Len(s) : s[i] \in S) /\ (\A i \in 1..Len(r) : r[i] \in R)
  BY <1>2 DEF Lists, Range
<1> SUFFICES ASSUME NEW i \in 1..(Len(s) + Len(r)), NEW j \in 1..(Len(s) + Len(r)),
                    i < j, Fresh(g, (s \o r)[i]), Fresh(g, (s \o r)[j])
             PROVE  (s \o r)[i] < (s \o r)[j]
  BY <1>2 DEF Ordered
<1>4. CASE j <= Len(s)
  BY <1>2, <1>4 DEF Ordered
<1>5. CASE i > Len(s)
  <2>1. /\ i - Len(s) \in 1..Len(r) /\ j - Len(s) \in 1..Len(r)
        /\ i - Len(s) < j - Len(s)
    BY <1>2, <1>5
  <2> QED BY <1>2, <1>5, <2>1 DEF Ordered
<1>6. CASE i <= Len(s) /\ ~(j <= Len(s))
  <2>1. i \in 1..Len(s) /\ j - Len(s) \in 1..Len(r)
    BY <1>2, <1>6
  <2> QED BY <1>2, <1>3, <1>6, <2>1
<1> QED BY <1>2, <1>4, <1>5, <1>6

(* A list without fresh members is in order.                               *)
LEMMA OrderedUsed ==
  ASSUME NEW g, NEW s, NEW S, Lists(s, S), \A t \in S : ~Fresh(g, t)
  PROVE  Ordered(g, s)
<1>1. \A i \in DOMAIN s : s[i] \in S
  BY DEF Lists, Range
<1> QED BY <1>1 DEF Ordered

(* A new task at the back.                                                 *)
LEMMA OrderedAppend ==
  ASSUME NEW g, NEW s, NEW S, Lists(s, S), Ordered(g, s), NEW e,
         \A t \in S : t < e
  PROVE  Ordered(g, Append(s, e))
<1>1. s \in Seq(S \cup {e})
  BY SeqMonotonic DEF Lists
<1>2. /\ Len(s) \in Nat /\ DOMAIN s = 1..Len(s)
      /\ DOMAIN Append(s, e) = 1..(Len(s) + 1)
      /\ \A i \in 1..Len(s) : Append(s, e)[i] = s[i]
      /\ Append(s, e)[Len(s) + 1] = e
  BY <1>1, LenProperties, AppendProperties
<1>3. \A i \in 1..Len(s) : s[i] \in S
  BY <1>2 DEF Lists, Range
<1> SUFFICES ASSUME NEW i \in 1..(Len(s) + 1), NEW j \in 1..(Len(s) + 1),
                    i < j, Fresh(g, Append(s, e)[i]), Fresh(g, Append(s, e)[j])
             PROVE  Append(s, e)[i] < Append(s, e)[j]
  BY <1>2 DEF Ordered
<1>4. i \in 1..Len(s)
  BY <1>2
<1>5. CASE j = Len(s) + 1
  BY <1>2, <1>3, <1>4, <1>5
<1>6. CASE j # Len(s) + 1
  <2>1. j \in 1..Len(s)
    BY <1>2, <1>6
  <2> QED BY <1>2, <1>4, <2>1 DEF Ordered
<1> QED BY <1>5, <1>6

(* The head leaves.                                                        *)
LEMMA OrderedTail ==
  ASSUME NEW g, NEW s, NEW S, Lists(s, S), s # << >>, Ordered(g, s)
  PROVE  Ordered(g, Tail(s))
<1>1. /\ Len(s) \in Nat \ {0}
      /\ DOMAIN s = 1..Len(s)
      /\ DOMAIN Tail(s) = 1..(Len(s) - 1)
      /\ \A i \in 1..(Len(s) - 1) : Tail(s)[i] = s[i + 1]
  BY EmptySeq, LenProperties, HeadTailProperties DEF Lists
<1> SUFFICES ASSUME NEW i \in 1..(Len(s) - 1), NEW j \in 1..(Len(s) - 1),
                    i < j, Fresh(g, Tail(s)[i]), Fresh(g, Tail(s)[j])
             PROVE  Tail(s)[i] < Tail(s)[j]
  BY <1>1 DEF Ordered
<1>2. i + 1 \in 1..Len(s) /\ j + 1 \in 1..Len(s) /\ i + 1 < j + 1
  BY <1>1
<1> QED BY <1>1, <1>2 DEF Ordered


(* A method that leaves the queues alone and makes no task fresh.          *)
LEMMA OrderSame ==
  ASSUME QMInd, InOrderInd, Used', queues' = queues,
         \A q \in Queues : \A t \in Pending(task, q) : task'[t] = task[t]
  PROVE  InOrderInd'
<1>1. ASSUME NEW q \in Queues PROVE Ordered(task', queues[q])
  <2>1. Lists(queues[q], Pending(task, q)) /\ Ordered(task, queues[q])
    BY DEF QMInd, Placed, InOrderInd
  <2>2. \A t \in Pending(task, q) : Fresh(task', t) => Fresh(task, t)
    BY DEF Fresh
  <2> QED BY <2>1, <2>2, OrderedKept
<1> QED BY <1>1 DEF InOrderInd

(* Tasks that are not fresh are put before or after the pending ones.      *)
LEMMA OrderMoved ==
  ASSUME QMInd, InOrderInd, Used', NEW moved, NEW M,
         \A q \in Queues :
           /\ Lists(moved[q], M[q])
           /\ \A t \in M[q] : ~Fresh(task', t)
           /\ \A t \in Pending(task, q) : task'[t] = task[t]
           /\ queues'[q] \in {moved[q] \o queues[q], queues[q] \o moved[q]}
  PROVE  InOrderInd'
<1>1. ASSUME NEW q \in Queues PROVE Ordered(task', queues'[q])
  <2>1. Lists(queues[q], Pending(task, q)) /\ Ordered(task, queues[q])
    BY DEF QMInd, Placed, InOrderInd
  <2>2. \A t \in Pending(task, q) : Fresh(task', t) => Fresh(task, t)
    BY Zenon DEF Fresh
  <2>3. Ordered(task', queues[q])
    BY <2>1, <2>2, OrderedKept
  <2>4. Lists(moved[q], M[q]) /\ \A t \in M[q] : ~Fresh(task', t)
    BY Zenon
  <2>5. Ordered(task', moved[q])
    BY <2>4, OrderedUsed
  <2>6. Ordered(task', moved[q] \o queues[q]) /\ Ordered(task', queues[q] \o moved[q])
    BY <2>1, <2>3, <2>4, <2>5, OrderedConcat
  <2> QED BY <2>6, Zenon
<1> QED BY <1>1 DEF InOrderInd

(* enqueue: ids grow, so the new task is the youngest.                     *)
LEMMA EnqueueOrder ==
  ASSUME QMInd, InOrderInd, NEW q \in Queues, NEW p, Enqueue(q, p)
  PROVE  InOrderInd'
<1> USE TypesAssumption
<1>1. nextId \in TaskId /\ task \in [TaskId -> Task \cup {NoTask}] /\ task[nextId] = NoTask
  BY DEF Enqueue, QMInd, ObjectsOK, TaskId
<1>2. /\ task'[nextId].status = "pending"
      /\ \A u \in TaskId \ {nextId} : task'[u] = task[u]
  BY <1>1, NewTaskFields DEF Enqueue
<1>3. Used'
  BY <1>2 DEF InOrderInd, Used
<1>4. ASSUME NEW r \in Queues PROVE Ordered(task', queues'[r])
  <2>1. Lists(queues[r], Pending(task, r)) /\ Ordered(task, queues[r])
    BY DEF QMInd, Placed, InOrderInd
  <2>2. \A t \in Pending(task, r) : t < nextId /\ task'[t] = task[t]
    BY <1>1, <1>2 DEF QMInd, ObjectsOK, Pending, NoTask, TaskId
  <2>3. Ordered(task', queues[r])
    BY <2>1, <2>2, OrderedKept DEF Fresh
  <2>4. Ordered(task', Append(queues[r], nextId))
    BY <2>1, <2>2, <2>3, OrderedAppend
  <2>5. queues'[r] \in {queues[r], Append(queues[r], nextId)}
    BY DEF Enqueue, QMInd, Placed
  <2> QED BY <2>3, <2>4, <2>5, Zenon
<1> QED BY <1>3, <1>4 DEF InOrderInd

(* dequeue: what it hands out counts an attempt from then on.              *)
LEMMA PopLeftOrder ==
  ASSUME QMInd, InOrderInd, NEW q \in Queues, NEW w \in Workers, PopLeft(q, w)
  PROVE  InOrderInd'
<1> USE TypesAssumption
<1> DEFINE t == Head(queues[q])
<1>1. t \in Pending(task, q) /\ Lists(Tail(queues[q]), Pending(task, q) \ {t})
  BY ListsTail DEF PopLeft, QMInd, Placed
<1>2. t \in TaskId /\ task[t].status = "pending" /\ task[t] \in Task
  BY <1>1 DEF Pending, QMInd, ObjectsOK, NoTask
<1>3. /\ task'[t].status = "in_flight" /\ task'[t].attempts # 0
      /\ \A u \in TaskId \ {t} : task'[u] = task[u]
  <2> DEFINE new == [task[t] EXCEPT !.status = "in_flight",
                                    !.assigned_worker = w,
                                    !.attempts = task[t].attempts + 1]
  <2>1. task[t].attempts + 1 # 0
    BY <1>2 DEF Task
  <2>2. new.status = "in_flight" /\ new.attempts # 0
    BY <1>2, <2>1 DEF Task
  <2>3. task' = [task EXCEPT ![t] = new]
    BY DEF PopLeft
  <2> HIDE DEF new
  <2> QED BY <1>2, <2>2, <2>3 DEF QMInd, ObjectsOK
<1>4. Used'
  BY <1>3 DEF InOrderInd, Used
<1>5. ASSUME NEW r \in Queues PROVE Ordered(task', queues'[r])
  <2>1. Lists(queues[r], Pending(task, r)) /\ Ordered(task, queues[r])
    BY DEF QMInd, Placed, InOrderInd
  <2>2. \A u \in Pending(task, r) \ {t} : task'[u] = task[u]
    BY <1>3 DEF Pending
  <2>3. CASE r = q
    <3>1. queues'[r] = Tail(queues[q]) /\ queues[q] # << >>
      BY <2>3 DEF PopLeft, QMInd, Placed
    <3>2. Ordered(task, Tail(queues[q]))
      BY <2>1, <2>3, <3>1, OrderedTail
    <3>3. \A u \in Pending(task, q) \ {t} : Fresh(task', u) => Fresh(task, u)
      BY <2>2, <2>3 DEF Fresh
    <3> QED BY <1>1, <3>1, <3>2, <3>3, OrderedKept
  <2>4. CASE r # q
    <3>1. queues'[r] = queues[r]
      BY <2>4 DEF PopLeft, QMInd, Placed
    <3>2. t \notin Pending(task, r)
      BY <1>1, <2>4 DEF Pending
    <3>3. \A u \in Pending(task, r) : Fresh(task', u) => Fresh(task, u)
      BY <2>2, <3>2 DEF Fresh
    <3> QED BY <2>1, <3>1, <3>3, OrderedKept
  <2> QED BY <2>3, <2>4
<1> QED BY <1>4, <1>5 DEF InOrderInd


(* requeue_by_id and negative_acknowledge: a task put back at the front    *)
(* has been handed out.                                                    *)
LEMMA ToFrontOrder ==
  ASSUME QMInd, InOrderInd, NEW t \in in_flight, ToFront(t)
  PROVE  InOrderInd'
<1> USE TypesAssumption
<1> DEFINE p == task[t].queue_name
           moved == [q \in Queues |-> IF q = p THEN <<t>> ELSE << >>]
           M == [q \in Queues |-> IF q = p THEN {t} ELSE {}]
<1>1. /\ t \in TaskId /\ task[t].status = "in_flight" /\ task[t].attempts # 0
      /\ task[t] \in Task /\ p \in Queues
  BY DEF QMInd, ObjectsOK, Placed, Having, NoTask, Task, InOrderInd, Used
<1>2. /\ task'[t].status = "pending" /\ task'[t].attempts # 0
      /\ \A u \in TaskId \ {t} : task'[u] = task[u]
  BY <1>1 DEF ToFront, QMInd, ObjectsOK, Task
<1>3. Used'
  BY <1>2 DEF InOrderInd, Used
<1>4. ASSUME NEW q \in Queues
      PROVE  /\ Lists(moved[q], M[q])
             /\ \A u \in M[q] : ~Fresh(task', u)
             /\ \A u \in Pending(task, q) : task'[u] = task[u]
             /\ queues'[q] \in {moved[q] \o queues[q], queues[q] \o moved[q]}
  <2>1. Lists(moved[q], M[q])
    BY ListsEmpty, ListsSingleton
  <2>2. \A u \in M[q] : ~Fresh(task', u)
    BY <1>2 DEF Fresh
  <2>3. \A u \in Pending(task, q) : task'[u] = task[u]
    BY <1>1, <1>2 DEF Pending
  <2>4. CASE q = p
    <3>1. queues'[q] = moved[q] \o queues[q]
      BY <1>1, <2>4, Zenon DEF ToFront, QMInd, Placed
    <3> QED BY <2>1, <2>2, <2>3, <3>1
  <2>5. CASE q # p
    <3>1. queues'[q] = queues[q] /\ moved[q] = << >>
      BY <1>1, <2>5 DEF ToFront, QMInd, Placed
    <3>2. queues[q] \in Seq(Pending(task, q))
      BY DEF QMInd, Placed, Lists
    <3>3. << >> \o queues[q] = queues[q]
      BY <3>2, ConcatEmptySeq
    <3> QED BY <2>1, <2>2, <2>3, <3>1, <3>3, Zenon
  <2> QED BY <2>4, <2>5, Zenon
<1> HIDE DEF moved, M
<1> QED BY <1>3, <1>4, OrderMoved, Zenon

(* The eviction of dead workers: so have all their tasks.                  *)
LEMMA RequeueEachOrder ==
  ASSUME QMInd, InOrderInd, NEW S, RequeueEach(S)
  PROVE  InOrderInd'
<1> USE TypesAssumption
<1> DEFINE found == S \cap in_flight
           of(q) == {t \in found : task[t].queue_name = q}
           M == [q \in Queues |-> of(q)]
<1>1. \A t \in found : /\ t \in TaskId /\ task[t].status = "in_flight"
                       /\ task[t] \in Task /\ task[t].attempts # 0
  BY DEF QMInd, ObjectsOK, Placed, Having, NoTask, InOrderInd, Used
<1>2. task' = [t \in TaskId |-> IF t \in found
                 THEN [task[t] EXCEPT !.status = "pending",
                                      !.assigned_worker = None]
                 ELSE task[t]]
  BY Zenon DEF RequeueEach
<1>3. /\ \A t \in found : task'[t].status = "pending" /\ task'[t].attempts # 0
      /\ \A t \in TaskId \ found : task'[t] = task[t]
  BY <1>1, <1>2, Zenon DEF Task
<1>4. Used'
  BY <1>1, <1>3 DEF InOrderInd, Used
<1>5. PICK front : /\ \A q \in Queues :
                         front[q] \in Bijection(1..Cardinality(of(q)), of(q))
                   /\ queues' = [q \in Queues |-> front[q] \o queues[q]]
  BY Zenon DEF RequeueEach
<1>6. ASSUME NEW q \in Queues
      PROVE  /\ Lists(front[q], M[q])
             /\ \A u \in M[q] : ~Fresh(task', u)
             /\ \A u \in Pending(task, q) : task'[u] = task[u]
             /\ queues'[q] \in {front[q] \o queues[q], queues[q] \o front[q]}
  <2>1. Cardinality(of(q)) \in Nat
    BY <1>1, FinitePlace
  <2>2. Lists(front[q], of(q))
    BY <1>5, <2>1, ListsBijection
  <2>3. \A u \in of(q) : ~Fresh(task', u)
    BY <1>3 DEF Fresh
  <2>4. \A u \in Pending(task, q) : task'[u] = task[u]
    BY <1>1, <1>3 DEF Pending
  <2>5. M[q] = of(q) /\ queues'[q] = front[q] \o queues[q]
    BY <1>5, Zenon
  <2> HIDE DEF of, M
  <2> QED BY <2>2, <2>3, <2>4, <2>5
<1> HIDE DEF M
<1> QED BY <1>4, <1>6, OrderMoved, Zenon

(* A replay: dead_lettered_at stays set.                                   *)
LEMMA DlqRetryOrder ==
  ASSUME QMInd, InOrderInd, NEW t \in TaskId, DlqRetry(t)
  PROVE  InOrderInd'
<1> USE TypesAssumption
<1> DEFINE p == task[t].queue_name
           moved == [q \in Queues |-> IF q = p THEN <<t>> ELSE << >>]
           M == [q \in Queues |-> IF q = p THEN {t} ELSE {}]
<1>1. /\ task[t].status = "dead_lettered" /\ task[t].dead_lettered_at
      /\ task[t] \in Task /\ p \in Queues
  BY DEF DlqRetry, QMInd, ObjectsOK, Placed, Lists, Having, NoTask, Task,
         InOrderInd, Used
<1>2. /\ task'[t].status = "pending" /\ task'[t].dead_lettered_at
      /\ \A u \in TaskId \ {t} : task'[u] = task[u]
  <2> DEFINE new == [task[t] EXCEPT !.status = "pending", !.attempts = 0,
                                    !.assigned_worker = None]
  <2>1. new.status = "pending" /\ new.dead_lettered_at = task[t].dead_lettered_at
    BY <1>1, Zenon DEF Task
  <2>2. task' = [task EXCEPT ![t] = new]
    BY DEF DlqRetry
  <2> HIDE DEF new
  <2> QED BY <1>1, <2>1, <2>2, Zenon DEF QMInd, ObjectsOK
<1>3. Used'
  BY <1>2 DEF InOrderInd, Used
<1>4. ASSUME NEW q \in Queues
      PROVE  /\ Lists(moved[q], M[q])
             /\ \A u \in M[q] : ~Fresh(task', u)
             /\ \A u \in Pending(task, q) : task'[u] = task[u]
             /\ queues'[q] \in {moved[q] \o queues[q], queues[q] \o moved[q]}
  <2>1. Lists(moved[q], M[q])
    BY ListsEmpty, ListsSingleton
  <2>2. \A u \in M[q] : ~Fresh(task', u)
    BY <1>2 DEF Fresh
  <2>3. \A u \in Pending(task, q) : task'[u] = task[u]
    BY <1>1, <1>2 DEF Pending
  <2>0. queues[q] \in Seq(Pending(task, q))
    BY DEF QMInd, Placed, Lists
  <2>4. CASE q = p
    <3>1. queues'[q] = Append(queues[q], t) /\ moved[q] = <<t>>
      BY <1>1, <2>4 DEF DlqRetry, QMInd, Placed
    <3>2. queues[q] \in Seq(Pending(task, q) \cup {t})
      BY <2>0, SeqMonotonic
    <3>3. Append(queues[q], t) = queues[q] \o <<t>>
      BY <3>2, AppendIsConcat
    <3> QED BY <2>1, <2>2, <2>3, <3>1, <3>3, Zenon
  <2>5. CASE q # p
    <3>1. queues'[q] = queues[q] /\ moved[q] = << >>
      BY <1>1, <2>5 DEF DlqRetry, QMInd, Placed
    <3>3. << >> \o queues[q] = queues[q]
      BY <2>0, ConcatEmptySeq
    <3> QED BY <2>1, <2>2, <2>3, <3>1, <3>3, Zenon
  <2> QED BY <2>4, <2>5, Zenon
<1> HIDE DEF moved, M
<1> QED BY <1>3, <1>4, OrderMoved, Zenon


LEMMA DlqRetryAllOrder ==
  ASSUME QMInd, InOrderInd, DlqRetryAll
  PROVE  InOrderInd'
<1> USE TypesAssumption
<1> DEFINE at(q) == {i \in DOMAIN dlq : task[dlq[i]].queue_name = q}
           of(q) == {dlq[i] : i \in at(q)}
           M == [q \in Queues |-> of(q)]
<1>1. /\ Range(dlq) \subseteq TaskId
      /\ \A t \in Range(dlq) : /\ task[t].status = "dead_lettered"
                               /\ task[t] \in Task /\ task[t].dead_lettered_at
  BY DEF QMInd, ObjectsOK, Placed, Lists, Having, NoTask, InOrderInd, Used
<1>2. task' = [t \in TaskId |-> IF t \in Range(dlq)
                 THEN [task[t] EXCEPT !.status = "pending", !.attempts = 0,
                                      !.assigned_worker = None]
                 ELSE task[t]]
  BY Zenon DEF DlqRetryAll
<1>3. /\ \A t \in Range(dlq) : /\ task'[t].status = "pending"
                               /\ task'[t].dead_lettered_at
      /\ \A t \in TaskId \ Range(dlq) : task'[t] = task[t]
  BY <1>1, <1>2, Zenon DEF Task
<1>4. Used'
  BY <1>1, <1>3 DEF InOrderInd, Used
<1>5. PICK back : /\ \A q \in Queues : back[q] \in InOrder(dlq, at(q))
                  /\ queues' = [q \in Queues |-> queues[q] \o back[q]]
  BY Zenon DEF DlqRetryAll
<1>6. ASSUME NEW q \in Queues
      PROVE  /\ Lists(back[q], M[q])
             /\ \A u \in M[q] : ~Fresh(task', u)
             /\ \A u \in Pending(task, q) : task'[u] = task[u]
             /\ queues'[q] \in {back[q] \o queues[q], queues[q] \o back[q]}
  <2>1. Lists(dlq, Having(task, "dead_lettered"))
    BY DEF QMInd, Placed
  <2>2. back[q] \in InOrder(dlq, at(q)) /\ at(q) \in SUBSET DOMAIN dlq
    BY <1>5
  <2>3. Lists(back[q], of(q))
    <3> HIDE DEF at
    <3> QED BY <2>1, <2>2, ListsInOrder
  <2>4. \A u \in of(q) : u \in Range(dlq)
    BY DEF Range
  <2>5. \A u \in of(q) : ~Fresh(task', u)
    BY <1>3, <2>4 DEF Fresh
  <2>6. \A u \in Pending(task, q) : task'[u] = task[u]
    BY <1>1, <1>3 DEF Pending
  <2>7. M[q] = of(q) /\ queues'[q] = queues[q] \o back[q]
    BY <1>5, Zenon
  <2> HIDE DEF of, M
  <2> QED BY <2>3, <2>5, <2>6, <2>7
<1> HIDE DEF M
<1> QED BY <1>4, <1>6, OrderMoved, Zenon

(* The methods that take a task out of the queues' sight.                  *)
LEMMA SettleOrder ==
  ASSUME QMInd, InOrderInd, NEW t \in TaskId,
         Acknowledge(t) \/ (NegativeAcknowledge(t) /\ Exhausted(t))
  PROVE  InOrderInd'
<1> USE TypesAssumption
<1>1. task[t].status = "in_flight" /\ task[t] \in Task /\ queues' = queues
  BY DEF Acknowledge, NegativeAcknowledge, QMInd, ObjectsOK, Placed, Having, NoTask
<1>2. /\ \A u \in TaskId \ {t} : task'[u] = task[u]
      /\ \/ task'[t].status = "done"
         \/ task'[t].status = "dead_lettered" /\ task'[t].dead_lettered_at
  BY <1>1 DEF Acknowledge, NegativeAcknowledge, QMInd, ObjectsOK, Task
<1>3. Used'
  BY <1>2 DEF InOrderInd, Used
<1>4. \A q \in Queues : \A u \in Pending(task, q) : task'[u] = task[u]
  BY <1>1, <1>2 DEF Pending
<1> QED BY <1>1, <1>3, <1>4, OrderSame

LEMMA DropOrder ==
  ASSUME QMInd, InOrderInd, NEW S, S \subseteq Range(dlq), queues' = queues,
         task' = [t \in TaskId |-> IF t \in S THEN NoTask ELSE task[t]]
  PROVE  InOrderInd'
<1>1. \A t \in S : t \in TaskId /\ task[t].status = "dead_lettered"
  BY DEF QMInd, Placed, Lists, Having
<1>2. /\ \A t \in S : task'[t].status = "none"
      /\ \A t \in TaskId \ S : task'[t] = task[t]
  BY <1>1 DEF NoTask
<1>3. Used'
  BY <1>1, <1>2 DEF InOrderInd, Used
<1>4. \A q \in Queues : \A u \in Pending(task, q) : task'[u] = task[u]
  BY <1>1, <1>2 DEF Pending
<1> QED BY <1>3, <1>4, OrderSame

(* The recovered tasks are queued in the order of their ids.               *)
LEMMA InitOrder == QMInit => InOrderInd
<1> USE TypesAssumption
<1> SUFFICES ASSUME QMInit PROVE InOrderInd
  OBVIOUS
<1>1. PICK n \in 0..MaxTasks :
        \E rows \in [1..n -> [queue_name : Queues, payload : {0},
                              attempts : 0..MaxRetries]] :
          Recovered([t \in 1..n |-> [rows[t] EXCEPT !.payload = t]],
                    queues, created, task)
  BY Zenon DEF QMInit
<1>2. PICK rows : Recovered(rows, queues, created, task)
  BY <1>1
<1>3. \A t \in TaskId : task[t].status \in {"pending", "none"}
  BY <1>2, NewTaskFields DEF Recovered, NoTask
<1>4. \A q \in Queues : Ordered(task, queues[q])
  BY <1>2, Zenon DEF Recovered, Ascending, Ordered
<1> QED BY <1>3, <1>4 DEF InOrderInd, Used

LEMMA NextOrder == QMInd /\ InOrderInd /\ [QMNext]_qmVars => InOrderInd'
<1> SUFFICES ASSUME QMInd, InOrderInd, [QMNext]_qmVars PROVE InOrderInd'
  OBVIOUS
<1>1. ASSUME NEW q \in Queues, DequeueEmpty(q) PROVE InOrderInd'
  BY <1>1 DEF DequeueEmpty, InOrderInd, Used
<1>2. ASSUME NEW S, DlqRemove(S) PROVE InOrderInd'
  BY <1>2, DropOrder DEF DlqRemove
<1>3. CASE DlqPurge
  BY <1>3, DropOrder DEF DlqPurge
<1>4. ASSUME NEW w \in Workers, DequeueAny(w) PROVE InOrderInd'
  <2>1. PICK i \in DOMAIN created : PopLeft(created[i], w)
    BY <1>4 DEF DequeueAny
  <2>2. created[i] \in Queues
    BY <2>1, ElementOfSeq DEF QMInd, ObjectsOK
  <2> QED BY <2>1, <2>2, PopLeftOrder
<1>5. ASSUME NEW t \in TaskId, NegativeAcknowledge(t) PROVE InOrderInd'
  <2>1. CASE Exhausted(t)
    BY <1>5, <2>1, SettleOrder
  <2>2. CASE ~Exhausted(t)
    BY <1>5, <2>2, ToFrontOrder DEF NegativeAcknowledge
  <2> QED BY <2>1, <2>2
<1>6. ASSUME NEW t \in TaskId, RequeueById(t) PROVE InOrderInd'
  BY <1>6, ToFrontOrder DEF RequeueById
<1>7. CASE Reset
  <2>1. \A q \in Queues : queues'[q] = << >>
    BY <1>7 DEF Reset
  <2>2. \A t \in TaskId : task'[t].status = "none"
    BY <1>7 DEF Reset, NoTask
  <2> QED BY <2>1, <2>2 DEF InOrderInd, Used, Ordered
<1>8. CASE UNCHANGED qmVars
  BY <1>8 DEF qmVars, InOrderInd, Used
<1> QED BY <1>1, <1>2, <1>3, <1>4, <1>5, <1>6, <1>7, <1>8, EnqueueOrder,
           PopLeftOrder, SettleOrder, RequeueEachOrder, DlqRetryOrder,
           DlqRetryAllOrder, Zenon
        DEF QMNext, Dequeue, DlqPurgeQueue

(* Tasks never handed out nor dead-lettered leave a queue in the order in  *)
(* which they were submitted, whatever retries, evictions and replays put  *)
(* around them.                                                            *)
THEOREM QMFreshTasksInOrder == QMSpec => []FreshTasksInOrder
BY InitInd, NextInd, InitOrder, NextOrder, OrderFresh, PTL DEF QMSpec


=============================================================================
