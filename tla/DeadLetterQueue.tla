-------------------------- MODULE DeadLetterQueue --------------------------
(***************************************************************************)
(* The in-memory Dead Letter Queue of broker/dead_letter.py: an            *)
(* OrderedDict from task id to Task.  Its keys in insertion order are the  *)
(* sequence dlq; the Task objects themselves belong to QueueManager.       *)
(* Every method body runs under a lock that is never held across an await, *)
(* so each method is one atomic step of the event loop.                    *)
(***************************************************************************)
EXTENDS BrokerTypes

VARIABLE dlq          \* keys of DeadLetterQueue._tasks, oldest first

(***************************************************************************)
(* The subsequence of s at the positions in keep, as a one-element set.    *)
(* Stated with an increasing surjection instead of SelectSeq so that it    *)
(* involves no recursion and the prover can reason about it.               *)
(***************************************************************************)
InOrder(s, keep) ==
  LET Increasing == {f \in Surjection(1..Cardinality(keep), keep) :
                       \A i, j \in DOMAIN f : i < j => f[i] < f[j]}
  IN  {[i \in 1..Cardinality(keep) |-> s[f[i]]] : f \in Increasing}

DLQInit == dlq = << >>

(* add: assigning to a key the dict already has keeps its position.        *)
DLQAdd(t) == dlq' = IF t \in Range(dlq) THEN dlq ELSE Append(dlq, t)

(* The dict without the keys in S: remove, the pop of retry, and the       *)
(* remove loop of a per-queue purge.                                       *)
DLQDrop(S) == dlq' \in InOrder(dlq, {i \in DOMAIN dlq : dlq[i] \notin S})

DLQPurge == dlq' = << >>

(* peek(limit): the oldest entries.                                        *)
Peek(limit) == {dlq[i] : i \in {j \in DOMAIN dlq : j <= limit}}

=============================================================================
