---------------------------- MODULE BrokerTypes ----------------------------
(***************************************************************************)
(* The parameters the broker's components share.                           *)
(***************************************************************************)
EXTENDS Integers, Sequences, FiniteSets, Functions

CONSTANTS Queues,      \* queue names
          Workers,     \* worker ids
          None,        \* Python's None
          MaxRetries,  \* QueueManager.max_retries
          MaxTasks,    \* bound: task ids ever created
          MaxAttempts  \* bound: dispatches of one task

ASSUME TypesAssumption ==
  /\ MaxRetries \in Nat \ {0}
  /\ MaxTasks \in Nat
  /\ MaxAttempts \in Nat
  /\ None \notin Queues
  /\ None \notin Workers

(* Task ids are 1, 2, ... in order of creation (uuid4 in the code: what    *)
(* matters is that ids are fresh, and that created_at orders them).        *)
TaskId == 1..MaxTasks

(* A payload is the id of the submission that supplied it; 0 is `{}`.      *)
Payload == 0..MaxTasks

=============================================================================
