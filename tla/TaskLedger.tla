----------------------------- MODULE TaskLedger -----------------------------
(***************************************************************************)
(* What a task broker promises about the life of a task, without queues,   *)
(* workers, tables or restarts: a task is submitted once, claimed and      *)
(* returned any number of times, and ends done or as a dead letter.  What  *)
(* is done stays done, what is gone never comes back, and a dead letter    *)
(* leaves its state only by an operator's hand, or by a crash that takes   *)
(* them.                                                                   *)
(***************************************************************************)
CONSTANTS Tasks,   \* what is submitted
          Losses   \* the sets of dead letters that a crash may take

VARIABLE ledger    \* the state of each task

LedgerInit == ledger \in [Tasks -> {"new", "pending"}]

(* The tasks in S, all in state from, go to state to.                      *)
Move(S, from, to) ==
  /\ \A p \in S : ledger[p] = from
  /\ ledger' = [p \in Tasks |-> IF p \in S THEN to ELSE ledger[p]]

Submit(p) == Move({p}, "new", "pending")

Claim(p) == Move({p}, "pending", "in_flight")

(* A worker gives a task back, or several are taken from dead workers.     *)
Return(S) == Move(S, "in_flight", "pending")

Complete(p) == Move({p}, "in_flight", "done")

Bury(p) == Move({p}, "in_flight", "dead_lettered")

(* The operator replays or purges dead letters.                            *)
Revive(S) == Move(S, "dead_lettered", "pending")

Discard(S) == Move(S, "dead_lettered", "gone")

(* Every claim is void; the dead letters in D are lost.                    *)
Crash(D) ==
  /\ D \in Losses
  /\ \A p \in D : ledger[p] = "dead_lettered"
  /\ ledger' = [p \in Tasks |-> IF p \in D THEN "gone"
                                ELSE IF ledger[p] = "in_flight" THEN "pending"
                                ELSE ledger[p]]

(* The operator starts from scratch.                                       *)
Clear == ledger' = [p \in Tasks |-> IF ledger[p] = "new" THEN "new" ELSE "gone"]

LedgerNext ==
  \/ \E S \in SUBSET Tasks : \/ Return(S)
                             \/ Revive(S)
                             \/ Discard(S)
                             \/ Crash(S)
  \/ \E p \in Tasks : \/ Submit(p)
                      \/ Claim(p)
                      \/ Complete(p)
                      \/ Bury(p)
  \/ Clear

LedgerSpec == LedgerInit /\ [][LedgerNext]_ledger

=============================================================================
