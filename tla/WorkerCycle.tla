----------------------------- MODULE WorkerCycle -----------------------------
(***************************************************************************)
(* What the broker may rely on in a worker, connection by connection: it   *)
(* registers once, asks for a task only when it holds none, and reports    *)
(* each task it was given once, unless the connection is lost first.       *)
(***************************************************************************)
EXTENDS Naturals

CONSTANT Deliveries  \* identifies what the worker is handed

VARIABLE session  \* <<"new", 0>>, <<"idle", 0>> or <<"busy", delivery>>

CycleInit == session = <<"new", 0>>

Register == session = <<"new", 0>> /\ session' = <<"idle", 0>>

Deliver(d) == session = <<"idle", 0>> /\ session' = <<"busy", d>>

Report == session[1] = "busy" /\ session' = <<"idle", 0>>

Lose == session' = <<"new", 0>>

CycleNext == Register \/ Report \/ Lose
             \/ \E d \in Deliveries : Deliver(d)

CycleSpec == CycleInit /\ [][CycleNext]_session

=============================================================================
