-------------------------- MODULE MCWorkerRegistry --------------------------
(* The registry with the timing constants of the code.                     *)
EXTENDS WorkerRegistry, TLC
=============================================================================
