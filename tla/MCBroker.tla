------------------------------ MODULE MCBroker ------------------------------
(* Instances of the broker for model checking.                             *)
EXTENDS BrokerLedger, TLC

WorkerSymmetry == Permutations(Workers)
=============================================================================
