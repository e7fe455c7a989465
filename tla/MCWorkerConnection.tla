------------------------ MODULE MCWorkerConnection ------------------------
(* One worker, two deliveries and two broken connections.                  *)
EXTENDS WorkerConnection
=============================================================================
