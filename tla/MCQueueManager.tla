--------------------------- MODULE MCQueueManager ---------------------------
(* QueueManager on a small instance: two queues, three tasks.              *)
EXTENDS QueueLedger, TLC

WorkerSymmetry == Permutations(Workers)

=============================================================================
