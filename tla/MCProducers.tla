----------------------------- MODULE MCProducers -----------------------------
(* Two producers that compete for the tokens of one queue.                 *)
EXTENDS Producers

CONSTANTS p1, p2

TwoProducers == {p1, p2}

OneAndTwo == [p \in TwoProducers |-> IF p = p1 THEN 1 ELSE 2]
=============================================================================
