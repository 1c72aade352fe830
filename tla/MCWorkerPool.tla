---------------------------- MODULE MCWorkerPool ----------------------------
(* The instances of WorkerPool that TLC checks. *)
EXTENDS WorkerPool

CONSTANTS b1, b2

TwoAndOne == [b \in Batches |-> IF b = b1 THEN 2 ELSE 1]
=============================================================================
