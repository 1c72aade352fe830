--------------------------- MODULE MCAttemptGate ---------------------------
(* The instances of AttemptGate that TLC checks. *)
EXTENDS AttemptGate

CONSTANTS c1, c2

\* Each executor asks for its own concurrency; the first to bind decides.
\* One lease has no growing to do, and three are no power of two.
MCConcurrency == [c \in Calls |-> IF c = c1 THEN 1 ELSE 3]
=============================================================================
