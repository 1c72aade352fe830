--------------------------- MODULE MCExactRequest ---------------------------
(* The instances of ExactRequest that TLC checks. *)
EXTENDS ExactRequest

CONSTANTS c1, c2, c3, c4, k1, a1, a2, bad

OneKey == [c \in Callers |-> k1]

\* Everybody decodes alike.
Alike == [c \in Callers |-> {a1, a2}]

\* The provider has one answer, which c2 refuses.
Picky == [c \in Callers |-> IF c = c2 THEN {} ELSE {a1}]

\* What the cache may hold at first: a usable record, or anything.
UsableRecords == {NoRecord, a1}
AnyRecord == {NoRecord, Corrupt, a1}
=============================================================================
