---------------------------- MODULE MCAnswerCache ----------------------------
(* The instances of AnswerCache that TLC checks. *)
EXTENDS AnswerCache

CONSTANTS p1, p2, r1, r2, a1
=============================================================================
