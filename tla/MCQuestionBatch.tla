--------------------------- MODULE MCQuestionBatch ---------------------------
(* The instance of QuestionBatch that TLC checks. *)
EXTENDS QuestionBatch

\* A second run may have another question before the ones it knows.
TwoCatalogues == {{2, 3}, {1, 2, 3}}
OneRefused == {{}, {1}}
=============================================================================
