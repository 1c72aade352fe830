---------------------------- MODULE MCTargetPages ----------------------------
(* The instances of TargetPages that TLC checks. *)
EXTENDS TargetPages

\* Two targets of one adapter with others' between them, as the tests of the
\* lanes plan them.
GoJSTSGo == <<"go", "jsts", "go">>
ThreeLanes == <<"go", "jsts", "go", "python">>
=============================================================================
