----------------------------- MODULE SerialWalk -----------------------------
(***************************************************************************)
(* What atlas reading promises of its walk, however its stages run: they      *)
(* stand in tables.md in one fixed order, knowledge.json holds exactly what   *)
(* they answered, and the walk ends with the failure of a stage, never with   *)
(* what that failure did to others.                                           *)
(***************************************************************************)
EXTENDS Naturals, Sequences

CONSTANTS Order,  \* the tables, one after the other
          Rows,   \* their rows, as pairs of the table and a number
          StageOf \* the stage of each table

VARIABLES printed,     \* tables.md
          answered,    \* rows with an answer
          saved,       \* knowledge.json
          broken,      \* stages that failed for a reason of their own
          interrupted,
          outcome

walk == <<printed, answered, saved, broken, interrupted, outcome>>

Printed == {printed[n] : n \in DOMAIN printed}

Init ==
    /\ printed = << >> /\ answered = {} /\ saved = {}
    /\ broken = {} /\ interrupted = FALSE /\ outcome = "running"

Answer(t) ==
    /\ t \notin Printed
    /\ answered' \in {answered \cup own : own \in SUBSET {x \in Rows : x[1] = t}}
    /\ UNCHANGED <<printed, saved, broken, interrupted, outcome>>

Break(t) ==
    /\ t \notin Printed
    /\ broken' = broken \cup {StageOf[t]}
    /\ UNCHANGED <<printed, answered, saved, interrupted, outcome>>

Interrupt ==
    /\ interrupted' = TRUE
    /\ UNCHANGED <<printed, answered, saved, broken, outcome>>

Join(n) ==
    /\ n > Len(printed)
    /\ printed' = SubSeq(Order, 1, n)
    /\ UNCHANGED <<answered, saved, broken, interrupted, outcome>>

Save ==
    /\ saved' = {x \in answered : x[1] \in Printed}
    /\ UNCHANGED <<printed, answered, broken, interrupted, outcome>>

\* Complete, a stage's own failure, an interruption or a file that was not written.
End(how) ==
    /\ outcome = "running"
    /\ \/ how = "complete" /\ broken = {} /\ printed = Order /\ saved = answered
       \/ how \in broken
       \/ how = "interrupted" /\ interrupted
       \/ how = "unsaved"
    /\ outcome' = how
    /\ UNCHANGED <<printed, answered, saved, broken, interrupted>>

Next ==
    \/ \E t \in {Order[n] : n \in DOMAIN Order} : Answer(t) \/ Break(t)
    \/ Interrupt
    \/ \E n \in DOMAIN Order : Join(n)
    \/ Save
    \/ \E how \in {StageOf[Order[n]] : n \in DOMAIN Order} \cup {"complete", "interrupted", "unsaved"} : End(how)

Spec == Init /\ [][Next]_walk
=============================================================================
