------------------------------ MODULE OneAnswer ------------------------------
(***************************************************************************)
(* What internal/llm/flight.go promises about one exact request: whoever is *)
(* told an answer in a run is told the same one, and it is the one the       *)
(* cache keeps for the next run.                                            *)
(***************************************************************************)
CONSTANTS Callers, Keys, Answers, Unanswered, KeyOf

VARIABLES kept,   \* the answer kept for each exact request
          told    \* the answer each caller was given

shown == <<kept, told>>

Init ==
    /\ kept \in [Keys -> Answers \cup {Unanswered}]
    /\ told = [c \in Callers |-> Unanswered]

\* A caller is told the answer its request keeps, or the one it keeps from now on.
Tell(c) ==
    LET k == KeyOf[c] IN
    \E a \in Answers :
        /\ told[c] = Unanswered
        /\ kept[k] \in {a, Unanswered}
        /\ kept' = [kept EXCEPT ![k] = a]
        /\ told' = [told EXCEPT ![c] = a]

Next == \E c \in Callers : Tell(c)

Spec == Init /\ [][Next]_shown
=============================================================================
