--------------------------- MODULE SequentialBatch ---------------------------
(***************************************************************************)
(* What llm.ExecuteJSONEach promises of a batch, whoever runs it: each call   *)
(* comes to one result, which stands, and when all have, the observer hears   *)
(* of them one after another in the caller's order, as if one had been made   *)
(* after the other.                                                          *)
(***************************************************************************)
EXTENDS Naturals, Sequences

CONSTANTS Batches,   \* batches
          Calls,     \* calls of each batch
          Open,      \* no result yet
          Results,   \* what a call may come to
          Silent     \* the results no observer hears of

VARIABLES slot, \* the result of each call
          told  \* the calls the observer heard of, in the order it did

vars == <<slot, told>>

Init ==
    /\ slot = [b \in Batches |-> [i \in 1..Calls[b] |-> Open]]
    /\ told = [b \in Batches |-> <<>>]

Settle(b, i, r) ==
    /\ slot[b][i] = Open
    /\ slot' = [slot EXCEPT ![b][i] = r]
    /\ UNCHANGED told

\* The first call after the last one told that has something to tell.
Tell(b, i) ==
    /\ \A j \in 1..Calls[b] : slot[b][j] # Open
    /\ slot[b][i] \notin Silent
    /\ \A n \in DOMAIN told[b] : told[b][n] < i
    /\ \A j \in 1..i-1 : slot[b][j] \notin Silent => \E n \in DOMAIN told[b] : told[b][n] = j
    /\ told' = [told EXCEPT ![b] = Append(@, i)]
    /\ UNCHANGED slot

Next ==
    \E b \in Batches : \E i \in 1..Calls[b] :
        Tell(b, i) \/ \E r \in Results : Settle(b, i, r)

Spec == Init /\ [][Next]_vars
=============================================================================
