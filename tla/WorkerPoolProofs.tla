-------------------------- MODULE WorkerPoolProofs --------------------------
(***************************************************************************)
(* The worker pool, for batches of any size, pools of any size and every way  *)
(* a run may stop: a batch is one call after another to whoever reads its     *)
(* results and its events, a call that was never asked says so, and one       *)
(* refusal of the credentials is announced.  The journal of what the batches  *)
(* tell is complete and in order.  And a batch waits for nothing but a lease  *)
(* that somebody holds.                                                       *)
(***************************************************************************)
EXTENDS WorkerPool, FiniteSetTheorems, WellFoundedInduction, TLAPS

Places == {"unfed", "offered", "taken", "queued", "held", "answered", "claiming", "done"}
Replies == AllAnswers \cup {"interrupted", "none"}

PoolTyped ==
    /\ phase \in [Batches -> {"new", "feeding", "replaying", "returned"}]
    /\ at \in [Call -> Places]
    /\ reply \in [Call -> Replies]
    /\ DOMAIN results = Batches /\ DOMAIN told = Batches
    /\ \A b \in Batches : results[b] \in [1..Calls[b] -> Results \cup {"none"}]
    /\ \A b \in Batches : told[b] \in Seq(1..Calls[b])

\* A call has a result when it is done, and not before.
Slots ==
    \A b \in Batches : \A i \in 1..Calls[b] :
        results[b][i] = "none" <=> at[<<b, i>>] # "done"

\* Nothing is told before every call is done, and then in order.
ToldInOrder ==
    \A b \in Batches :
        /\ phase[b] \in {"replaying", "returned"} => \A i \in 1..Calls[b] : at[<<b, i>>] = "done"
        /\ phase[b] \in {"new", "feeding"} => told[b] = <<>>
        /\ \A n \in DOMAIN told[b] : \A j \in Untold(b) : told[b][n] < j

\* What a call came to is what the provider said, when it was asked.
Outcomes ==
    \A b \in Batches : \A i \in 1..Calls[b] : LET c == <<b, i>> IN
        /\ at[c] \in {"unfed", "offered", "taken", "queued", "held"} => reply[c] = "none"
        /\ at[c] \in {"answered", "claiming"} => reply[c] # "none"
        /\ at[c] = "claiming" => reply[c] = "denied"
        /\ at[c] = "done" =>
              /\ results[b][i] = "stopped" => stopped /\ reply[c] = "none"
              /\ reply[c] # "none" => results[b][i] = reply[c]

\* One refusal took the stop for itself, and the run ended for no other.
Claims ==
    /\ \A c, d \in claimed : c = d
    /\ \A c \in Call : at[c] = "claiming" => c \in claimed
    /\ cause \subseteq claimed
    /\ cause # {} => stopped

PoolInv == PoolTyped /\ Slots /\ ToldInOrder /\ Outcomes /\ Claims

-----------------------------------------------------------------------------
\* A call is a batch and a place in it.
LEMMA CallShape ==
  /\ \A c \in Call : c[1] \in Batches /\ c[2] \in 1..Calls[c[1]] /\ c = <<c[1], c[2]>>
  /\ \A b \in Batches : \A i \in 1..Calls[b] : <<b, i>> \in Call
  BY DEF Call

\* Storing a result fills one open slot.
LEMMA StoreFills ==
  ASSUME PoolTyped, NEW c \in Call, NEW r \in Results, Store(c, r)
  PROVE  /\ DOMAIN results' = Batches
         /\ \A b \in Batches : results'[b] \in [1..Calls[b] -> Results \cup {"none"}]
         /\ at' \in [Call -> Places]
         /\ at'[c] = "done" /\ \A d \in Call \ {c} : at'[d] = at[d]
         /\ results'[c[1]][c[2]] = r
         /\ \A b \in Batches : \A i \in 1..Calls[b] :
               <<b, i>> # c => results'[b][i] = results[b][i]
         /\ results' = [results EXCEPT ![c[1]][c[2]] = r]
  <1>1. c[1] \in Batches /\ c[2] \in 1..Calls[c[1]] /\ c = <<c[1], c[2]>>
    BY CallShape
  <1>2. results' = [results EXCEPT ![c[1]] = [results[c[1]] EXCEPT ![c[2]] = r]]
    BY DEF Store
  <1> DEFINE new == [results[c[1]] EXCEPT ![c[2]] = r]
  <1>3. new \in [1..Calls[c[1]] -> Results \cup {"none"}]
    BY <1>1 DEF PoolTyped
  <1>4. DOMAIN results' = Batches /\ results'[c[1]] = new
        /\ \A b \in Batches \ {c[1]} : results'[b] = results[b]
    <2> HIDE DEF new
    <2>1. results' = [results EXCEPT ![c[1]] = new]
      BY <1>2 DEF new
    <2> QED BY <1>1, <2>1 DEF PoolTyped
  <1>5. at' = [at EXCEPT ![c] = "done"]
    BY DEF Store, Goto
  <1>6. at' \in [Call -> Places] /\ at'[c] = "done" /\ \A d \in Call \ {c} : at'[d] = at[d]
    BY <1>5 DEF PoolTyped, Places
  <1>7. new[c[2]] = r /\ \A i \in 1..Calls[c[1]] : i # c[2] => new[i] = results[c[1]][i]
    BY <1>1 DEF PoolTyped
  <1> HIDE DEF new
  <1>8. \A b \in Batches : results'[b] \in [1..Calls[b] -> Results \cup {"none"}]
    BY <1>3, <1>4 DEF PoolTyped
  <1>9. ASSUME NEW b \in Batches, NEW i \in 1..Calls[b], <<b, i>> # c
        PROVE  results'[b][i] = results[b][i]
    <2>1. b # c[1] \/ (b = c[1] /\ i # c[2])
      BY <1>1, <1>9
    <2> QED BY <1>4, <1>7, <2>1
  <1>10. results' = [results EXCEPT ![c[1]][c[2]] = r]
    BY DEF Store
  <1> QED BY <1>4, <1>6, <1>7, <1>8, <1>9, <1>10

\* A step that ends a call keeps the invariant, when the result is what it should be.
LEMMA StoreKeeps ==
  ASSUME PoolInv, NEW c \in Call, NEW r \in Results, Store(c, r), at[c] # "done",
         UNCHANGED <<phase, told, reply, claimed>>,
         stopped => stopped', cause' \subseteq claimed', cause' # {} => stopped',
         r = "stopped" => stopped' /\ reply[c] = "none",
         reply[c] # "none" => r = reply[c]
  PROVE  PoolInv'
  <1> USE DEF PoolInv
  <1>1. /\ DOMAIN results' = Batches
        /\ \A b \in Batches : results'[b] \in [1..Calls[b] -> Results \cup {"none"}]
        /\ at' \in [Call -> Places]
        /\ at'[c] = "done" /\ \A d \in Call \ {c} : at'[d] = at[d]
        /\ results'[c[1]][c[2]] = r
        /\ \A b \in Batches : \A i \in 1..Calls[b] :
               <<b, i>> # c => results'[b][i] = results[b][i]
    BY StoreFills
  <1>2. c[1] \in Batches /\ c[2] \in 1..Calls[c[1]] /\ c = <<c[1], c[2]>>
    BY CallShape
  <1>3. r # "none"
    BY DEF Results, AllAnswers
  <1>4. PoolTyped'
    BY <1>1 DEF PoolTyped
  <1>5. Slots'
    <2> SUFFICES ASSUME NEW b \in Batches, NEW i \in 1..Calls[b]
                 PROVE  results'[b][i] = "none" <=> at'[<<b, i>>] # "done"
      BY DEF Slots
    <2>1. CASE <<b, i>> = c
      BY <1>1, <1>3, <2>1
    <2>2. CASE <<b, i>> # c
      <3>1. <<b, i>> \in Call
        BY CallShape
      <3> QED BY <1>1, <2>2, <3>1 DEF Slots
    <2> QED BY <2>1, <2>2
  <1>6. ToldInOrder'
    <2>1. phase[c[1]] \in {"new", "feeding"}
      BY <1>2 DEF ToldInOrder, PoolTyped
    <2> SUFFICES ASSUME NEW b \in Batches
                 PROVE  /\ phase[b] \in {"replaying", "returned"} =>
                              \A i \in 1..Calls[b] : at'[<<b, i>>] = "done"
                        /\ phase[b] \in {"new", "feeding"} => told[b] = <<>>
                        /\ \A n \in DOMAIN told[b] : \A j \in Untold(b)' : told[b][n] < j
      BY DEF ToldInOrder
    <2>2. CASE b = c[1]
      <3>1. told[b] = <<>> /\ phase[b] \notin {"replaying", "returned"}
        BY <2>1, <2>2 DEF ToldInOrder
      <3> QED BY <3>1
    <2>3. CASE b # c[1]
      <3>1. \A i \in 1..Calls[b] : <<b, i>> \in Call \ {c}
        BY <1>2, <2>3, CallShape
      <3>2. \A i \in 1..Calls[b] : at'[<<b, i>>] = at[<<b, i>>] /\ results'[b][i] = results[b][i]
        BY <1>1, <3>1
      <3>3. Untold(b)' = Untold(b)
        BY <3>2 DEF Untold
      <3> QED BY <3>2, <3>3 DEF ToldInOrder
    <2> QED BY <2>2, <2>3
  <1>7. Outcomes'
    <2> SUFFICES ASSUME NEW b \in Batches, NEW i \in 1..Calls[b]
                 PROVE  LET d == <<b, i>> IN
                    /\ at'[d] \in {"unfed", "offered", "taken", "queued", "held"} => reply[d] = "none"
                    /\ at'[d] \in {"answered", "claiming"} => reply[d] # "none"
                    /\ at'[d] = "claiming" => reply[d] = "denied"
                    /\ at'[d] = "done" =>
                          /\ results'[b][i] = "stopped" => stopped' /\ reply[d] = "none"
                          /\ reply[d] # "none" => results'[b][i] = reply[d]
      BY DEF Outcomes
    <2>1. CASE <<b, i>> = c
      BY <1>1, <2>1
    <2>2. CASE <<b, i>> # c
      <3>1. <<b, i>> \in Call
        BY CallShape
      <3> QED BY <1>1, <2>2, <3>1 DEF Outcomes
    <2> QED BY <2>1, <2>2
  <1>8. Claims'
    BY <1>1 DEF Claims
  <1> QED BY <1>4, <1>5, <1>6, <1>7, <1>8

\* A step on the way: no call is done by it, and the replies of calls not asked yet stay.
LEMMA MovingKeeps ==
  ASSUME PoolInv, UNCHANGED <<phase, told, results, stopped, cause>>,
         NEW c \in Call, NEW place \in Places, Goto(c, place), at[c] # "done", place # "done",
         reply' \in [Call -> Replies], \A d \in Call \ {c} : reply'[d] = reply[d],
         place \in {"unfed", "offered", "taken", "queued", "held"} => reply'[c] = "none",
         place \in {"answered", "claiming"} => reply'[c] # "none",
         place = "claiming" => reply'[c] = "denied" /\ c \in claimed',
         claimed \subseteq claimed', \A d, e \in claimed' : d = e
  PROVE  PoolInv'
  <1> USE DEF PoolInv
  <1>1. at' \in [Call -> Places] /\ at'[c] = place /\ \A d \in Call \ {c} : at'[d] = at[d]
    BY DEF Goto, PoolTyped
  <1>2. PoolTyped'
    BY <1>1 DEF PoolTyped
  <1>3. \A d \in Call : at'[d] = "done" <=> at[d] = "done"
    BY <1>1
  <1>4. Slots'
    BY <1>3, CallShape DEF Slots
  <1>5. \A b \in Batches : Untold(b)' = Untold(b)
    BY DEF Untold
  <1>6. ToldInOrder'
    BY <1>3, <1>5, CallShape DEF ToldInOrder
  <1>7. Outcomes'
    <2> SUFFICES ASSUME NEW b \in Batches, NEW i \in 1..Calls[b]
                 PROVE  LET d == <<b, i>> IN
                    /\ at'[d] \in {"unfed", "offered", "taken", "queued", "held"} => reply'[d] = "none"
                    /\ at'[d] \in {"answered", "claiming"} => reply'[d] # "none"
                    /\ at'[d] = "claiming" => reply'[d] = "denied"
                    /\ at'[d] = "done" =>
                          /\ results[b][i] = "stopped" => stopped /\ reply'[d] = "none"
                          /\ reply'[d] # "none" => results[b][i] = reply'[d]
      BY DEF Outcomes
    <2>1. <<b, i>> \in Call
      BY CallShape
    <2>2. CASE <<b, i>> = c
      BY <1>1, <2>2
    <2>3. CASE <<b, i>> # c
      BY <1>1, <2>1, <2>3 DEF Outcomes
    <2> QED BY <2>2, <2>3
  <1>8. Claims'
    BY <1>1 DEF Claims
  <1> QED BY <1>2, <1>4, <1>6, <1>7, <1>8

-----------------------------------------------------------------------------
LEMMA InitPoolInv == Init => PoolInv
  <1> SUFFICES ASSUME Init PROVE PoolInv
    OBVIOUS
  <1>1. PoolTyped
    BY DEF Init, PoolTyped, Places, Replies
  <1>2. Slots /\ Outcomes
    BY CallShape DEF Init, Slots, Outcomes
  <1>3. ToldInOrder
    BY DEF Init, ToldInOrder
  <1>4. Claims
    BY DEF Init, Claims
  <1> QED BY <1>1, <1>2, <1>3, <1>4 DEF PoolInv

\* One call's own steps.
LEMMA WorkKeeps == ASSUME PoolInv, NEW c \in Call, Work(c) PROVE PoolInv'
  <1>0. /\ c[1] \in Batches /\ c[2] \in 1..Calls[c[1]] /\ c = <<c[1], c[2]>>
        /\ at[c] \in Places /\ reply \in [Call -> Replies]
        /\ claimed \subseteq claimed /\ \A d, e \in claimed : d = e
        /\ cause \subseteq claimed /\ (cause # {} => stopped)
    BY CallShape DEF PoolInv, PoolTyped, Claims
  <1>1. /\ at[c] \in {"unfed", "offered", "taken", "queued", "held"} => reply[c] = "none"
        /\ at[c] \in {"answered", "claiming"} => reply[c] # "none"
        /\ at[c] = "claiming" => reply[c] = "denied"
    BY <1>0 DEF PoolInv, Outcomes
  <1> USE DEF run, log
  <1>2. CASE Skip(c)
    <2>1. Store(c, "stopped") /\ at[c] = "unfed" /\ stopped
          /\ UNCHANGED <<phase, told, reply, claimed, stopped, cause>>
      BY <1>2 DEF Skip
    <2>2. "stopped" \in Results
      BY DEF Results
    <2> QED BY <1>0, <1>1, <2>1, <2>2, StoreKeeps
  <1>3. CASE Offer(c)
    <2>1. Goto(c, "offered") /\ at[c] = "unfed"
          /\ UNCHANGED <<phase, told, reply, results, claimed, stopped, cause>>
      BY <1>3 DEF Offer
    <2>2. "offered" \in Places
      BY DEF Places
    <2> QED BY <1>0, <1>1, <2>1, <2>2, MovingKeeps
  <1>4. CASE Accept(c)
    <2>1. Goto(c, "taken") /\ at[c] = "offered"
          /\ UNCHANGED <<phase, told, reply, results, claimed, stopped, cause>>
      BY <1>4 DEF Accept
    <2>2. "taken" \in Places
      BY DEF Places
    <2> QED BY <1>0, <1>1, <2>1, <2>2, MovingKeeps
  <1>5. CASE Prepare(c)
    <2>1. at[c] = "taken" /\ UNCHANGED <<phase, told, reply, claimed, stopped, cause>>
          /\ \/ stopped /\ Store(c, "stopped")
             \/ \E r \in {"unprepared", "cached"} : Store(c, r)
             \/ Goto(c, "queued") /\ UNCHANGED results
      BY <1>5 DEF Prepare
    <2>2. "stopped" \in Results /\ {"unprepared", "cached"} \subseteq Results
          /\ "queued" \in Places
      BY DEF Results, Places
    <2>3. CASE stopped /\ Store(c, "stopped")
      BY <1>0, <1>1, <2>1, <2>2, <2>3, StoreKeeps
    <2>4. ASSUME NEW r \in {"unprepared", "cached"}, Store(c, r) PROVE PoolInv'
      <3>1. r \in Results /\ r # "stopped"
        BY <2>2
      <3> QED BY <1>0, <1>1, <2>1, <2>4, <3>1, StoreKeeps
    <2>5. CASE Goto(c, "queued") /\ UNCHANGED results
      BY <1>0, <1>1, <2>1, <2>2, <2>5, MovingKeeps
    <2> QED BY <2>1, <2>3, <2>4, <2>5
  <1>6. CASE GiveUp(c)
    <2>1. Store(c, "interrupted") /\ at[c] = "queued"
          /\ UNCHANGED <<phase, told, reply, claimed, stopped, cause>>
      BY <1>6 DEF GiveUp
    <2>2. "interrupted" \in Results
      BY DEF Results
    <2> QED BY <1>0, <1>1, <2>1, <2>2, StoreKeeps
  <1>7. CASE Start(c)
    <2>1. Goto(c, "held") /\ at[c] = "queued"
          /\ UNCHANGED <<phase, told, reply, results, claimed, stopped, cause>>
      BY <1>7 DEF Start
    <2>2. "held" \in Places
      BY DEF Places
    <2> QED BY <1>0, <1>1, <2>1, <2>2, MovingKeeps
  <1>8. ASSUME NEW a \in Answers \cup {"interrupted"}, Answer(c, a) PROVE PoolInv'
    <2>1. Goto(c, "answered") /\ at[c] = "held" /\ reply' = [reply EXCEPT ![c] = a]
          /\ UNCHANGED <<phase, told, results, claimed, stopped, cause>>
      BY <1>8 DEF Answer
    <2>2. "answered" \in Places /\ a \in Replies /\ a # "none"
      BY PoolAssumption DEF Places, Replies, AllAnswers
    <2>3. reply' \in [Call -> Replies] /\ reply'[c] = a /\ \A d \in Call \ {c} : reply'[d] = reply[d]
      BY <1>0, <2>1, <2>2
    <2> QED BY <1>0, <1>1, <2>1, <2>2, <2>3, MovingKeeps
  <1>9. CASE Finish(c)
    <2>1. Store(c, reply[c]) /\ at[c] = "answered" /\ reply[c] # "none"
          /\ UNCHANGED <<phase, told, reply, claimed, stopped, cause>>
      BY <1>1, <1>9 DEF Finish
    <2>2. reply[c] \in Results /\ reply[c] # "stopped"
      BY <1>0, <2>1 DEF Replies, Results, AllAnswers
    <2> QED BY <1>0, <1>1, <2>1, <2>2, StoreKeeps
  <1>10. CASE Denied(c)
    <2>1. at[c] = "answered" /\ reply[c] = "denied"
          /\ UNCHANGED <<phase, told, reply, stopped, cause>>
          /\ \/ /\ claimed = {} /\ claimed' = claimed \cup {c}
                /\ Goto(c, "claiming") /\ UNCHANGED results
             \/ Store(c, "denied") /\ claimed' = claimed
      BY <1>10 DEF Denied, FirstClaim
    <2>2. "claiming" \in Places /\ "denied" \in Results
      BY DEF Places, Results, AllAnswers
    <2>3. CASE claimed = {} /\ claimed' = claimed \cup {c}
               /\ Goto(c, "claiming") /\ UNCHANGED results
      BY <1>0, <2>1, <2>2, <2>3, MovingKeeps
    <2>4. CASE Store(c, "denied") /\ claimed' = claimed
      BY <1>0, <2>1, <2>2, <2>4, StoreKeeps
    <2> QED BY <2>1, <2>3, <2>4
  <1>11. CASE Abort(c)
    <2>1. Store(c, "denied") /\ at[c] = "claiming" /\ stopped'
          /\ cause' = (IF stopped THEN cause ELSE {c})
          /\ UNCHANGED <<phase, told, reply, claimed>>
      BY <1>11 DEF Abort, End
    <2>2. "denied" \in Results /\ c \in claimed /\ reply[c] = "denied"
      BY <1>1, <2>1 DEF Results, AllAnswers, PoolInv, Claims
    <2>3. cause' \subseteq claimed'
      BY <1>0, <2>1, <2>2
    <2> QED BY <2>1, <2>2, <2>3, StoreKeeps
  <1> QED BY <1>2, <1>3, <1>4, <1>5, <1>6, <1>7, <1>8, <1>9, <1>10, <1>11 DEF Work

\* The replay tells the first call that was not told.
LEMMA ReplayTells ==
  ASSUME PoolInv, NEW b \in Batches, Replay(b)
  PROVE  PoolInv' /\ \E i \in 1..Calls[b] : InOrder!Tell(b, i)
  <1> USE DEF PoolInv
  <1>1. PICK i \in NextUntold(b) : told' = [told EXCEPT ![b] = Append(@, i)]
    BY DEF Replay
  <1>2. i \in Untold(b) /\ (\A j \in Untold(b) : i <= j) /\ i \in 1..Calls[b]
    BY <1>1 DEF NextUntold, Untold
  <1>3. phase[b] = "replaying"
        /\ UNCHANGED <<phase, at, reply, results, stopped, cause, claimed>>
    BY DEF Replay, run
  <1>4. told[b] \in Seq(1..Calls[b]) /\ DOMAIN told = Batches /\ Calls[b] \in Nat
    BY PoolAssumption DEF PoolTyped
  <1>5. told'[b] = Append(told[b], i) /\ DOMAIN told' = Batches
        /\ \A a \in Batches \ {b} : told'[a] = told[a]
    BY <1>1, <1>4
  <1>6. /\ told'[b] \in Seq(1..Calls[b])
        /\ DOMAIN told'[b] = 1..(Len(told[b]) + 1) /\ DOMAIN told[b] = 1..Len(told[b])
        /\ Len(told[b]) \in Nat /\ told'[b][Len(told[b]) + 1] = i
        /\ \A n \in 1..Len(told[b]) : told'[b][n] = told[b][n]
    BY <1>2, <1>4, <1>5
  <1>7. PoolTyped'
    BY <1>3, <1>5, <1>6 DEF PoolTyped
  <1>8. Slots' /\ Outcomes' /\ Claims'
    BY <1>3 DEF Slots, Outcomes, Claims
  <1>9. ToldInOrder'
    <2>1. Untold(b)' = Untold(b) \ {i}
      <3>1. \A j \in 1..Calls[b] : (\A n \in DOMAIN told'[b] : told'[b][n] # j)
                <=> (\A n \in DOMAIN told[b] : told[b][n] # j) /\ j # i
        BY <1>6
      <3> QED BY <1>3, <3>1 DEF Untold
    <2>2. \A a \in Batches \ {b} : Untold(a)' = Untold(a)
      BY <1>3, <1>5 DEF Untold
    <2>3. ASSUME NEW n \in DOMAIN told'[b], NEW j \in Untold(b)' PROVE told'[b][n] < j
      <3>1. j \in Untold(b) /\ j # i /\ i <= j /\ j \in 1..Calls[b]
        BY <1>2, <2>1 DEF Untold
      <3>2. CASE n = Len(told[b]) + 1
        BY <1>2, <1>4, <1>6, <3>1, <3>2
      <3>3. CASE n \in 1..Len(told[b])
        BY <1>6, <3>1, <3>3 DEF ToldInOrder
      <3> QED BY <1>6, <3>2, <3>3
    <2> QED BY <1>3, <1>5, <2>2, <2>3 DEF ToldInOrder
  <1>10. InOrder!Tell(b, i)
    <2>1. \A j \in 1..Calls[b] : results[b][j] # "none"
      BY <1>3 DEF ToldInOrder, Slots
    <2>2. results[b][i] \notin Silent
      BY <1>2 DEF Untold
    <2>3. \A n \in DOMAIN told[b] : told[b][n] < i
      BY <1>2 DEF ToldInOrder
    <2>4. ASSUME NEW j \in 1..i-1, results[b][j] \notin Silent
          PROVE  \E n \in DOMAIN told[b] : told[b][n] = j
      <3>1. j \in 1..Calls[b] /\ j \notin Untold(b)
        BY <1>2, <1>4
      <3> QED BY <2>1, <2>4, <3>1 DEF Untold
    <2> QED BY <1>1, <1>3, <2>1, <2>2, <2>3, <2>4 DEF InOrder!Tell
  <1> QED BY <1>2, <1>7, <1>8, <1>9, <1>10

LEMMA NextPoolInv == PoolInv /\ [Next]_vars => PoolInv'
  <1> SUFFICES ASSUME PoolInv, [Next]_vars PROVE PoolInv'
    OBVIOUS
  <1> USE DEF pool, run, log
  <1>1. ASSUME UNCHANGED <<phase, at, reply, results, told, claimed>>,
               stopped => stopped', cause' \subseteq claimed, cause' # {} => stopped'
        PROVE  PoolInv'
    <2>1. \A b \in Batches : Untold(b)' = Untold(b)
      BY <1>1 DEF Untold
    <2> QED
      BY <1>1, <2>1 DEF PoolInv, PoolTyped, Slots, ToldInOrder, Outcomes, Claims
  <1>2. ASSUME NEW b \in Batches, Begin(b) \/ Close(b) \/ Return(b) PROVE PoolInv'
    <2>1. /\ UNCHANGED <<at, reply, results, told, stopped, cause, claimed>>
          /\ \/ phase[b] = "new" /\ phase' = [phase EXCEPT ![b] = "feeding"]
             \/ phase[b] = "feeding" /\ phase' = [phase EXCEPT ![b] = "replaying"] /\ Ended(b)
             \/ phase[b] = "replaying" /\ phase' = [phase EXCEPT ![b] = "returned"]
      BY <1>2 DEF Begin, Close, Return
    <2>2. PoolTyped' /\ Slots' /\ Outcomes' /\ Claims'
      <3>1. PoolTyped'
        BY <2>1 DEF PoolInv, PoolTyped
      <3>2. Slots' /\ Outcomes' /\ Claims'
        BY <2>1 DEF PoolInv, Slots, Outcomes, Claims
      <3> QED BY <3>1, <3>2
    <2>3. \A a \in Batches : Untold(a)' = Untold(a)
      BY <2>1 DEF Untold
    <2>4. \A a \in Batches \ {b} : phase'[a] = phase[a]
      BY <2>1 DEF PoolInv, PoolTyped
    <2>5. phase'[b] \in {"replaying", "returned"} => \A i \in 1..Calls[b] : at[<<b, i>>] = "done"
      BY <2>1 DEF PoolInv, PoolTyped, ToldInOrder, Ended
    <2>6. phase'[b] \in {"new", "feeding"} => told[b] = <<>>
      BY <2>1 DEF PoolInv, PoolTyped, ToldInOrder
    <2>7. ToldInOrder'
      BY <2>1, <2>3, <2>4, <2>5, <2>6 DEF PoolInv, ToldInOrder
    <2> QED BY <2>2, <2>7 DEF PoolInv
  <1>3. ASSUME NEW b \in Batches, Replay(b) PROVE PoolInv'
    BY <1>3, ReplayTells
  <1>4. ASSUME NEW c \in Call, Work(c) PROVE PoolInv'
    BY <1>4, WorkKeeps
  <1>5. CASE Interrupt
    BY <1>1, <1>5 DEF Interrupt, End
  <1>6. CASE FlushJournal \/ WriteJournal \/ Finished \/ UNCHANGED vars
    <2>1. UNCHANGED <<pool, run>>
      BY <1>6 DEF FlushJournal, WriteJournal, Finished, vars
    <2> QED BY <1>1, <2>1 DEF PoolInv, Claims
  <1> QED BY <1>2, <1>3, <1>4, <1>5, <1>6 DEF Next

\* Calls, slots, results and the replayed events of a batch agree at every moment,
\* and so do the stop and its claims.  (ExecuteJSONEach, abortRun)
THEOREM PoolInvariance == Spec => []PoolInv
  BY InitPoolInv, NextPoolInv, PTL DEF Spec

\* Whoever stopped the batch and wherever, a call the provider was never asked
\* for says so, and one it answered has its answer.
THEOREM NeverAskedSafety == Spec => []NeverAskedSaysSo
  <1>1. PoolInv => NeverAskedSaysSo
    BY DEF PoolInv, ToldInOrder, Slots, Outcomes, NeverAskedSaysSo
  <1> QED BY <1>1, PoolInvariance, PTL

\* At most one refusal stops the run, and it is what the run ended for.
THEOREM OneStopSafety == Spec => []OneStopAnnounced
  <1>1. PoolInv => OneStopAnnounced
    <2> SUFFICES ASSUME PoolInv PROVE OneStopAnnounced
      OBVIOUS
    <2>1. Cardinality(claimed) <= 1
      <3>1. CASE claimed = {}
        BY <3>1, FS_EmptySet
      <3>2. CASE claimed # {}
        <4>1. PICK c \in claimed : TRUE
          BY <3>2
        <4>2. claimed = {c}
          BY <4>1 DEF PoolInv, Claims
        <4>3. Cardinality({c}) = 1
          BY FS_Singleton
        <4> QED BY <4>2, <4>3
      <3> QED BY <3>1, <3>2
    <2> QED BY <2>1 DEF PoolInv, Claims, OneStopAnnounced
  <1> QED BY <1>1, PoolInvariance, PTL

-----------------------------------------------------------------------------
\* A call that ends settles its slot in the batch that runs one after another.
LEMMA StoreSettles ==
  ASSUME PoolInv, NEW c \in Call, NEW r \in Results, Store(c, r), at[c] # "done",
         UNCHANGED told
  PROVE  InOrder!Next
  <1>1. c[1] \in Batches /\ c[2] \in 1..Calls[c[1]] /\ c = <<c[1], c[2]>>
    BY CallShape
  <1>2. results[c[1]][c[2]] = "none"
    BY <1>1 DEF PoolInv, Slots
  <1>3. results' = [results EXCEPT ![c[1]][c[2]] = r]
    BY DEF Store
  <1>4. InOrder!Settle(c[1], c[2], r)
    BY <1>2, <1>3 DEF InOrder!Settle
  <1> QED BY <1>1, <1>4 DEF InOrder!Next

LEMMA WorkSettles ==
  ASSUME PoolInv, NEW c \in Call, Work(c)
  PROVE  InOrder!Next \/ UNCHANGED <<results, told>>
  <1> USE DEF run, log
  <1>1. CASE Skip(c) \/ GiveUp(c)
    <2>1. at[c] # "done" /\ UNCHANGED told
          /\ \E r \in {"stopped", "interrupted"} : Store(c, r)
      BY <1>1 DEF Skip, GiveUp
    <2>2. {"stopped", "interrupted"} \subseteq Results
      BY DEF Results
    <2> QED BY <2>1, <2>2, StoreSettles
  <1>2. CASE Prepare(c)
    <2>1. at[c] # "done" /\ UNCHANGED told
          /\ (UNCHANGED results \/ \E r \in {"stopped", "unprepared", "cached"} : Store(c, r))
      BY <1>2 DEF Prepare
    <2>2. {"stopped", "unprepared", "cached"} \subseteq Results
      BY DEF Results
    <2> QED BY <2>1, <2>2, StoreSettles
  <1>3. CASE Finish(c)
    <2>1. at[c] = "answered" /\ UNCHANGED told /\ Store(c, reply[c])
      BY <1>3 DEF Finish
    <2>2. reply[c] \in Replies /\ reply[c] # "none"
      <3>1. c[1] \in Batches /\ c[2] \in 1..Calls[c[1]] /\ c = <<c[1], c[2]>>
        BY CallShape
      <3>2. reply[c] # "none"
        BY <2>1, <3>1 DEF PoolInv, Outcomes
      <3> QED BY <3>2 DEF PoolInv, PoolTyped
    <2>3. reply[c] \in Results
      BY <2>2 DEF Replies, Results
    <2> QED BY <2>1, <2>3, StoreSettles
  <1>4. CASE Denied(c) \/ Abort(c)
    <2>1. at[c] # "done" /\ UNCHANGED told /\ (UNCHANGED results \/ Store(c, "denied"))
      BY <1>4 DEF Denied, Abort
    <2>2. "denied" \in Results
      BY DEF Results, AllAnswers
    <2> QED BY <2>1, <2>2, StoreSettles
  <1>5. CASE Offer(c) \/ Accept(c) \/ Start(c)
             \/ \E a \in Answers \cup {"interrupted"} : Answer(c, a)
    BY <1>5 DEF Offer, Accept, Start, Answer
  <1> QED BY <1>1, <1>2, <1>3, <1>4, <1>5 DEF Work

\* A pool of workers implements the batch that runs one call after another.
THEOREM PoolIsSequential == Spec => OneAfterAnother
  <1>1. Init => InOrder!Init
    BY DEF Init, InOrder!Init
  <1>2. PoolInv /\ [Next]_vars => [InOrder!Next]_(InOrder!vars)
    <2> SUFFICES ASSUME PoolInv, [Next]_vars
                 PROVE  InOrder!Next \/ UNCHANGED <<results, told>>
      BY DEF InOrder!vars
    <2> USE DEF pool, run, log
    <2>1. ASSUME NEW b \in Batches, Begin(b) \/ Close(b) \/ Return(b)
          PROVE  UNCHANGED <<results, told>>
      BY <2>1 DEF Begin, Close, Return
    <2>2. ASSUME NEW b \in Batches, Replay(b) PROVE InOrder!Next
      BY <2>2, ReplayTells DEF InOrder!Next
    <2>3. ASSUME NEW c \in Call, Work(c) PROVE InOrder!Next \/ UNCHANGED <<results, told>>
      BY <2>3, WorkSettles
    <2>4. CASE Interrupt \/ FlushJournal \/ WriteJournal \/ Finished \/ UNCHANGED vars
      BY <2>4 DEF Interrupt, FlushJournal, WriteJournal, Finished, vars
    <2> QED BY <2>1, <2>2, <2>3, <2>4 DEF Next
  <1> QED BY <1>1, <1>2, PoolInvariance, PTL DEF Spec, OneAfterAnother, InOrder!Spec

-----------------------------------------------------------------------------
(* The journal of the replayed events.                                       *)

Exchanged == [stage : Stages, event : Nat, ordinal : Nat]

JournalTyped ==
    /\ ordinals \in [Stages -> Nat]
    /\ pending \in Seq(Exchanged) /\ flushing \in Seq(Exchanged)
    /\ hand \in [Stages -> {<<>>} \cup {<<x>> : x \in Exchanged}]
    /\ committed \subseteq Exchanged /\ warned \subseteq Exchanged

\* An exchange is of an event that was replayed, and an event that was replayed
\* and is recorded has its exchange.
ToldExchanged ==
    /\ \A x \in Exchanges : \E n \in DOMAIN told[x.stage] : told[x.stage][n] = x.event
    /\ \A b \in Batches : \A n \in DOMAIN told[b] :
          results[b][told[b][n]] \notin Unrecorded =>
             \E x \in Exchanges : x.stage = b /\ x.event = told[b][n]

\* Ordinals are used once, up to the stage's count, in the order of the events.
Numbered ==
    \A s \in Stages :
        /\ \A k \in 1..ordinals[s] : \E x \in Exchanges : x.stage = s /\ x.ordinal = k
        /\ \A x, y \in Exchanges : x.stage = s /\ y.stage = s =>
              /\ x.ordinal \in 1..ordinals[s]
              /\ x.ordinal < y.ordinal <=> x.event < y.event

\* After the batches were joined nobody is left to observe anything of theirs.
NothingKept ==
    /\ \A n \in DOMAIN pending : pending[n].stage \in FirstLayer
    /\ flushed = "joined" => Joined /\ pending = <<>>

JournalInv == JournalTyped /\ ToldExchanged /\ Numbered /\ NothingKept

\* What is in the hand of a stage is in the journal.
LEMMA HandShape ==
  ASSUME JournalTyped, NEW s \in Stages
  PROVE  hand[s] = <<>> \/ \E x \in Exchanged : hand[s] = <<x>> /\ ToSet(hand[s]) = {x}
  BY DEF JournalTyped, ToSet

\* Taking the first off a sequence takes nothing else.
LEMMA HeadAndTail ==
  ASSUME NEW q \in Seq(Exchanged), q # <<>>
  PROVE  /\ Head(q) \in Exchanged /\ Tail(q) \in Seq(Exchanged)
         /\ ToSet(q) = {Head(q)} \cup ToSet(Tail(q))
  <1>1. /\ Len(q) \in Nat \ {0} /\ DOMAIN q = 1..Len(q)
        /\ Head(q) = q[1] /\ Tail(q) \in Seq(Exchanged)
        /\ DOMAIN Tail(q) = 1..(Len(q) - 1)
        /\ \A n \in 1..(Len(q) - 1) : Tail(q)[n] = q[n+1]
    OBVIOUS
  <1>2. ASSUME NEW n \in 1..Len(q) PROVE q[n] \in {Head(q)} \cup ToSet(Tail(q))
    <2>1. CASE n = 1
      BY <1>1, <2>1
    <2>2. CASE n # 1
      <3>1. n - 1 \in 1..(Len(q) - 1) /\ Tail(q)[n-1] = q[n]
        BY <1>1, <2>2
      <3> QED BY <1>1, <3>1 DEF ToSet
    <2> QED BY <2>1, <2>2
  <1>3. \A n \in 1..(Len(q) - 1) : n + 1 \in 1..Len(q)
    BY <1>1
  <1>4. 1 \in 1..Len(q) /\ q[1] \in Exchanged
    BY <1>1
  <1> QED BY <1>1, <1>2, <1>3, <1>4 DEF ToSet

\* Writing an exchange, or setting a flush going, moves exchanges and loses none.
LEMMA WritingMoves ==
  ASSUME JournalTyped, Flush \/ FlushNext \/ \E s \in Stages : Record(s)
  PROVE  JournalTyped' /\ Exchanges' = Exchanges /\ UNCHANGED ordinals
  <1>1. CASE Flush
    <2>1. ToSet(<<>>) = {}
      BY DEF ToSet
    <2>2. flushing = <<>> /\ flushing' = pending /\ pending' = <<>>
          /\ UNCHANGED <<ordinals, hand, committed, warned>>
      BY <1>1 DEF Flush
    <2> QED BY <2>1, <2>2 DEF JournalTyped, Exchanges
  <1>2. CASE FlushNext
    <2>1. flushing # <<>> /\ Written(Head(flushing)) /\ flushing' = Tail(flushing)
          /\ UNCHANGED <<ordinals, pending, hand>>
      BY <1>2 DEF FlushNext
    <2>2. /\ Head(flushing) \in Exchanged /\ Tail(flushing) \in Seq(Exchanged)
          /\ ToSet(flushing) = {Head(flushing)} \cup ToSet(Tail(flushing))
      BY <2>1, HeadAndTail DEF JournalTyped
    <2> QED BY <2>1, <2>2 DEF Written, JournalTyped, Exchanges
  <1>3. ASSUME NEW s \in Stages, Record(s)
        PROVE  JournalTyped' /\ Exchanges' = Exchanges /\ UNCHANGED ordinals
    <2>1. hand[s] # <<>> /\ Written(Head(hand[s])) /\ hand' = [hand EXCEPT ![s] = <<>>]
          /\ UNCHANGED <<ordinals, pending, flushing>>
      BY <1>3 DEF Record
    <2>2. PICK x \in Exchanged : hand[s] = <<x>> /\ ToSet(hand[s]) = {x}
      BY <2>1, HandShape
    <2>3. Written(x)
      BY <2>1, <2>2
    <2>4. /\ hand' \in [Stages -> {<<>>} \cup {<<y>> : y \in Exchanged}]
          /\ hand'[s] = <<>> /\ \A t \in Stages \ {s} : hand'[t] = hand[t]
      BY <2>1 DEF JournalTyped
    <2>5. ToSet(<<>>) = {}
      BY DEF ToSet
    <2>6. UNION {ToSet(hand[t]) : t \in Stages} = {x} \cup UNION {ToSet(hand'[t]) : t \in Stages}
      BY <2>2, <2>4, <2>5
    <2> QED BY <2>1, <2>3, <2>4, <2>6 DEF Written, JournalTyped, Exchanges
  <1> QED BY <1>1, <1>2, <1>3

\* Observing adds the exchange of a recorded event, with the next ordinal, and only that.
LEMMA ObservingAdds ==
  ASSUME JournalTyped, NEW s \in Stages, NEW e \in Nat, NEW recorded \in BOOLEAN,
         ObserveStage(s, e, recorded)
  PROVE  /\ JournalTyped'
         /\ Exchanges' = IF recorded THEN Exchanges \cup {Exchange(s, e)} ELSE Exchanges
         /\ ordinals' = IF recorded THEN [ordinals EXCEPT ![s] = @ + 1] ELSE ordinals
         /\ Exchange(s, e) \in Exchanged
         /\ \/ pending' = pending
            \/ s \in FirstLayer /\ pending' = Append(pending, Exchange(s, e))
  <1> DEFINE x == Exchange(s, e)
  <1>1. x \in Exchanged
    BY DEF Exchange, Exchanged, JournalTyped
  <1>2. /\ hand[s] = <<>> /\ UNCHANGED <<flushing, committed, warned>>
        /\ ordinals' = IF recorded THEN [ordinals EXCEPT ![s] = @ + 1] ELSE ordinals
        /\ pending' = IF recorded /\ s \in FirstLayer THEN Append(pending, x) ELSE pending
        /\ hand' = IF recorded /\ s \notin FirstLayer THEN [hand EXCEPT ![s] = <<x>>] ELSE hand
    BY DEF ObserveStage, Counted
  <1> HIDE DEF x
  <1>3. ordinals' \in [Stages -> Nat]
    BY <1>2 DEF JournalTyped
  <1>4. CASE ~recorded
    BY <1>1, <1>2, <1>4 DEF JournalTyped, Exchanges, x
  <1>5. CASE recorded /\ s \in FirstLayer
    <2>1. pending' = Append(pending, x) /\ UNCHANGED hand
      BY <1>2, <1>5
    <2>2. pending' \in Seq(Exchanged) /\ ToSet(pending') = ToSet(pending) \cup {x}
      <3>1. /\ pending' \in Seq(Exchanged)
            /\ Len(pending) \in Nat /\ DOMAIN pending = 1..Len(pending)
            /\ DOMAIN pending' = 1..(Len(pending) + 1) /\ pending'[Len(pending) + 1] = x
            /\ \A n \in 1..Len(pending) : pending'[n] = pending[n]
        BY <1>1, <2>1 DEF JournalTyped
      <3> QED BY <3>1 DEF ToSet
    <2> QED BY <1>1, <1>2, <1>3, <1>5, <2>1, <2>2 DEF JournalTyped, Exchanges, x
  <1>6. CASE recorded /\ s \notin FirstLayer
    <2>1. hand' = [hand EXCEPT ![s] = <<x>>] /\ UNCHANGED pending
      BY <1>2, <1>6
    <2>2. /\ hand' \in [Stages -> {<<>>} \cup {<<y>> : y \in Exchanged}]
          /\ hand'[s] = <<x>> /\ \A t \in Stages \ {s} : hand'[t] = hand[t]
      BY <1>1, <2>1 DEF JournalTyped
    <2>3. ToSet(<<>>) = {} /\ ToSet(<<x>>) = {x}
      BY DEF ToSet
    <2>4. UNION {ToSet(hand'[t]) : t \in Stages} = {x} \cup UNION {ToSet(hand[t]) : t \in Stages}
      BY <1>2, <2>2, <2>3
    <2> QED BY <1>1, <1>2, <1>3, <1>6, <2>1, <2>2, <2>4 DEF JournalTyped, Exchanges, x
  <1> QED BY <1>4, <1>5, <1>6

-----------------------------------------------------------------------------
LEMMA InitJournalInv == Init => JournalInv
  <1> SUFFICES ASSUME Init PROVE JournalInv
    OBVIOUS
  <1>1. JournalInit /\ flushed = "no" /\ \A b \in Batches : told[b] = <<>>
    BY DEF Init
  <1>2. JournalTyped
    BY <1>1 DEF JournalInit, JournalTyped
  <1>3. Exchanges = {}
    BY <1>1 DEF JournalInit, Exchanges, ToSet
  <1>4. ToldExchanged /\ Numbered /\ NothingKept
    BY <1>1, <1>3 DEF JournalInit, ToldExchanged, Numbered, NothingKept
  <1> QED BY <1>2, <1>4 DEF JournalInv

\* A step that leaves the exchanges, what was replayed and its results alone.
LEMMA SameExchanges ==
  ASSUME JournalInv, JournalTyped', Exchanges' = Exchanges, UNCHANGED <<ordinals, told>>,
         \A b \in Batches : \A n \in DOMAIN told[b] : results'[b][told[b][n]] = results[b][told[b][n]],
         NothingKept'
  PROVE  JournalInv'
  <1>1. ToldExchanged'
    BY DEF JournalInv, ToldExchanged
  <1>2. Numbered'
    BY DEF JournalInv, Numbered
  <1> QED BY <1>1, <1>2 DEF JournalInv

\* What was replayed has a result, which stands.
LEMMA ToldStands ==
  ASSUME PoolInv, NEW b \in Batches, told[b] # <<>>
  PROVE  phase[b] \in {"replaying", "returned"} /\ \A i \in 1..Calls[b] : at[<<b, i>>] = "done"
  BY DEF PoolInv, PoolTyped, ToldInOrder

\* The steps of a call touch neither the journal nor a result that was replayed.
LEMMA WorkKeepsJournal == ASSUME PoolInv, JournalInv, NEW c \in Call, Work(c) PROVE JournalInv'
  <1>1. UNCHANGED <<phase, told, log>> /\ at[c] # "done"
        /\ (UNCHANGED results \/ \E r \in Results : Store(c, r))
    <2> USE DEF run
    <2>1. CASE Skip(c) \/ GiveUp(c) \/ Prepare(c)
      <3>1. {"stopped", "interrupted", "unprepared", "cached"} \subseteq Results
        BY DEF Results
      <3> QED BY <2>1, <3>1 DEF Skip, GiveUp, Prepare
    <2>2. CASE Finish(c)
      <3>1. c[1] \in Batches /\ c[2] \in 1..Calls[c[1]] /\ c = <<c[1], c[2]>> /\ at[c] = "answered"
        BY <2>2, CallShape DEF Finish
      <3>2. reply[c] \in Replies \ {"none"}
        BY <3>1 DEF PoolInv, PoolTyped, Outcomes
      <3>3. reply[c] \in Results
        BY <3>2 DEF Replies, Results
      <3> QED BY <2>2, <3>3 DEF Finish
    <2>3. CASE Denied(c) \/ Abort(c)
      <3>1. "denied" \in Results
        BY DEF Results, AllAnswers
      <3> QED BY <2>3, <3>1 DEF Denied, Abort
    <2>4. CASE Offer(c) \/ Accept(c) \/ Start(c)
               \/ \E a \in Answers \cup {"interrupted"} : Answer(c, a)
      BY <2>4 DEF Offer, Accept, Start, Answer
    <2> QED BY <2>1, <2>2, <2>3, <2>4 DEF Work
  <1>2. UNCHANGED <<ordinals, pending, hand, flushing, committed, warned, flushed>>
    BY <1>1 DEF log, journal
  <1>3. ASSUME NEW b \in Batches, NEW n \in DOMAIN told[b]
        PROVE  results'[b][told[b][n]] = results[b][told[b][n]]
    <2>1. CASE UNCHANGED results
      BY <2>1
    <2>2. ASSUME NEW r \in Results, Store(c, r)
          PROVE  results'[b][told[b][n]] = results[b][told[b][n]]
      <3>0. told[b] \in Seq(1..Calls[b])
        BY DEF PoolInv, PoolTyped
      <3>1. told[b] # <<>> /\ told[b][n] \in 1..Calls[b]
        <4> DEFINE T == 1..Calls[b]
        <4>1. told[b] \in Seq(T) /\ n \in DOMAIN told[b]
          BY <1>3, <3>0
        <4> HIDE DEF T
        <4>2. told[b][n] \in T
          BY <4>1
        <4>3. told[b] # <<>>
          BY <4>1
        <4> QED BY <4>2, <4>3 DEF T
      <3>2. at[<<b, told[b][n]>>] = "done"
        BY <3>1, ToldStands
      <3>3. <<b, told[b][n]>> # c
        BY <1>1, <3>2
      <3> DEFINE i == told[b][n]
      <3>4. \A k \in 1..Calls[b] : <<b, k>> # c => results'[b][k] = results[b][k]
        BY <2>2, StoreFills DEF PoolInv
      <3>5. i \in 1..Calls[b] /\ <<b, i>> # c
        BY <3>1, <3>3
      <3> HIDE DEF i
      <3>6. results'[b][i] = results[b][i]
        BY <3>4, <3>5
      <3> QED BY <3>6 DEF i
    <2> QED BY <1>1, <2>1, <2>2
  <1>4. JournalTyped' /\ Exchanges' = Exchanges /\ NothingKept'
    BY <1>1, <1>2 DEF JournalInv, JournalTyped, Exchanges, NothingKept, Joined
  <1> QED BY <1>1, <1>2, <1>3, <1>4, SameExchanges

\* The replay of the next event: its exchange, when it is recorded, comes last.
LEMMA ReplayKeepsJournal == ASSUME PoolInv, JournalInv, NEW b \in Batches, Replay(b) PROVE JournalInv'
  <1>1. PICK i \in NextUntold(b) :
            /\ told' = [told EXCEPT ![b] = Append(@, i)]
            /\ ObserveStage(b, i, results[b][i] \notin Unrecorded)
    BY DEF Replay
  <1> DEFINE recorded == results[b][i] \notin Unrecorded
             x == Exchange(b, i)
  <1>2. phase[b] = "replaying" /\ UNCHANGED <<phase, results, flushed>>
    BY DEF Replay
  <1>3. i \in Untold(b) /\ i \in 1..Calls[b] /\ i \in Nat
    BY <1>1, PoolAssumption DEF NextUntold, Untold
  <1>4. told[b] \in Seq(1..Calls[b]) /\ DOMAIN told = Batches /\ Calls[b] \in Nat
    BY PoolAssumption DEF PoolInv, PoolTyped
  <1>5. told'[b] = Append(told[b], i) /\ \A a \in Batches \ {b} : told'[a] = told[a]
    BY <1>1, <1>4
  <1>6. /\ DOMAIN told'[b] = 1..(Len(told[b]) + 1) /\ DOMAIN told[b] = 1..Len(told[b])
        /\ Len(told[b]) \in Nat /\ told'[b][Len(told[b]) + 1] = i
        /\ \A n \in 1..Len(told[b]) : told'[b][n] = told[b][n]
    BY <1>3, <1>4, <1>5
  <1>7. \A n \in DOMAIN told[b] : told[b][n] < i /\ told[b][n] \in Nat
    BY <1>3, <1>4 DEF PoolInv, ToldInOrder
  <1>8. b \in Stages /\ recorded \in BOOLEAN
    BY DEF Batches
  <1> HIDE DEF recorded
  <1>9. /\ JournalTyped'
        /\ Exchanges' = IF recorded THEN Exchanges \cup {x} ELSE Exchanges
        /\ ordinals' = IF recorded THEN [ordinals EXCEPT ![b] = @ + 1] ELSE ordinals
        /\ x \in Exchanged
        /\ pending' = pending \/ (b \in FirstLayer /\ pending' = Append(pending, x))
    BY <1>1, <1>3, <1>8, ObservingAdds DEF JournalInv, recorded
  <1>10. x.stage = b /\ x.event = i /\ x.ordinal = ordinals[b] + 1 /\ ordinals[b] \in Nat
    BY <1>8 DEF Exchange, JournalInv, JournalTyped
  <1>11. \A y \in Exchanges : y \in Exchanged
    BY DEF JournalInv, JournalTyped, Exchanges, ToSet
  <1> HIDE DEF x
  <1>12. ToldExchanged'
    <2>1. ASSUME NEW y \in Exchanges' PROVE \E n \in DOMAIN told'[y.stage] : told'[y.stage][n] = y.event
      <3>1. CASE y = x
        BY <1>6, <1>10, <3>1
      <3>2. CASE y \in Exchanges
        <4>1. PICK n \in DOMAIN told[y.stage] : told[y.stage][n] = y.event
          BY <3>2 DEF JournalInv, ToldExchanged
        <4>2. y.stage \in Batches
          BY <1>11, <3>2 DEF Exchanged, Batches
        <4> QED BY <1>5, <1>6, <4>1, <4>2
      <3> QED BY <1>9, <2>1, <3>1, <3>2
    <2>2. ASSUME NEW a \in Batches, NEW n \in DOMAIN told'[a], results[a][told'[a][n]] \notin Unrecorded
          PROVE  \E y \in Exchanges' : y.stage = a /\ y.event = told'[a][n]
      <3>1. CASE a = b /\ n = Len(told[b]) + 1
        <4>1. recorded
          BY <1>6, <2>2, <3>1 DEF recorded
        <4> QED BY <1>6, <1>9, <1>10, <3>1, <4>1
      <3>2. CASE ~(a = b /\ n = Len(told[b]) + 1)
        <4>1. n \in DOMAIN told[a] /\ told'[a][n] = told[a][n]
          BY <1>5, <1>6, <3>2
        <4>2. PICK y \in Exchanges : y.stage = a /\ y.event = told[a][n]
          BY <2>2, <4>1 DEF JournalInv, ToldExchanged
        <4> QED BY <1>9, <4>1, <4>2
      <3> QED BY <3>1, <3>2
    <2> QED BY <1>2, <2>1, <2>2 DEF ToldExchanged
  <1>13. Numbered'
    <2>1. CASE ~recorded
      BY <1>9, <2>1 DEF JournalInv, Numbered
    <2>2. CASE recorded
      <3>1. /\ Exchanges' = Exchanges \cup {x}
            /\ ordinals'[b] = ordinals[b] + 1 /\ \A s \in Stages \ {b} : ordinals'[s] = ordinals[s]
        BY <1>8, <1>9, <2>2 DEF JournalInv, JournalTyped
      <3>2. \A y \in Exchanges : y.stage = b => y.event < i /\ y.event \in Nat
        BY <1>7 DEF JournalInv, ToldExchanged
      <3>3. \A y \in Exchanges : y.stage = b => y.ordinal \in 1..ordinals[b]
        BY <1>8 DEF JournalInv, Numbered
      <3>4. ASSUME NEW s \in Stages, NEW k \in 1..ordinals'[s]
            PROVE  \E y \in Exchanges' : y.stage = s /\ y.ordinal = k
        <4>1. CASE s = b /\ k = ordinals[b] + 1
          BY <1>10, <3>1, <4>1
        <4>2. CASE ~(s = b /\ k = ordinals[b] + 1)
          <5>1. k \in 1..ordinals[s]
            BY <1>10, <3>1, <4>2
          <5> QED BY <3>1, <5>1 DEF JournalInv, Numbered
        <4> QED BY <4>1, <4>2
      <3>5. ASSUME NEW s \in Stages, NEW y \in Exchanges', NEW z \in Exchanges',
                   y.stage = s, z.stage = s
            PROVE  y.ordinal \in 1..ordinals'[s] /\ (y.ordinal < z.ordinal <=> y.event < z.event)
        <4>1. CASE y \in Exchanges /\ z \in Exchanges
          <5>1. y.ordinal \in 1..ordinals[s] /\ (y.ordinal < z.ordinal <=> y.event < z.event)
            BY <3>5, <4>1 DEF JournalInv, Numbered
          <5>2. ordinals[s] \in Nat
            BY DEF JournalInv, JournalTyped
          <5> QED BY <3>1, <5>1, <5>2
        <4>2. CASE y = x /\ z = x
          BY <1>3, <1>10, <3>1, <3>5, <4>2
        <4>3. CASE y = x /\ z \in Exchanges
          <5>1. s = b /\ z.event < i /\ z.event \in Nat /\ z.ordinal \in 1..ordinals[b]
            BY <1>10, <3>2, <3>3, <3>5, <4>3
          <5> QED BY <1>3, <1>10, <3>1, <4>3, <5>1
        <4>4. CASE y \in Exchanges /\ z = x
          <5>1. s = b /\ y.event < i /\ y.event \in Nat /\ y.ordinal \in 1..ordinals[b]
            BY <1>10, <3>2, <3>3, <3>5, <4>4
          <5> QED BY <1>3, <1>10, <3>1, <4>4, <5>1
        <4> QED BY <3>1, <4>1, <4>2, <4>3, <4>4
      <3> QED BY <3>4, <3>5 DEF Numbered
    <2> QED BY <2>1, <2>2
  <1>14. NothingKept'
    <2>1. flushed = "joined" => b \notin FirstLayer
      BY <1>2 DEF JournalInv, NothingKept, Joined
    <2>2. CASE pending' = pending
      BY <1>2, <2>2 DEF JournalInv, NothingKept, Joined
    <2>3. CASE b \in FirstLayer /\ pending' = Append(pending, x)
      <3>1. /\ pending \in Seq(Exchanged) /\ Len(pending) \in Nat
            /\ DOMAIN pending = 1..Len(pending)
        BY DEF JournalInv, JournalTyped
      <3>2. /\ DOMAIN pending' = 1..(Len(pending) + 1) /\ pending'[Len(pending) + 1] = x
            /\ \A n \in 1..Len(pending) : pending'[n] = pending[n]
        <4>1. x \in Exchanged /\ pending' = Append(pending, x)
          BY <1>9, <2>3
        <4> QED BY <3>1, <4>1
      <3>3. \A n \in DOMAIN pending' : pending'[n].stage \in FirstLayer
        BY <1>10, <2>3, <3>1, <3>2 DEF JournalInv, NothingKept
      <3> QED BY <1>2, <2>1, <2>3, <3>3 DEF JournalInv, NothingKept
    <2> QED BY <1>9, <2>2, <2>3
  <1> QED BY <1>9, <1>12, <1>13, <1>14 DEF JournalInv

LEMMA NextJournalInv == PoolInv /\ JournalInv /\ [Next]_vars => JournalInv'
  <1> SUFFICES ASSUME PoolInv, JournalInv, [Next]_vars PROVE JournalInv'
    OBVIOUS
  <1>1. ASSUME NEW b \in Batches, Begin(b) \/ Close(b) \/ Return(b) PROVE JournalInv'
    <2>1. UNCHANGED <<results, told, ordinals, pending, hand, flushing, committed, warned, flushed>>
      BY <1>1 DEF Begin, Close, Return, log, journal
    <2>2. \A a \in Batches : phase[a] = "returned" => phase'[a] = "returned"
      BY <1>1 DEF Begin, Close, Return, PoolInv, PoolTyped
    <2>3. JournalTyped' /\ Exchanges' = Exchanges
      BY <2>1 DEF JournalInv, JournalTyped, Exchanges
    <2>4. NothingKept'
      BY <2>1, <2>2, JournalAssumption DEF JournalInv, NothingKept, Joined, Batches
    <2> QED BY <2>1, <2>3, <2>4, SameExchanges
  <1>2. ASSUME NEW b \in Batches, Replay(b) PROVE JournalInv'
    BY <1>2, ReplayKeepsJournal
  <1>3. ASSUME NEW c \in Call, Work(c) PROVE JournalInv'
    BY <1>3, WorkKeepsJournal
  <1>4. CASE FlushJournal \/ WriteJournal
    <2>1. Flush \/ FlushNext \/ \E s \in Stages : Record(s)
      BY <1>4 DEF FlushJournal, WriteJournal, Batches
    <2>2. JournalTyped' /\ Exchanges' = Exchanges /\ UNCHANGED ordinals
      BY <2>1, WritingMoves DEF JournalInv
    <2>3. UNCHANGED <<results, told, phase>>
      BY <1>4 DEF FlushJournal, WriteJournal, pool
    <2>4. NothingKept'
      <3>1. CASE FlushJournal
        BY <2>3, <3>1 DEF FlushJournal, Flush, JournalInv, NothingKept, Joined
      <3>2. CASE WriteJournal
        <4>1. UNCHANGED <<pending, flushed>>
          BY <3>2 DEF WriteJournal, FlushNext, Record
        <4> QED BY <2>3, <4>1 DEF JournalInv, NothingKept, Joined
      <3> QED BY <1>4, <3>1, <3>2
    <2> QED BY <2>2, <2>3, <2>4, SameExchanges
  <1>5. CASE Interrupt \/ Finished \/ UNCHANGED vars
    <2>1. UNCHANGED <<results, told, phase, ordinals, pending, hand, flushing, committed, warned, flushed>>
      BY <1>5 DEF Interrupt, Finished, vars, pool, log, journal
    <2>2. JournalTyped' /\ Exchanges' = Exchanges /\ NothingKept'
      BY <2>1 DEF JournalInv, JournalTyped, Exchanges, NothingKept, Joined
    <2> QED BY <2>1, <2>2, SameExchanges
  <1> QED BY <1>1, <1>2, <1>3, <1>4, <1>5 DEF Next

\* At every moment each recorded event that was replayed has one exchange, wherever
\* it stands between its stage and the run's directory.  (ObserveStage, Flush)
THEOREM JournalInvariance == Spec => []JournalInv
  BY InitJournalInv, NextJournalInv, PoolInvariance, PTL DEF Spec

\* A stage's ordinals have no gap and follow the caller's order, however many stages
\* observe beside it.
THEOREM JournalOrderSafety == Spec => []JournalInOrder
  <1>1. JournalInv => JournalInOrder
    <2> SUFFICES ASSUME JournalInv, NEW s \in Stages
                 PROVE  LET own == {x \in Exchanges : x.stage = s} IN
                        /\ {x.ordinal : x \in own} = 1..ordinals[s]
                        /\ \A x, y \in own : x.ordinal < y.ordinal <=> x.event < y.event
      BY DEF JournalInOrder
    <2> QED BY DEF JournalInv, Numbered
  <1> QED BY <1>1, JournalInvariance, PTL

\* Every exchange that was told is written, warned of or kept for a flush, and a
\* flush after the batches were joined leaves none behind.
THEOREM NothingLostSafety == Spec => []NothingLost
  <1>1. JournalInv => NothingLost
    BY DEF JournalInv, ToldExchanged, NothingKept, NothingLost
  <1> QED BY <1>1, JournalInvariance, PTL


-----------------------------------------------------------------------------
\* Whom a batch waits for.

\* The gate and the pools have room for one, from the first batch on.
Serving ==
    /\ limit \in 0..Concurrency
    /\ workers \in [Batches -> 0..Concurrency]
    /\ \A b \in Batches : phase[b] # "new" => limit > 0 /\ workers[b] > 0
    /\ \A c \in Call : at[c] # "unfed" => phase[c[1]] # "new"

\* The feeder or the call's worker need wait for nobody: Work's guards.
GoesOn(c) ==
    \/ at[c] = "unfed" /\ Feeding(c)
    \/ at[c] = "offered" /\ Cardinality(Busy(c[1])) < workers[c[1]]
    \/ at[c] = "queued" /\ (stopped \/ Cardinality(InAir) < limit)
    \/ at[c] \in {"taken", "held", "answered", "claiming"}

\* A batch that has not ended goes on, or its queued calls wait for a lease that some
\* call holds: never for a worker, for the feeder or for a call of another pool that
\* waits itself.
WaitsForALeaseOnly ==
    \A b \in Batches : phase[b] = "feeding" =>
        \/ Ended(b)
        \/ \E c \in Call : c[1] = b /\ (GoesOn(c) \/ (at[c] = "queued" /\ InAir # {}))

Below == {ss \in Nat \X Nat : ss[1] < ss[2]}

\* Of some calls of a batch one is the first.
LEMMA FirstExists ==
  ASSUME NEW S \in SUBSET Nat, S # {}
  PROVE  \E n \in S : \A m \in S : n <= m
  <1>1. IsWellFoundedOn(Below, Nat)
    BY NatLessThanWellFounded, Zenon DEF OpToRel, Below
  <1>2. \A m, n \in Nat : m < n => <<m, n>> \in Below
    BY DEF Below
  <1>3. PICK n \in S : \A m \in S : ~(<<m, n>> \in Below)
    BY <1>1, WFMin, Zenon
  <1>4. \A m \in S : m \in Nat /\ n \in Nat /\ ~(m < n)
    BY <1>2, <1>3
  <1> QED BY <1>4

LEMMA MinOfTwo ==
  ASSUME NEW m \in Nat, NEW n \in Nat
  PROVE  Min({m, n}) \in {m, n} /\ Min({m, n}) <= m /\ Min({m, n}) <= n
  <1>1. \E x \in {m, n} : \A y \in {m, n} : x <= y
    OBVIOUS
  <1> QED BY <1>1 DEF Min

LEMMA MinOfThree ==
  ASSUME NEW k \in Nat, NEW m \in Nat, NEW n \in Nat
  PROVE  Min({k, m, n}) \in {k, m, n} /\ Min({k, m, n}) <= k
  <1>1. \E x \in {k, m, n} : \A y \in {k, m, n} : x <= y
    OBVIOUS
  <1> QED BY <1>1 DEF Min

LEMMA ServingStart == Init => Serving
  BY PoolAssumption DEF Init, Serving

\* A pool is made with a worker, and no answer closes the gate.
LEMMA ServingNext == PoolTyped /\ Serving /\ [Next]_vars => Serving'
  <1> SUFFICES ASSUME PoolTyped, Serving, [Next]_vars PROVE Serving'
    OBVIOUS
  <1>0. /\ Concurrency \in Nat \ {0} /\ limit \in 0..Concurrency
        /\ workers \in [Batches -> 0..Concurrency]
        /\ phase \in [Batches -> {"new", "feeding", "replaying", "returned"}]
        /\ at \in [Call -> Places]
    BY PoolAssumption DEF Serving, PoolTyped
  <1>1. ASSUME UNCHANGED <<limit, workers, at>>, \A b \in Batches : phase'[b] # "new" <=> phase[b] # "new"
        PROVE  Serving'
    BY <1>1, CallShape DEF Serving
  <1>2. ASSUME NEW b \in Batches, Begin(b) PROVE Serving'
    <2>1. limit' \in 1..Concurrency
      BY <1>0, <1>2 DEF Begin
    <2>2. Calls[b] \in Nat \ {0}
      BY PoolAssumption
    <2> DEFINE size == PoolSize(limit', Calls[b])
    <2>3. size \in 1..Concurrency
      BY <1>0, <2>1, <2>2, MinOfThree DEF PoolSize
    <2>4. workers' = [workers EXCEPT ![b] = size] /\ phase' = [phase EXCEPT ![b] = "feeding"] /\ at' = at
      BY <1>2 DEF Begin
    <2> HIDE DEF size
    <2>5. workers' \in [Batches -> 0..Concurrency]
      BY <1>0, <2>3, <2>4
    <2>6. \A a \in Batches : phase'[a] # "new" => workers'[a] > 0
      BY <1>0, <2>3, <2>4 DEF Serving
    <2>7. \A c \in Call : at'[c] # "unfed" => phase'[c[1]] # "new"
      BY <1>0, <2>4, CallShape DEF Serving
    <2> QED BY <1>0, <2>1, <2>5, <2>6, <2>7 DEF Serving
  <1>3. ASSUME NEW b \in Batches, Close(b) \/ Return(b) \/ Replay(b) PROVE Serving'
    <2>1. /\ UNCHANGED <<limit, workers, at>>
          /\ \/ phase' = phase
             \/ phase[b] # "new" /\ \E p \in {"replaying", "returned"} : phase' = [phase EXCEPT ![b] = p]
      BY <1>3 DEF Close, Return, Replay
    <2>2. \A a \in Batches : phase'[a] # "new" <=> phase[a] # "new"
      BY <1>0, <2>1
    <2> QED BY <1>1, <2>1, <2>2
  <1>4. ASSUME NEW c \in Call, Work(c) PROVE Serving'
    <2>1. c[1] \in Batches
      BY CallShape
    <2>2. UNCHANGED <<phase, workers>> /\ \E p \in Places : at' = [at EXCEPT ![c] = p]
      BY <1>4 DEF Work, Skip, Offer, Accept, Prepare, GiveUp, Start, Answer, Finish, Denied, Abort,
                  Store, Goto, Places
    <2>3. phase[c[1]] # "new"
      <3>1. CASE at[c] = "unfed"
        <4>1. Feeding(c)
          BY <1>4, <3>1 DEF Work, Skip, Offer, Accept, Prepare, GiveUp, Start, Answer, Finish, Denied, Abort
        <4> QED BY <4>1 DEF Feeding
      <3>2. CASE at[c] # "unfed"
        BY <3>2 DEF Serving
      <3> QED BY <3>1, <3>2
    <2>4. limit > 0
      BY <2>1, <2>3 DEF Serving
    <2>5. limit' \in 1..Concurrency
      <3>1. \/ limit' = limit \/ limit' = 1 \/ limit' = Min({2 * limit, Concurrency})
        BY <1>4 DEF Work, Skip, Offer, Accept, Prepare, GiveUp, Start, Answer, Finish, Denied, Abort
      <3>2. Min({2 * limit, Concurrency}) \in 1..Concurrency
        <4>1. 2 * limit \in Nat /\ 2 * limit > 0
          BY <1>0, <2>4
        <4> QED BY <1>0, <4>1, MinOfTwo
      <3> QED BY <1>0, <2>4, <3>1, <3>2
    <2>6. \A d \in Call : at'[d] # "unfed" => phase'[d[1]] # "new"
      BY <1>0, <2>2, <2>3 DEF Serving
    <2> QED BY <1>0, <2>2, <2>5, <2>6 DEF Serving
  <1>5. CASE Interrupt \/ FlushJournal \/ WriteJournal \/ Finished \/ UNCHANGED vars
    <2>1. UNCHANGED <<limit, workers, at, phase>>
      BY <1>5 DEF Interrupt, FlushJournal, WriteJournal, Finished, vars, pool
    <2> QED BY <1>1, <2>1
  <1> QED BY <1>2, <1>3, <1>4, <1>5 DEF Next

\* The gate never closes and no pool is empty, whatever answers narrow the gate.
THEOREM ServingInvariance == Spec => []Serving
  BY ServingStart, ServingNext, PoolInvariance, PTL DEF Spec, PoolInv

\* However many batches share the gate and however the run ends, a batch that was begun
\* goes on or waits for a lease that is held: no pool and no feeder waits for ever while
\* exchanges end.  (ExecuteJSONEach, acquire)
THEOREM WaitsSafety == Spec => []WaitsForALeaseOnly
  <1>1. ASSUME PoolTyped, Serving, NEW b \in Batches, phase[b] = "feeding", ~Ended(b),
               \A c \in Call : c[1] = b => ~GoesOn(c)
        PROVE  \E c \in Call : c[1] = b /\ at[c] = "queued" /\ InAir # {}
    <2>1. /\ limit \in Nat /\ limit > 0 /\ workers[b] \in Nat /\ workers[b] > 0
          /\ at \in [Call -> Places] /\ Calls[b] \in Nat
      BY <1>1, PoolAssumption DEF Serving, PoolTyped
    <2>2. \A c \in Call : c[1] = b => at[c] \in {"unfed", "offered", "queued", "done"}
      BY <1>1, <2>1 DEF GoesOn, Places
    <2>3. CASE \E c \in Call : c[1] = b /\ at[c] = "queued"
      <3>1. PICK c \in Call : c[1] = b /\ at[c] = "queued"
        BY <2>3
      <3>2. ~(Cardinality(InAir) < limit)
        BY <1>1, <3>1 DEF GoesOn
      <3>3. InAir # {}
        BY <2>1, <3>2, FS_EmptySet
      <3> QED BY <3>1, <3>3
    <2>4. CASE \A c \in Call : c[1] = b => at[c] # "queued"
      <3>1. Busy(b) = {}
        BY <2>2, <2>4 DEF Busy
      <3>2. Cardinality(Busy(b)) < workers[b]
        BY <2>1, <3>1, FS_EmptySet
      <3> DEFINE open == {i \in 1..Calls[b] : at[<<b, i>>] # "done"}
      <3>3. open # {} /\ open \in SUBSET Nat
        BY <1>1 DEF Ended
      <3> HIDE DEF open
      <3>4. PICK i \in open : \A j \in open : i <= j
        BY <3>3, FirstExists
      <3>5. i \in 1..Calls[b] /\ at[<<b, i>>] # "done" /\ <<b, i>> \in Call
        BY <3>4, CallShape DEF open
      <3>6. \A j \in 1..i-1 : at[<<b, j>>] = "done"
        <4> SUFFICES ASSUME NEW j \in 1..i-1, at[<<b, j>>] # "done" PROVE FALSE
          OBVIOUS
        <4>1. j \in 1..Calls[b] /\ ~(i <= j)
          BY <2>1, <3>5
        <4>2. j \in open
          BY <4>1 DEF open
        <4> QED BY <3>4, <4>1, <4>2
      <3> DEFINE c == <<b, i>>
      <3>7. c \in Call /\ c[1] = b /\ c[2] = i
        BY <3>5
      <3>8. Feeding(c)
        BY <1>1, <3>6, <3>7 DEF Feeding
      <3>9. at[c] \in {"unfed", "offered"}
        BY <2>2, <2>4, <3>5, <3>7
      <3>10. GoesOn(c)
        BY <3>2, <3>7, <3>8, <3>9 DEF GoesOn
      <3> QED BY <1>1, <3>7, <3>10
    <2> QED BY <2>3, <2>4
  <1>2. PoolTyped /\ Serving => WaitsForALeaseOnly
    BY <1>1 DEF WaitsForALeaseOnly
  <1> QED BY <1>2, PoolInvariance, ServingInvariance, PTL DEF PoolInv
=============================================================================
