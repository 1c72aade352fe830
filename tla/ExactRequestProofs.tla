------------------------- MODULE ExactRequestProofs -------------------------
(***************************************************************************)
(* Proofs about ExactRequest: for any number of callers, requests and        *)
(* answers: one provider call at a time, one answer, no waiter left behind.  *)
(***************************************************************************)
EXTENDS ExactRequest, TLAPS

\* The marks are told apart from each other, from callers and from answers.
LEMMA Marks ==
    /\ Nobody \notin Callers /\ Interrupted \notin Answers /\ NoRecord \notin Answers
    /\ Corrupt \notin Answers /\ Pending \notin Answers /\ Failed \notin Answers
    /\ Refused \notin Answers /\ Missed \notin Answers
    /\ Pending # Interrupted /\ Pending # Failed /\ Pending # Refused /\ Pending # Missed
    /\ Interrupted # Failed /\ Interrupted # Refused /\ Interrupted # Missed
    /\ NoRecord # Corrupt
  BY RequestAssumption DEF RequestAssumption, NotAnswers, Nobody, NoRecord, Corrupt, Failed,
    Interrupted, Refused, Missed, Pending

\* What the constants are.
LEMMA Consts ==
    /\ Recallers \subseteq Callers /\ Replays \subseteq Callers /\ Recallers \cap Replays = {}
    /\ KeyOf \in [Callers -> Keys]
    /\ \A c \in Callers : KeyOf[c] \in Keys /\ Accepts[c] \subseteq Answers
    /\ FirstRecords \subseteq Answers \cup {NoRecord, Corrupt}
  BY RequestAssumption DEF RequestAssumption

LEMMA InitInv == Init => RequestInv
  <1> SUFFICES ASSUME Init PROVE RequestInv
    OBVIOUS
  <1> USE Marks, Consts DEF Init
  <1>1. TypeOK BY DEF TypeOK
  <1>2. FlightsLed BY DEF FlightsLed, Leads, Flying
  <1>3. StoppedLeaders /\ CancellationStaysOwn BY DEF StoppedLeaders, CancellationStaysOwn
  <1> QED BY <1>1, <1>2, <1>3 DEF RequestInv

\* Types are kept by every step.
LEMMA TypeStep == TypeOK /\ FlightsLed /\ [Next]_vars => TypeOK'
  <1> SUFFICES ASSUME TypeOK, FlightsLed, [Next]_vars PROVE TypeOK'
    OBVIOUS
  <1> USE Consts DEF TypeOK
  <1>1. ASSUME NEW c \in Callers, Step(c) PROVE TypeOK'
    <2>1. CASE Enter(c) BY <2>1 DEF Enter, Return
    <2>2. CASE Join(c) BY <2>2 DEF Join, JoinFlight
    <2>3. CASE Follow(c)
      <3>1. current[c] \in Callers => Judged(c, answer[current[c]]) \in
               Answers \cup {Pending, Failed, Interrupted, Refused}
        BY Consts DEF Judged
      <3>2. landed \subseteq Callers OBVIOUS
      <3> QED BY <2>3, <3>1, <3>2 DEF Follow, Return
    <2>4. CASE StopWaiting(c) BY <2>4 DEF StopWaiting, Return
    <2>5. CASE Hit(c) BY <2>5 DEF Hit, Publish, Return
    <2>6. CASE MissRecord(c) BY <2>6 DEF MissRecord, Miss, Return
    <2>7. CASE ReadCorrupt(c) BY <2>7 DEF ReadCorrupt
    <2>8. CASE Evict(c) BY <2>8 DEF Evict, Miss, Return
    <2>9. CASE EvictFails(c) BY <2>9 DEF EvictFails, Miss, Return
    <2>10. ASSUME NEW a \in Answers \cup {Failed, Interrupted}, Complete(c, a) PROVE TypeOK'
      <3>1. Judged(c, a) \in Answers \cup {Failed, Interrupted, Refused} BY Consts DEF Judged
      <3>2. Accepts[c] \subseteq Answers BY Consts
      <3> QED BY <2>10, <3>1, <3>2 DEF Complete, Publish, Return
    <2>11. CASE Save(c)
      <3>1. taken[c] \in Answers BY <2>11 DEF Save, FlightsLed
      <3> QED BY <2>11, <3>1 DEF Save, Return
    <2>12. CASE SaveFails(c) BY <2>12 DEF SaveFails, Return
    <2>13. CASE Clear(c) BY <2>13 DEF Clear
    <2>14. CASE Land(c) BY <2>14 DEF Land, LandedAnswer, WithLanded
    <2> QED BY <1>1, <2>1, <2>2, <2>3, <2>4, <2>5, <2>6, <2>7, <2>8, <2>9, <2>10,
                <2>11, <2>12, <2>13, <2>14 DEF Step
  <1>2. ASSUME NEW c \in Callers, Cancel(c) PROVE TypeOK'
    BY <1>2 DEF Cancel
  <1>3. CASE UNCHANGED vars BY <1>3 DEF vars
  <1> QED BY <1>1, <1>2, <1>3 DEF Next, Finished

\* A request in the air keeps its one leader.
LEMMA FlightsStep == TypeOK /\ FlightsLed /\ [Next]_vars => FlightsLed'
  <1> SUFFICES ASSUME TypeOK, FlightsLed, [Next]_vars PROVE FlightsLed'
    OBVIOUS
  <1> USE Consts, Marks DEF TypeOK, FlightsLed, Flying, Leads, Members
  <1>1. ASSUME NEW c \in Callers, Step(c) PROVE FlightsLed'
    <2>1. CASE Enter(c) BY <2>1 DEF Enter, Return
    <2>2. CASE Join(c) BY <2>2 DEF Join, JoinFlight
    <2>3. CASE Follow(c) BY <2>3 DEF Follow, Return
    <2>4. CASE StopWaiting(c) BY <2>4 DEF StopWaiting, Return
    <2>5. CASE Hit(c) BY <2>5 DEF Hit, Publish, Return
    <2>6. CASE MissRecord(c) BY <2>6 DEF MissRecord, Miss, Return
    <2>7. CASE ReadCorrupt(c) BY <2>7 DEF ReadCorrupt
    <2>8. CASE Evict(c) BY <2>8 DEF Evict, Miss, Return
    <2>9. CASE EvictFails(c) BY <2>9 DEF EvictFails, Miss, Return
    <2>10. ASSUME NEW a \in Answers \cup {Failed, Interrupted}, Complete(c, a) PROVE FlightsLed'
      BY <2>10 DEF Complete, Publish, Return
    <2>11. CASE Save(c) BY <2>11 DEF Save, Return
    <2>12. CASE SaveFails(c) BY <2>12 DEF SaveFails, Return
    <2>13. CASE Clear(c) BY <2>13 DEF Clear
    <2>14. CASE Land(c) BY <2>14 DEF Land, LandedAnswer, WithLanded
    <2> QED BY <1>1, <2>1, <2>2, <2>3, <2>4, <2>5, <2>6, <2>7, <2>8, <2>9, <2>10,
                <2>11, <2>12, <2>13, <2>14 DEF Step
  <1>2. ASSUME NEW c \in Callers, Cancel(c) PROVE FlightsLed'
    BY <1>2 DEF Cancel
  <1>3. CASE UNCHANGED vars BY <1>3 DEF vars
  <1> QED BY <1>1, <1>2, <1>3 DEF Next, Finished

Stops == StoppedLeaders /\ CancellationStaysOwn

\* A context's error reaches no other caller.
LEMMA StopsStep == TypeOK /\ FlightsLed /\ Stops /\ [Next]_vars => Stops'
  <1> SUFFICES ASSUME TypeOK, FlightsLed, Stops, [Next]_vars PROVE Stops'
    OBVIOUS
  <1> USE Consts, Marks DEF TypeOK, Stops, StoppedLeaders, CancellationStaysOwn
  <1>1. ASSUME NEW c \in Callers, Step(c) PROVE Stops'
    <2>1. CASE Enter(c) BY <2>1 DEF Enter, Return
    <2>2. CASE Join(c) BY <2>2 DEF Join, JoinFlight
    <2>3. CASE Follow(c)
      \* The answer of a flight that landed is no context's error.
      <3>1. current[c] \in Callers /\ answer[current[c]] # Interrupted
        BY <2>3 DEF Follow, FlightsLed
      <3>2. Judged(c, answer[current[c]]) # Interrupted
        BY <3>1 DEF Judged
      <3>3. result[c] # Interrupted => result'[c] # Interrupted
        BY <2>3, <3>2 DEF Follow, Return
      <3> QED BY <2>3, <3>3 DEF Follow, Return
    <2>4. CASE StopWaiting(c) BY <2>4 DEF StopWaiting, Return
    <2>5. CASE Hit(c)
      <3>1. record[KeyOf[c]] # Interrupted BY <2>5 DEF Hit
      <3> QED BY <2>5, <3>1 DEF Hit, Publish, Return, FlightsLed, Flying
    <2>6. CASE MissRecord(c) BY <2>6 DEF MissRecord, Miss, Return
    <2>7. CASE ReadCorrupt(c) BY <2>7 DEF ReadCorrupt
    <2>8. CASE Evict(c) BY <2>8 DEF Evict, Miss, Return
    <2>9. CASE EvictFails(c) BY <2>9 DEF EvictFails, Miss, Return
    <2>10. ASSUME NEW a \in Answers \cup {Failed}, Complete(c, a) PROVE Stops'
      <3>1. a # Interrupted /\ Judged(c, a) # Interrupted BY DEF Judged
      <3> QED BY <2>10, <3>1 DEF Complete, Publish, Return
    <2>11. CASE c \in canceled /\ Complete(c, Interrupted)
      <3>1. Judged(c, Interrupted) = Interrupted /\ Interrupted \notin Accepts[c] BY DEF Judged
      <3>2. Leads(c) \/ answer' = answer BY <2>11 DEF Complete, Publish
      <3> QED BY <2>11, <3>1, <3>2 DEF Complete, Publish, Return
    <2>12. CASE Save(c)
      <3>1. taken[c] # Interrupted BY <2>12 DEF Save, FlightsLed
      <3> QED BY <2>12, <3>1 DEF Save, Return
    <2>13. CASE SaveFails(c)
      <3>1. taken[c] # Interrupted BY <2>13 DEF SaveFails, FlightsLed
      <3> QED BY <2>13, <3>1 DEF SaveFails, Return
    <2>14. CASE Clear(c) BY <2>14 DEF Clear
    <2>15. CASE Land(c) BY <2>15 DEF Land, LandedAnswer, WithLanded
    <2> QED BY <1>1, <2>1, <2>2, <2>3, <2>4, <2>5, <2>6, <2>7, <2>8, <2>9, <2>10,
                <2>11, <2>12, <2>13, <2>14, <2>15 DEF Step
  <1>2. ASSUME NEW c \in Callers, Cancel(c) PROVE Stops'
    BY <1>2 DEF Cancel
  <1>3. CASE UNCHANGED vars BY <1>3 DEF vars
  <1> QED BY <1>1, <1>2, <1>3 DEF Next, Finished

\* The inductive invariant holds in every behaviour.
THEOREM RequestInvariance == Spec => []RequestInv
  <1>1. Init => RequestInv BY InitInv
  <1>2. RequestInv /\ [Next]_vars => RequestInv'
    BY TypeStep, FlightsStep, StopsStep DEF RequestInv, Stops
  <1> QED BY <1>1, <1>2, PTL DEF Spec

\* However callers arrive, stop and land, no exact request of the run is with
\* the provider twice at a time.  (joinFlight, land)
THEOREM SingleFlight == Spec => []OneLiveCall
  <1>1. RequestInv => OneLiveCall
    BY Consts DEF RequestInv, FlightsLed, OneLiveCall, Flying, Members
  <1> QED BY <1>1, RequestInvariance, PTL

\* A follower never returns its leader's cancellation.  (land)
THEOREM OwnCancellation == Spec => []CancellationStaysOwn
  <1>1. RequestInv => CancellationStaysOwn BY DEF RequestInv
  <1> QED BY <1>1, RequestInvariance, PTL

-----------------------------------------------------------------------------
(* An eviction removes what it found corrupt, wherever a flight guards it.   *)

\* The record a leader is about to remove is still no answer of a flight.
EvictsCorrupt ==
    \A c \in Callers \ Recallers :
        pc[c] = "evicting" => record[KeyOf[c]] \notin Answers \/ SavedByReplay(KeyOf[c])

Kept == \A k \in Keys : record[k] \in Answers /\ record'[k] \notin Answers
                         => SavedByReplay(k) \/ RecallEvicts(k)

\* What a replay saved was saved for good.
LEMMA ReplayStays ==
  ASSUME RequestInv, [Next]_vars, NEW k \in Keys, SavedByReplay(k)
  PROVE  SavedByReplay(k)'
  <1> USE Consts, Marks DEF RequestInv, TypeOK
  <1>1. PICK d \in Replays : KeyOf[d] = k /\ pc[d] = "done" /\ result[d] \in Answers
    BY DEF SavedByReplay
  <1>2. pc'[d] = "done" /\ result'[d] = result[d]
    BY <1>1 DEF Next, Finished, vars, Step, Cancel, Enter, Join, JoinFlight, Follow, StopWaiting, Hit,
       MissRecord, ReadCorrupt, Evict, EvictFails, Miss, Complete, Publish, Save, SaveFails, Clear,
       Land, Return
  <1> QED BY <1>1, <1>2 DEF SavedByReplay

LEMMA EvictStep ==
  ASSUME RequestInv, EvictsCorrupt, [Next]_vars
  PROVE  EvictsCorrupt' /\ Kept
  <1> USE Consts, Marks, ReplayStays DEF RequestInv, TypeOK, EvictsCorrupt, Kept
  <1>1. ASSUME NEW c \in Callers, Step(c) PROVE EvictsCorrupt' /\ Kept
    <2>1. CASE Enter(c) BY <2>1 DEF Enter, Return
    <2>2. CASE Join(c) BY <2>2 DEF Join, JoinFlight
    <2>3. CASE Follow(c) BY <2>3 DEF Follow, Return
    <2>4. CASE StopWaiting(c) BY <2>4 DEF StopWaiting, Return
    <2>5. CASE Hit(c) BY <2>5 DEF Hit, Publish, Return
    <2>6. CASE MissRecord(c) BY <2>6 DEF MissRecord, Miss, Return
    <2>7. CASE ReadCorrupt(c) BY <2>7 DEF ReadCorrupt
    <2>8. CASE Evict(c)
      <3>1. c \in Recallers => RecallEvicts(KeyOf[c])
        BY <2>8 DEF Evict, Miss, Return, RecallEvicts
      <3>2. \A d \in Callers : pc'[d] = "evicting" => d # c /\ pc[d] = "evicting"
        BY <2>8 DEF Evict, Miss, Return
      <3>3. \A k \in Keys : k # KeyOf[c] => record'[k] = record[k]
        BY <2>8 DEF Evict
      <3>4. record'[KeyOf[c]] \notin Answers BY <2>8 DEF Evict
      <3>5. EvictsCorrupt' BY <3>2, <3>3, <3>4
      <3>6. Kept BY <2>8, <3>1, <3>3 DEF Evict
      <3> QED BY <3>5, <3>6
    <2>9. CASE EvictFails(c) BY <2>9 DEF EvictFails, Miss, Return
    <2>10. ASSUME NEW a, Complete(c, a) PROVE EvictsCorrupt' /\ Kept
      BY <2>10 DEF Complete, Publish, Return
    <2>11. CASE Save(c)
      <3>1. taken[c] \in Answers BY <2>11 DEF Save, FlightsLed
      <3>2. CASE c \in Replays
        <4>1. SavedByReplay(KeyOf[c])'
          <5>1. ~Leads(c) BY <3>2 DEF FlightsLed, Members
          <5>2. pc'[c] = "done" /\ result'[c] \in Answers
            BY <2>11, <3>1, <5>1 DEF Save, Return
          <5> QED BY <3>2, <5>2 DEF SavedByReplay
        <4> QED BY <2>11, <3>1, <4>1 DEF Save, Return
      \* A member that saves leads the request, so no other member is evicting.
      <3>3. CASE c \notin Replays
        <4>1. \A d \in Callers \ Recallers : pc[d] = "evicting" => KeyOf[d] # KeyOf[c]
          BY <2>11, <3>3 DEF Save, FlightsLed, Flying, Members
        <4> QED BY <2>11, <3>1, <4>1 DEF Save, Return
      <3> QED BY <3>2, <3>3
    <2>12. CASE SaveFails(c) BY <2>12 DEF SaveFails, Return
    <2>13. CASE Clear(c) BY <2>13 DEF Clear
    <2>14. CASE Land(c) BY <2>14 DEF Land
    <2> QED BY <1>1, <2>1, <2>2, <2>3, <2>4, <2>5, <2>6, <2>7, <2>8, <2>9, <2>10,
                <2>11, <2>12, <2>13, <2>14 DEF Step
  <1>2. ASSUME NEW c \in Callers, Cancel(c) PROVE EvictsCorrupt' /\ Kept
    BY <1>2 DEF Cancel
  <1>3. CASE UNCHANGED vars BY <1>3 DEF vars
  <1> QED BY <1>1, <1>2, <1>3 DEF Next, Finished

\* No accepted answer is removed by an eviction that a flight guards, whatever
\* the callers refuse, the disk does and the interruptions cut.
THEOREM EvictionSafety == Spec => NoAnswerEvicted
  <1>1. Init => EvictsCorrupt BY Consts DEF Init, EvictsCorrupt
  <1>2. RequestInv /\ EvictsCorrupt /\ [Next]_vars => EvictsCorrupt' BY EvictStep
  <1>3. RequestInv /\ EvictsCorrupt /\ [Next]_vars => [Kept]_vars BY EvictStep
  <1>4. [Kept]_vars <=> [\A k \in Keys : record[k] \in Answers /\ record'[k] \notin Answers
                           => SavedByReplay(k) \/ RecallEvicts(k)]_vars
    BY DEF Kept
  <1> QED BY <1>1, <1>2, <1>3, <1>4, RequestInvariance, PTL DEF Spec, NoAnswerEvicted

-----------------------------------------------------------------------------
(* The promise of one answer: callers of a request decode alike, the disk    *)
(* does not fail, nobody replays, and the records found are usable.          *)
Usable ==
    /\ DiskFaults = FALSE /\ Replays = {}
    /\ \A c, d \in Callers : KeyOf[c] = KeyOf[d] => Accepts[c] = Accepts[d]
    /\ \A r \in FirstRecords : r = NoRecord \/ \A c \in Callers : r \in Accepts[c]

\* What was shown, published or is being saved agrees with what is kept.
Agreed ==
    \A c \in Callers : LET kept == record[KeyOf[c]] IN
        /\ kept \in Accepts[c] \cup {NoRecord}
        /\ result[c] \in Answers => kept = result[c]
        /\ pc[c] \in {"asking", "saving"} => kept = NoRecord
        /\ pc[c] = "saving" => answer[c] = taken[c]
        /\ answer[c] \in Accepts[c] => pc[c] = "saving" \/ kept = answer[c]
        /\ pc[c] # "evicting"
        /\ pc[c] \notin {"clearing", "landing", "done"} => result[c] = Pending
        /\ pc[c] \in {"out", "joining", "waiting", "reading", "asking"} => answer[c] = Pending

LEMMA AgreedInit == Usable /\ Init => Agreed
  BY Consts, Marks DEF Usable, Init, Agreed

\* Every step keeps the agreement and is a step of the promise, or hides from it.
LEMMA AgreedStep ==
  ASSUME Usable, RequestInv, Agreed, [Next]_vars
  PROVE  Agreed'
  <1> USE Consts, Marks DEF RequestInv, TypeOK, Agreed, Usable
  <1>1. ASSUME NEW c \in Callers, Step(c) PROVE Agreed'
    <2>1. CASE Enter(c) BY <2>1 DEF Enter, Return, FlightsLed
    <2>2. CASE Join(c) BY <2>2 DEF Join, JoinFlight
    <2>3. CASE Follow(c)
      <3>1. current[c] \in Callers /\ KeyOf[current[c]] = KeyOf[c] /\ pc[current[c]] = "done"
        BY <2>3 DEF Follow, FlightsLed
      <3>2. Judged(c, answer[current[c]]) \in Answers => Judged(c, answer[current[c]]) = record[KeyOf[c]]
        BY <3>1 DEF Judged
      <3>3. c \notin Recallers => ~Leads(c) \/ pc[c] = "waiting" BY <2>3 DEF Follow
      <3> QED BY <2>3, <3>1, <3>2 DEF Follow, Return
    <2>4. CASE StopWaiting(c) BY <2>4 DEF StopWaiting, Return
    <2>5. CASE Hit(c) BY <2>5 DEF Hit, Publish, Return
    <2>6. CASE MissRecord(c)
      <3>1. record[KeyOf[c]] = NoRecord BY <2>6 DEF MissRecord
      <3> QED BY <2>6, <3>1 DEF MissRecord, Miss, Return
    <2>7. CASE ReadCorrupt(c) BY <2>7 DEF ReadCorrupt
    <2>8. CASE Evict(c) \/ EvictFails(c) BY <2>8 DEF Evict, EvictFails
    <2>9. ASSUME NEW a \in Answers \cup {Failed, Interrupted}, Complete(c, a) PROVE Agreed'
      <3>1. Leads(c) BY <2>9 DEF Complete, FlightsLed, Flying, Members
      <3>2. a \notin Accepts[c] => Judged(c, a) \notin Answers BY DEF Judged
      <3> QED BY <2>9, <3>1, <3>2 DEF Complete, Publish, Return
    <2>10. CASE Save(c)
      \* No other caller of the request asks or saves.
      <3>1. \A d \in Callers : d # c /\ KeyOf[d] = KeyOf[c] => pc[d] \notin {"asking", "saving"}
        BY <2>10 DEF Save, FlightsLed, Flying, Members
      <3>2. record[KeyOf[c]] = NoRecord /\ taken[c] \in Accepts[c] /\ answer[c] = taken[c]
        BY <2>10 DEF Save, FlightsLed
      <3>3. \A d \in Callers : KeyOf[d] = KeyOf[c] =>
               result[d] \notin Answers /\ (d # c => answer[d] \notin Accepts[d])
        BY <3>1, <3>2
      <3> QED BY <2>10, <3>1, <3>2, <3>3 DEF Save, Return
    <2>11. CASE SaveFails(c) BY <2>11 DEF SaveFails
    <2>12. CASE Clear(c) BY <2>12 DEF Clear
    <2>13. CASE Land(c) BY <2>13 DEF Land, LandedAnswer, WithLanded
    <2> QED BY <1>1, <2>1, <2>2, <2>3, <2>4, <2>5, <2>6, <2>7, <2>8, <2>9, <2>10,
                <2>11, <2>12, <2>13 DEF Step
  <1>2. ASSUME NEW c \in Callers, Cancel(c) PROVE Agreed'
    BY <1>2 DEF Cancel
  <1>3. CASE UNCHANGED vars BY <1>3 DEF vars
  <1> QED BY <1>1, <1>2, <1>3 DEF Next, Finished

\* What the promise sees of a state.
KeptNow == [k \in Keys |-> IF record[k] \in Answers THEN record[k] ELSE Pending]
ToldNow == [c \in Callers |-> IF result[c] \in Answers THEN result[c] ELSE Pending]

\* Returning an answer that is kept, or is kept from now on, is a step of the
\* promise; any other return hides from it.
LEMMA PromiseStep ==
  ASSUME Usable, RequestInv, Agreed, Agreed', TypeOK', [Next]_vars
  PROVE  Promise!Next \/ (KeptNow' = KeptNow /\ ToldNow' = ToldNow)
  <1> USE Consts, Marks DEF RequestInv, TypeOK, KeptNow, ToldNow
  <1> DEFINE Hidden == KeptNow' = KeptNow /\ ToldNow' = ToldNow
  \* A step that leaves the records alone and gives c a result.
  <1>1. ASSUME NEW c \in Callers, record' = record, result[c] = Pending,
               NEW r, result' = [result EXCEPT ![c] = r],
               r \in Answers => record[KeyOf[c]] = r
        PROVE  Promise!Next \/ Hidden
    <2>1. CASE r \in Answers
      <3>1. ToldNow[c] = Pending /\ KeptNow[KeyOf[c]] = r /\ KeptNow' = KeptNow
        BY <1>1, <2>1
      <3>2. ToldNow' = [ToldNow EXCEPT ![c] = r] BY <1>1, <2>1
      <3>3. KeptNow' = [KeptNow EXCEPT ![KeyOf[c]] = r] BY <3>1
      <3>4. Promise!Tell(c) BY <2>1, <3>1, <3>2, <3>3 DEF Promise!Tell
      <3> QED BY <3>4 DEF Promise!Next
    <2>2. CASE r \notin Answers
      <3>1. \A d \in Callers : result'[d] \in Answers <=> result[d] \in Answers BY <1>1, <2>2
      <3> QED BY <1>1, <2>2, <3>1
    <2> QED BY <2>1, <2>2
  <1>2. ASSUME record' = record, result' = result PROVE Hidden
    BY <1>2
  <1>3. ASSUME NEW c \in Callers, Step(c) PROVE Promise!Next \/ Hidden
    <2>1. CASE Enter(c)
      BY <1>1, <1>2, <2>1 DEF Enter, Return, Agreed
    <2>2. CASE Join(c) BY <1>2, <2>2 DEF Join
    <2>3. CASE Follow(c)
      <3>1. CASE result' = result BY <1>2, <2>3, <3>1 DEF Follow
      <3>2. CASE Return(c, Judged(c, answer[current[c]]))
        <4>1. result[c] = Pending BY <2>3 DEF Follow, Agreed
        <4>2. Judged(c, answer[current[c]]) \in Answers
                 => record[KeyOf[c]] = Judged(c, answer[current[c]])
          BY <2>3, <3>2 DEF Follow, Return, Agreed
        <4> QED BY <1>1, <2>3, <3>2, <4>1, <4>2 DEF Follow, Return
      <3> QED BY <2>3, <3>1, <3>2 DEF Follow
    <2>4. CASE StopWaiting(c) BY <1>1, <2>4 DEF StopWaiting, Return, Agreed
    <2>5. CASE Hit(c) BY <1>1, <2>5 DEF Hit, Return, Agreed
    <2>6. CASE MissRecord(c) BY <1>1, <1>2, <2>6 DEF MissRecord, Miss, Return, Agreed
    <2>7. CASE ReadCorrupt(c) BY <1>2, <2>7 DEF ReadCorrupt
    <2>8. CASE Evict(c) \/ EvictFails(c) BY <2>8 DEF Evict, EvictFails, Agreed
    <2>9. ASSUME NEW a, Complete(c, a) PROVE Promise!Next \/ Hidden
      <3>1. CASE a \in Accepts[c] BY <1>2, <2>9, <3>1 DEF Complete
      <3>2. CASE a \notin Accepts[c]
        <4>1. Judged(c, a) \notin Answers BY <3>2 DEF Judged
        <4> QED BY <1>1, <2>9, <3>2, <4>1 DEF Complete, Return, Agreed
      <3> QED BY <3>1, <3>2
    <2>10. CASE Save(c)
      <3>1. /\ record[KeyOf[c]] = NoRecord /\ taken[c] \in Answers /\ result[c] = Pending
            /\ record' = [record EXCEPT ![KeyOf[c]] = taken[c]]
            /\ result' = [result EXCEPT ![c] = taken[c]]
        BY <2>10 DEF Save, Return, Agreed, FlightsLed
      <3>2. ToldNow[c] = Pending /\ KeptNow[KeyOf[c]] = Pending BY <3>1
      <3>3. ToldNow' = [ToldNow EXCEPT ![c] = taken[c]] BY <3>1
      <3>4. KeptNow' = [KeptNow EXCEPT ![KeyOf[c]] = taken[c]] BY <3>1
      <3>5. Promise!Tell(c) BY <3>1, <3>2, <3>3, <3>4 DEF Promise!Tell, KeptNow, ToldNow
      <3> QED BY <3>5 DEF Promise!Next
    <2>11. CASE SaveFails(c) BY <2>11 DEF SaveFails, Usable
    <2>12. CASE Clear(c) BY <1>2, <2>12 DEF Clear
    <2>13. CASE Land(c) BY <1>2, <2>13 DEF Land
    <2> QED BY <1>3, <2>1, <2>2, <2>3, <2>4, <2>5, <2>6, <2>7, <2>8, <2>9, <2>10,
                <2>11, <2>12, <2>13 DEF Step
  <1>4. ASSUME NEW c \in Callers, Cancel(c) PROVE Promise!Next \/ Hidden
    BY <1>2, <1>4 DEF Cancel
  <1>5. CASE UNCHANGED vars BY <1>2, <1>5 DEF vars
  <1> QED BY <1>3, <1>4, <1>5 DEF Next, Finished

\* Callers that decode alike are told one answer per request, the one the cache
\* keeps: executeJSON's flights implement flight.go's promise.
THEOREM OneAnswerProved == Usable /\ Spec => OneAnswerShown
  <1> SUFFICES ASSUME Usable PROVE Spec => OneAnswerShown
    OBVIOUS
  <1>1. Init => Agreed BY AgreedInit
  <1>2. RequestInv /\ Agreed /\ [Next]_vars => Agreed' BY AgreedStep
  <1>3. Init => Promise!Init
    <2> SUFFICES ASSUME Init PROVE Promise!Init
      OBVIOUS
    <2>1. KeptNow \in [Keys -> Answers \cup {Pending}] BY DEF KeptNow
    <2>2. ToldNow = [c \in Callers |-> Pending] BY Marks DEF Init, ToldNow
    <2> QED BY <2>1, <2>2 DEF Promise!Init, KeptNow, ToldNow
  <1>4. RequestInv /\ RequestInv' /\ Agreed /\ Agreed' /\ [Next]_vars
        => [Promise!Next]_(Promise!shown)
    BY PromiseStep DEF RequestInv, Promise!shown, KeptNow, ToldNow
  <1> QED BY <1>1, <1>2, <1>3, <1>4, RequestInvariance, PTL DEF Spec, OneAnswerShown, Promise!Spec

-----------------------------------------------------------------------------
(* The same callers: what a recall that waited finds.                       *)

\* A recall that waited for a flight reads after the leader has returned, and
\* misses only when the leader was told no answer.
RecallsBehind ==
    \A c \in Recallers : current[c] # Nobody =>
        /\ pc[c] \in {"waiting", "joining", "reading", "done"}
        /\ current[c] \in Callers /\ KeyOf[current[c]] = KeyOf[c]
        /\ pc[c] = "reading" => pc[current[c]] = "done"
        /\ result[c] = Missed => pc[current[c]] = "done" /\ result[current[c]] \notin Answers
        /\ pc[c] # "done" => result[c] = Pending

LEMMA RecallStep ==
  ASSUME Usable, RequestInv, Agreed, RecallsBehind, [Next]_vars
  PROVE  RecallsBehind'
  <1> USE Consts, Marks DEF RequestInv, TypeOK, RecallsBehind, Usable
  <1>0. \A c \in Recallers : ~Leads(c) BY DEF FlightsLed
  <1>1. ASSUME NEW c \in Callers, Step(c) PROVE RecallsBehind'
    <2>1. CASE Enter(c) BY <2>1 DEF Enter, Return
    <2>2. CASE Join(c)
      <3>1. \A k \in Keys : flights[k] # Nobody => flights[k] \in Callers /\ KeyOf[flights[k]] = k
        BY DEF FlightsLed
      <3>2. result[c] = Pending /\ pc[c] = "joining" BY <2>2 DEF Join, Agreed
      <3> QED BY <2>2, <3>1, <3>2 DEF Join, JoinFlight
    <2>3. CASE Follow(c)
      <3>1. pc[current[c]] = "done" /\ pc[c] = "waiting" BY <2>3 DEF Follow, FlightsLed
      <3> QED BY <2>3, <3>1 DEF Follow, Return
    <2>4. CASE StopWaiting(c) BY <1>0, <2>4 DEF StopWaiting, Return
    <2>5. CASE Hit(c) BY <1>0, <2>5 DEF Hit, Publish, Return
    <2>6. CASE MissRecord(c)
      <3>1. record[KeyOf[c]] = NoRecord BY <2>6 DEF MissRecord, Agreed
      <3>2. \A d \in Callers : KeyOf[d] = KeyOf[c] => result[d] \notin Answers
        BY <3>1 DEF Agreed
      <3> QED BY <1>0, <2>6, <3>1, <3>2 DEF MissRecord, Miss, Return
    <2>7. CASE ReadCorrupt(c) \/ Evict(c) \/ EvictFails(c)
      BY <2>7 DEF ReadCorrupt, Evict, EvictFails, Agreed
    <2>8. ASSUME NEW a, Complete(c, a) PROVE RecallsBehind'
      <3>1. c \notin Recallers /\ pc[c] = "asking" BY <2>8 DEF Complete, FlightsLed
      <3> QED BY <2>8, <3>1 DEF Complete, Publish, Return
    <2>9. CASE Save(c)
      <3>1. c \notin Recallers /\ pc[c] = "saving" BY <2>9 DEF Save, FlightsLed
      <3> QED BY <2>9, <3>1 DEF Save, Return
    <2>10. CASE SaveFails(c) BY <2>10 DEF SaveFails
    <2>11. CASE Clear(c) BY <2>11 DEF Clear, FlightsLed
    <2>12. CASE Land(c) BY <2>12 DEF Land, FlightsLed
    <2> QED BY <1>1, <2>1, <2>2, <2>3, <2>4, <2>5, <2>6, <2>7, <2>8, <2>9, <2>10,
                <2>11, <2>12 DEF Step
  <1>2. ASSUME NEW c \in Callers, Cancel(c) PROVE RecallsBehind'
    BY <1>2 DEF Cancel
  <1>3. CASE UNCHANGED vars BY <1>3 DEF vars
  <1> QED BY <1>1, <1>2, <1>3 DEF Next, Finished

\* A recall that waited for a flight is not told there is nothing when its leader
\* was answered.  (land after saveAcceptedCache, executeJSON's recall branch)
THEOREM RecallSafety == Usable /\ Spec => []RecallReadsItsLeader
  <1> SUFFICES ASSUME Usable PROVE Spec => []RecallReadsItsLeader
    OBVIOUS
  <1>1. Init => Agreed /\ RecallsBehind
    BY AgreedInit, Consts DEF Init, RecallsBehind
  <1>2. RequestInv /\ Agreed /\ [Next]_vars => Agreed' BY AgreedStep
  <1>3. RequestInv /\ Agreed /\ RecallsBehind /\ [Next]_vars => RecallsBehind' BY RecallStep
  <1>4. RecallsBehind => RecallReadsItsLeader
    BY Consts DEF RecallsBehind, RecallReadsItsLeader
  <1> QED BY <1>1, <1>2, <1>3, <1>4, RequestInvariance, PTL DEF Spec

-----------------------------------------------------------------------------
(* Whom a caller waits for.                                                  *)

\* A flight's leader lands before it is done, and who waits waits for a leader.
WaitsLed ==
    \A c \in Callers :
        /\ Leads(c) /\ pc[c] = "done" => c \in landed
        /\ pc[c] = "waiting" => Leads(current[c])

\* The flight somebody waits for has landed, or its leader is on the way to land it and
\* waits for no other caller itself.
NoWaiterStranded ==
    \A c \in Callers : pc[c] = "waiting" =>
        current[c] \in landed \/ pc[current[c]] \in Flying \cup {"landing"}

LEMMA WaitsStep ==
  ASSUME TypeOK, FlightsLed, WaitsLed, [Next]_vars
  PROVE  WaitsLed'
  <1> USE Consts, Marks DEF TypeOK, FlightsLed, WaitsLed, Flying, Leads, Members
  <1>1. ASSUME NEW c \in Callers, Step(c) PROVE WaitsLed'
    <2>1. CASE Enter(c) BY <2>1 DEF Enter, Return
    <2>2. CASE Join(c) BY <2>2 DEF Join, JoinFlight
    <2>3. CASE Follow(c) BY <2>3 DEF Follow, Return
    <2>4. CASE StopWaiting(c) BY <2>4 DEF StopWaiting, Return
    <2>5. CASE Hit(c) BY <2>5 DEF Hit, Publish, Return
    <2>6. CASE MissRecord(c) BY <2>6 DEF MissRecord, Miss, Return
    <2>7. CASE ReadCorrupt(c) BY <2>7 DEF ReadCorrupt
    <2>8. CASE Evict(c) BY <2>8 DEF Evict, Miss, Return
    <2>9. CASE EvictFails(c) BY <2>9 DEF EvictFails, Miss, Return
    <2>10. ASSUME NEW a \in Answers \cup {Failed, Interrupted}, Complete(c, a) PROVE WaitsLed'
      BY <2>10 DEF Complete, Publish, Return
    <2>11. CASE Save(c) BY <2>11 DEF Save, Return
    <2>12. CASE SaveFails(c) BY <2>12 DEF SaveFails, Return
    <2>13. CASE Clear(c) BY <2>13 DEF Clear
    <2>14. CASE Land(c) BY <2>14 DEF Land, LandedAnswer, WithLanded
    <2> QED BY <1>1, <2>1, <2>2, <2>3, <2>4, <2>5, <2>6, <2>7, <2>8, <2>9, <2>10,
                <2>11, <2>12, <2>13, <2>14 DEF Step
  <1>2. ASSUME NEW c \in Callers, Cancel(c) PROVE WaitsLed'
    BY <1>2 DEF Cancel
  <1>3. CASE UNCHANGED vars BY <1>3 DEF vars
  <1> QED BY <1>1, <1>2, <1>3 DEF Next, Finished

\* However leaders stop, fail, evict or miss, no follower and no recall waits for a
\* flight that nobody lands, and waits never form a chain.  (wait, land)
THEOREM StrandingSafety == Spec => []NoWaiterStranded
  <1>1. Init => WaitsLed BY Consts, Marks DEF Init, WaitsLed, Leads
  <1>2. RequestInv /\ WaitsLed /\ [Next]_vars => WaitsLed'
    BY WaitsStep DEF RequestInv
  <1>3. RequestInv /\ WaitsLed => NoWaiterStranded
    BY DEF RequestInv, FlightsLed, WaitsLed, NoWaiterStranded
  <1> QED BY <1>1, <1>2, <1>3, RequestInvariance, PTL DEF Spec
=============================================================================
