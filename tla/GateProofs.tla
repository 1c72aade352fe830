----------------------------- MODULE GateProofs -----------------------------
(***************************************************************************)
(* Proofs about the adaptive gate, for any set of calls, any sizes, paces    *)
(* and cooldowns, and any bounds; then about the provider calls that use it. *)
(*                                                                         *)
(* A provider call uses the gate as the gate expects to be used: whatever    *)
(* the provider answers, however often Complete tries again and whoever ends *)
(* the call, each step is a step of AttemptGate or leaves the gate alone.    *)
(* What is proved of the gate therefore holds of the calls.  On top of it,   *)
(* a call's own invariant bounds what it sends again and shows that no       *)
(* attempt starts inside a cooldown some finished attempt was told of.       *)
(***************************************************************************)
EXTENDS ProviderCall, FiniteSetTheorems, TLAPS

\* The names given to single expressions are expanded everywhere.
USE DEF Room, FollowingStart, Timer, ExtendedRetryAt, Doubled

\* A set of calls has as many members as its count says when one joins it.
LEMMA LeasedFinite == ASSUME TypeOK PROVE IsFiniteSet(Leased)
  BY GateAssumption, FS_Subset DEF Leased

\* The initial state satisfies the inductive invariant.
LEMMA InitIInv == Init => IInv
  <1> SUFFICES ASSUME Init PROVE IInv
    OBVIOUS
  <1>1. Leased = {}
    BY DEF Init, Leased
  <1>2. Cardinality(Leased) = 0
    BY <1>1, FS_EmptySet
  <1>3. TypeOK
    BY GateAssumption DEF Init, TypeOK, NoStart, RecoverySuccesses
  <1> QED
    BY <1>2, <1>3, GateAssumption
    DEF Init, IInv, LeasesCounted, WithinConfigured, NoLostWakeup, NoOversleep,
        RecoveryEarned, GateShape, ParkedWait, EpochsRead, WaitsCover, Due, Max2

\* Every step keeps the types.
LEMMA NextTypeOK == TypeOK /\ [Next]_vars => TypeOK'
  <1> SUFFICES ASSUME TypeOK, [Next]_vars PROVE TypeOK'
    OBVIOUS
  <1> USE GateAssumption DEF TypeOK, RecoverySuccesses
  <1>1. ASSUME NEW c \in Calls, Bind(c) PROVE TypeOK'
    BY <1>1 DEF Bind, history, Max2
  <1>2. ASSUME NEW c \in Calls, ReadEpoch(c) PROVE TypeOK'
    BY <1>2 DEF ReadEpoch, gate
  <1>3. ASSUME NEW c \in Calls, GiveUp(c) PROVE TypeOK'
    BY <1>3 DEF GiveUp, history
  <1>4. ASSUME NEW c \in Calls, Take(c) PROVE TypeOK'
    BY <1>4 DEF Take
  <1>5. ASSUME NEW c \in Calls, Park(c) PROVE TypeOK'
    BY <1>5 DEF Park, history, Due, Max2
  <1>6. ASSUME NEW c \in Calls, Wake(c) PROVE TypeOK'
    BY <1>6 DEF Wake, history
  <1>7. ASSUME NEW c \in Calls, Start(c) PROVE TypeOK'
    BY <1>7 DEF Start, gate, history
  <1>8. ASSUME NEW c \in Calls, AbandonLease(c) PROVE TypeOK'
    BY <1>8 DEF AbandonLease, ReleaseLease, history
  <1>9. ASSUME NEW c \in Calls, NEW delay \in Cooldowns, RateLimited(c, delay) PROVE TypeOK'
    BY <1>9 DEF RateLimited, BackOff, Max2, Min2
  <1>10. ASSUME NEW c \in Calls, Release(c) PROVE TypeOK'
    BY <1>10 DEF Release, ReleaseLease, history
  <1>11. ASSUME NEW c \in Calls, Retry(c) \/ Leave(c) PROVE TypeOK'
    BY <1>11 DEF Retry, Leave, gate, history
  <1>12. ASSUME NEW c \in Calls, Collapse(c) PROVE TypeOK'
    BY <1>12 DEF Collapse, BackOff, Max2, Min2
  <1>13. ASSUME NEW c \in Calls, Completed(c) PROVE TypeOK'
    BY <1>13 DEF Completed, Recover, Counts, Min2
  <1>14. ASSUME NEW c \in Calls, Cancel(c) PROVE TypeOK'
    BY <1>14 DEF Cancel, gate, history
  <1>15. ASSUME Tick PROVE TypeOK'
    BY <1>15 DEF Tick, gate, history
  <1>16. CASE UNCHANGED vars
    BY <1>16 DEF vars, gate, history
  <1> QED
    BY <1>1, <1>2, <1>3, <1>4, <1>5, <1>6, <1>7, <1>8, <1>9, <1>10, <1>11,
       <1>12, <1>13, <1>14, <1>15, <1>16 DEF Next, CallStep, Finished

\* Taking a lease adds one call to those that hold one.
LEMMA LeaseTaken ==
  ASSUME TypeOK, LeasesCounted, NEW c \in Calls, Take(c)
  PROVE  LeasesCounted'
  <1>1. Leased' = Leased \cup {c} /\ c \notin Leased
    BY DEF Leased, Take, TypeOK
  <1>2. Cardinality(Leased \cup {c}) = Cardinality(Leased) + 1
    BY <1>1, LeasedFinite, FS_AddElement
  <1> QED
    BY <1>1, <1>2 DEF Take, LeasesCounted

\* Giving one back removes it, and the count was not zero.
LEMMA LeaseReturned ==
  ASSUME TypeOK, LeasesCounted, NEW c \in Calls, c \in Leased,
         Leased' = Leased \ {c}, ReleaseLease
  PROVE  LeasesCounted' /\ active' = active - 1
  <1>1. /\ Cardinality(Leased \ {c}) = Cardinality(Leased) - 1
        /\ Cardinality(Leased) \in Nat
    BY LeasedFinite, FS_RemoveElement, FS_CardinalityType
  <1>2. active > 0
    <2>1. Leased # {}
      OBVIOUS
    <2>2. Cardinality(Leased) # 0
      BY <2>1, LeasedFinite, FS_EmptySet
    <2> QED
      BY <2>2, <1>1 DEF LeasesCounted
  <1> QED
    BY <1>1, <1>2 DEF ReleaseLease, LeasesCounted

\* Every step keeps the count of leases right.
LEMMA NextLeasesCounted == TypeOK /\ LeasesCounted /\ [Next]_vars => LeasesCounted'
  <1> SUFFICES ASSUME TypeOK, LeasesCounted, [Next]_vars PROVE LeasesCounted'
    OBVIOUS
  <1> USE DEF TypeOK
  <1>1. ASSUME Leased' = Leased, active' = active PROVE LeasesCounted'
    BY <1>1 DEF LeasesCounted
  <1>2. ASSUME NEW c \in Calls,
               \/ Bind(c) \/ ReadEpoch(c) \/ GiveUp(c) \/ Park(c) \/ Wake(c)
               \/ Start(c) \/ Retry(c) \/ Leave(c) \/ Collapse(c) \/ Completed(c)
               \/ \E delay \in Cooldowns : RateLimited(c, delay)
        PROVE  LeasesCounted'
    <2>1. Leased' = Leased
      BY <1>2 DEF Leased, Bind, ReadEpoch, GiveUp, Park, Wake, Start, Retry,
                  Leave, Collapse, Completed, RateLimited
    <2>2. active' = active
      BY <1>2 DEF Bind, ReadEpoch, GiveUp, Park, Wake, Start, Retry,
                  Leave, Collapse, Completed, RateLimited, gate
    <2> QED
      BY <2>1, <2>2, <1>1
  <1>3. ASSUME NEW c \in Calls, Take(c) PROVE LeasesCounted'
    BY <1>3, LeaseTaken
  <1>4. ASSUME NEW c \in Calls, AbandonLease(c) \/ Release(c) PROVE LeasesCounted'
    <2>1. c \in Leased /\ Leased' = Leased \ {c} /\ ReleaseLease
      BY <1>4 DEF Leased, AbandonLease, Release
    <2> QED
      BY <2>1, LeaseReturned
  <1>5. ASSUME (\E c \in Calls : Cancel(c)) \/ Tick \/ UNCHANGED vars
        PROVE  LeasesCounted'
    <2>1. Leased' = Leased /\ active' = active
      BY <1>5 DEF Leased, Cancel, Tick, vars, gate
    <2> QED
      BY <2>1, <1>1
  <1> QED
    BY <1>2, <1>3, <1>4, <1>5 DEF Next, CallStep, Finished

\* Every step keeps the shape of the gate and the parked calls' conditions.
LEMMA NextGateShape ==
  TypeOK /\ GateShape /\ [Next]_vars => GateShape'
  <1> SUFFICES ASSUME TypeOK, GateShape, [Next]_vars PROVE GateShape'
    OBVIOUS
  <1> USE DEF TypeOK, GateShape
  <1>1. ASSUME NEW c \in Calls, Bind(c) PROVE GateShape'
    <2>1. CASE configured = 0
      <3>1. Concurrency[c] \in Nat
        BY GateAssumption
      <3>2. configured' \in Nat /\ configured' > 0
        BY <1>1, <2>1, <3>1, GateAssumption DEF Bind, Max2
      <3>3. limit' = configured'
        BY <1>1, <2>1 DEF Bind
      <3> QED
        BY <3>2, <3>3
    <2>2. CASE configured # 0
      BY <1>1, <2>2 DEF Bind
    <2> QED
      BY <2>1, <2>2
  <1>2. ASSUME NEW c \in Calls,
               \/ ReadEpoch(c) \/ GiveUp(c) \/ Take(c) \/ Park(c) \/ Wake(c)
               \/ Start(c) \/ AbandonLease(c) \/ Release(c) \/ Retry(c) \/ Leave(c)
        PROVE  GateShape'
    BY <1>2 DEF ReadEpoch, GiveUp, Take, Park, Wake, Start, AbandonLease,
                Release, Retry, Leave, gate
  <1>3. ASSUME NEW c \in Calls,
               Collapse(c) \/ \E delay \in Cooldowns : RateLimited(c, delay)
        PROVE  GateShape'
    BY <1>3 DEF Collapse, RateLimited, BackOff, Min2
  <1>4. ASSUME NEW c \in Calls, Completed(c) PROVE GateShape'
    BY <1>4 DEF Completed, Recover, Counts, Min2
  <1>5. ASSUME (\E c \in Calls : Cancel(c)) \/ Tick \/ UNCHANGED vars
        PROVE  GateShape'
    BY <1>5 DEF Cancel, Tick, vars, gate
  <1> QED
    BY <1>1, <1>2, <1>3, <1>4, <1>5 DEF Next, CallStep, Finished

\* Every step keeps the parked calls waiting and the clock in its bound.
LEMMA NextParkedWait == TypeOK /\ ParkedWait /\ [Next]_vars => ParkedWait'
  <1> SUFFICES ASSUME TypeOK, ParkedWait, [Next]_vars PROVE ParkedWait'
    OBVIOUS
  <1> USE GateAssumption DEF TypeOK, ParkedWait
  <1>1. ASSUME NEW c \in Calls,
               \/ Bind(c) \/ ReadEpoch(c) \/ GiveUp(c) \/ Take(c) \/ Park(c) \/ Wake(c)
               \/ Start(c) \/ Retry(c) \/ Leave(c)
        PROVE  ParkedWait'
    BY <1>1 DEF Bind, ReadEpoch, GiveUp, Take, Park, Wake, Start, Retry, Leave, gate
  <1>2. ASSUME NEW c \in Calls,
               \/ AbandonLease(c) \/ Release(c) \/ Collapse(c)
               \/ \E delay \in Cooldowns : RateLimited(c, delay)
        PROVE  ParkedWait'
    BY <1>2 DEF AbandonLease, Release, ReleaseLease, Collapse, RateLimited, BackOff
  <1>3. ASSUME NEW c \in Calls, Completed(c) PROVE ParkedWait'
    BY <1>3 DEF Completed, Recover
  <1>4. ASSUME (\E c \in Calls : Cancel(c)) \/ Tick \/ UNCHANGED vars
        PROVE  ParkedWait'
    BY <1>4 DEF Cancel, Tick, vars, gate
  <1> QED
    BY <1>1, <1>2, <1>3, <1>4 DEF Next, CallStep, Finished

\* The gate's next due time never moves back.
LEMMA DueGrows == TypeOK /\ [Next]_vars => Due' >= Due /\ retryAt' >= retryAt
  <1> SUFFICES ASSUME TypeOK, TypeOK', [Next]_vars
               PROVE  Due' >= Due /\ retryAt' >= retryAt
    BY NextTypeOK
  <1>1. retryAt' >= retryAt /\ nextStart' >= nextStart
    <2> USE DEF TypeOK
    <2>1. ASSUME NEW c \in Calls, Take(c)
          PROVE  retryAt' >= retryAt /\ nextStart' >= nextStart
      BY <2>1 DEF Take, Due, Max2
    <2>2. ASSUME NEW c \in Calls,
                 Collapse(c) \/ \E delay \in Cooldowns : RateLimited(c, delay)
          PROVE  retryAt' >= retryAt /\ nextStart' >= nextStart
      BY <2>2, GateAssumption DEF Collapse, RateLimited, BackOff, Max2
    <2>3. ASSUME NEW c \in Calls,
                 \/ Bind(c) \/ ReadEpoch(c) \/ GiveUp(c) \/ Park(c) \/ Wake(c)
                 \/ Start(c) \/ AbandonLease(c) \/ Release(c) \/ Retry(c)
                 \/ Leave(c) \/ Completed(c) \/ Cancel(c)
          PROVE  retryAt' >= retryAt /\ nextStart' >= nextStart
      BY <2>3 DEF Bind, ReadEpoch, GiveUp, Park, Wake, Start, AbandonLease,
                  Release, Retry, Leave, Completed, Cancel, gate
    <2>4. ASSUME Tick \/ UNCHANGED vars
          PROVE  retryAt' >= retryAt /\ nextStart' >= nextStart
      BY <2>4 DEF Tick, vars, gate
    <2> QED
      BY <2>1, <2>2, <2>3, <2>4 DEF Next, CallStep, Finished
  <1> QED
    BY <1>1 DEF TypeOK, Due, Max2

\* No timer ever outlasts the gate's wait.
LEMMA NextNoOversleep == TypeOK /\ NoOversleep /\ [Next]_vars => NoOversleep'
  <1> SUFFICES ASSUME TypeOK, TypeOK', NoOversleep, [Next]_vars PROVE NoOversleep'
    BY NextTypeOK
  <1> USE DEF NoOversleep
  <1>1. Due \in Nat /\ Due' \in Nat /\ Due' >= Due
    BY DueGrows DEF TypeOK, Due, Max2
  <1>2. \A c \in Calls : wake'[c] = wake[c] \/ wake'[c] = 0 \/ wake'[c] = Due
    <2>1. ASSUME NEW c \in Calls, GiveUp(c) \/ Park(c) \/ Wake(c)
          PROVE  \A d \in Calls : wake'[d] = wake[d] \/ wake'[d] = 0 \/ wake'[d] = Due
      BY <2>1 DEF TypeOK, GiveUp, Park, Wake
    <2>2. ASSUME NEW c \in Calls,
                 \/ Bind(c) \/ ReadEpoch(c) \/ Take(c) \/ Start(c) \/ AbandonLease(c)
                 \/ Release(c) \/ Retry(c) \/ Leave(c) \/ Completed(c) \/ Cancel(c)
                 \/ Collapse(c) \/ \E delay \in Cooldowns : RateLimited(c, delay)
          PROVE  wake' = wake
      BY <2>2 DEF Bind, ReadEpoch, Take, Start, AbandonLease, Release, Retry,
                  Leave, Completed, Cancel, Collapse, RateLimited
    <2>3. ASSUME Tick \/ UNCHANGED vars PROVE wake' = wake
      BY <2>3 DEF Tick, vars
    <2> QED
      BY <2>1, <2>2, <2>3 DEF Next, CallStep, Finished
  <1> QED
    BY <1>1, <1>2 DEF TypeOK

\* Every step keeps what the parked calls rely on: room is missing, and a
\* lease is out whose release wakes them.
LEMMA NextNoLostWakeup == IInv /\ [Next]_vars => NoLostWakeup'
  <1> SUFFICES ASSUME IInv, [Next]_vars PROVE NoLostWakeup'
    OBVIOUS
  <1> USE GateAssumption DEF IInv, TypeOK, NoLostWakeup, GateShape, ParkedWait
  <1>1. ASSUME NEW c \in Calls, Bind(c) PROVE NoLostWakeup'
    BY <1>1 DEF Bind
  <1>2. ASSUME NEW c \in Calls, GiveUp(c) \/ Wake(c) PROVE NoLostWakeup'
    BY <1>2 DEF GiveUp, Wake
  <1>3. ASSUME NEW c \in Calls, Take(c) PROVE NoLostWakeup'
    BY <1>3 DEF Take
  <1>4. ASSUME NEW c \in Calls, Park(c) PROVE NoLostWakeup'
    <2>1. Due \in Nat
      BY DEF Due, Max2
    <2>2. pc[c] # "out" /\ limit > 0
      BY <1>4 DEF Park
    <2> QED
      BY <1>4, <2>1, <2>2 DEF Park
  <1>5. ASSUME NEW c \in Calls, AbandonLease(c) \/ Release(c) PROVE NoLostWakeup'
    BY <1>5 DEF AbandonLease, Release, ReleaseLease
  <1>6. ASSUME NEW c \in Calls,
               Collapse(c) \/ \E delay \in Cooldowns : RateLimited(c, delay)
        PROVE  NoLostWakeup'
    BY <1>6 DEF Collapse, RateLimited, BackOff, Min2
  <1>7. ASSUME NEW c \in Calls, Completed(c) PROVE NoLostWakeup'
    BY <1>7 DEF Completed, Recover
  <1>8. ASSUME NEW c \in Calls,
               \/ ReadEpoch(c) \/ Start(c) \/ Retry(c) \/ Leave(c) \/ Cancel(c)
        PROVE  NoLostWakeup'
    BY <1>8 DEF ReadEpoch, Start, Retry, Leave, Cancel, gate
  <1>9. ASSUME Tick \/ UNCHANGED vars PROVE NoLostWakeup'
    BY <1>9 DEF Tick, vars, gate
  <1> QED
    BY <1>1, <1>2, <1>3, <1>4, <1>5, <1>6, <1>7, <1>8, <1>9
    DEF Next, CallStep, Finished

\* Every step keeps the leases within the configured number.
LEMMA NextWithinConfigured == IInv /\ [Next]_vars => WithinConfigured'
  <1> SUFFICES ASSUME IInv, [Next]_vars, LeasesCounted' PROVE WithinConfigured'
    BY NextLeasesCounted DEF IInv
  <1> USE GateAssumption DEF IInv, TypeOK, GateShape
  <1>1. active' <= configured'
    <2>0. active <= configured
      BY DEF LeasesCounted, WithinConfigured
    <2>1. ASSUME NEW c \in Calls, Take(c) PROVE active' <= configured'
      BY <2>1 DEF Take
    <2>2. ASSUME NEW c \in Calls, Bind(c) PROVE active' <= configured'
      BY <2>0, <2>2 DEF Bind, Max2
    <2>3. ASSUME NEW c \in Calls, AbandonLease(c) \/ Release(c)
          PROVE  active' <= configured'
      BY <2>0, <2>3 DEF AbandonLease, Release, ReleaseLease
    <2>4. ASSUME NEW c \in Calls,
                 \/ ReadEpoch(c) \/ GiveUp(c) \/ Park(c) \/ Wake(c) \/ Start(c)
                 \/ Retry(c) \/ Leave(c) \/ Cancel(c) \/ Collapse(c) \/ Completed(c)
                 \/ \E delay \in Cooldowns : RateLimited(c, delay)
          PROVE  UNCHANGED <<active, configured>>
      BY <2>4 DEF ReadEpoch, GiveUp, Park, Wake, Start, Retry, Leave, Cancel,
                  Collapse, Completed, RateLimited, gate
    <2>5. ASSUME Tick \/ UNCHANGED vars PROVE UNCHANGED <<active, configured>>
      BY <2>5 DEF Tick, vars, gate
    <2> QED
      BY <2>0, <2>1, <2>2, <2>3, <2>4, <2>5 DEF Next, CallStep, Finished
  <1> QED
    BY <1>1 DEF LeasesCounted, WithinConfigured

\* Every step keeps what a call's epoch says about when it began.
LEMMA NextEpochsRead == TypeOK /\ EpochsRead /\ [Next]_vars => EpochsRead'
  <1> SUFFICES ASSUME TypeOK, EpochsRead, [Next]_vars PROVE EpochsRead'
    OBVIOUS
  <1> USE GateAssumption DEF TypeOK, EpochsRead
  <1>1. ASSUME NEW c \in Calls, ReadEpoch(c) PROVE EpochsRead'
    BY <1>1 DEF ReadEpoch, gate
  <1>2. ASSUME NEW c \in Calls,
               Collapse(c) \/ \E delay \in Cooldowns : RateLimited(c, delay)
        PROVE  EpochsRead'
    BY <1>2 DEF Collapse, RateLimited, BackOff
  <1>3. ASSUME NEW c \in Calls,
               \/ Bind(c) \/ GiveUp(c) \/ Take(c) \/ Park(c) \/ Wake(c) \/ Start(c)
               \/ AbandonLease(c) \/ Release(c) \/ Retry(c) \/ Leave(c) \/ Completed(c)
        PROVE  EpochsRead'
    BY <1>3 DEF Bind, GiveUp, Take, Park, Wake, Start, AbandonLease, Release,
                Retry, Leave, Completed, gate, history
  <1>4. ASSUME (\E c \in Calls : Cancel(c)) \/ Tick \/ UNCHANGED vars
        PROVE  EpochsRead'
    BY <1>4 DEF Cancel, Tick, vars, gate, history
  <1> QED
    BY <1>1, <1>2, <1>3, <1>4 DEF Next, CallStep, Finished

\* Every step keeps the counted successes earned.
LEMMA NextRecoveryEarned == IInv /\ [Next]_vars => RecoveryEarned'
  <1> SUFFICES ASSUME IInv, [Next]_vars PROVE RecoveryEarned'
    OBVIOUS
  <1> USE GateAssumption DEF IInv, TypeOK, RecoveryEarned, RecoverySuccesses
  <1>1. ASSUME NEW c \in Calls,
               Collapse(c) \/ \E delay \in Cooldowns : RateLimited(c, delay)
        PROVE  RecoveryEarned'
    BY <1>1 DEF Collapse, RateLimited, BackOff
  <1>2. ASSUME NEW c \in Calls, Completed(c) PROVE RecoveryEarned'
    <2>1. Counts(c) => c \in fresh
      BY <1>2 DEF Counts, EpochsRead, Completed
    <2>2. CASE limit' > limit
      BY <1>2, <2>2 DEF Completed, Recover
    <2>3. CASE ~(limit' > limit)
      BY <1>2, <2>1, <2>3 DEF Completed, Recover, Min2
    <2> QED
      BY <2>2, <2>3
  <1>3. ASSUME NEW c \in Calls,
               \/ Bind(c) \/ ReadEpoch(c) \/ GiveUp(c) \/ Take(c) \/ Park(c)
               \/ Wake(c) \/ Start(c) \/ AbandonLease(c) \/ Release(c)
               \/ Retry(c) \/ Leave(c) \/ Cancel(c)
        PROVE  UNCHANGED <<successes, earned>>
    BY <1>3 DEF Bind, ReadEpoch, GiveUp, Take, Park, Wake, Start, AbandonLease,
                Release, Retry, Leave, Cancel, gate, history
  <1>4. ASSUME Tick \/ UNCHANGED vars PROVE UNCHANGED <<successes, earned>>
    BY <1>4 DEF Tick, vars, gate, history
  <1> QED
    BY <1>1, <1>2, <1>3, <1>4 DEF Next, CallStep, Finished

\* Every step keeps the gate's waits at least as long as what was promised.
LEMMA NextWaitsCover == IInv /\ [Next]_vars => WaitsCover'
  <1> SUFFICES ASSUME IInv, [Next]_vars PROVE WaitsCover'
    OBVIOUS
  <1> USE GateAssumption DEF IInv, TypeOK, WaitsCover
  <1>1. ASSUME NEW c \in Calls, Take(c) PROVE WaitsCover'
    BY <1>1 DEF Take, NoStart
  <1>2. ASSUME NEW c \in Calls, NEW delay \in Nat, BackOff(delay),
               UNCHANGED <<lastStart, now, interval, nextStart>>
        PROVE  WaitsCover'
    BY <1>2 DEF BackOff, Max2, NoStart
  <1>3. ASSUME NEW c \in Calls,
               Collapse(c) \/ \E delay \in Cooldowns : RateLimited(c, delay)
        PROVE  WaitsCover'
    BY <1>2, <1>3 DEF Collapse, RateLimited
  <1>4. ASSUME NEW c \in Calls,
               \/ Bind(c) \/ ReadEpoch(c) \/ GiveUp(c) \/ Park(c) \/ Wake(c)
               \/ Start(c) \/ AbandonLease(c) \/ Release(c) \/ Retry(c)
               \/ Leave(c) \/ Completed(c) \/ Cancel(c)
        PROVE  WaitsCover'
    BY <1>4 DEF Bind, ReadEpoch, GiveUp, Park, Wake, Start, AbandonLease,
                Release, Retry, Leave, Completed, Cancel, gate, history, NoStart
  <1>5. ASSUME Tick PROVE WaitsCover'
    BY <1>5 DEF Tick, gate, history, NoStart
  <1>6. ASSUME UNCHANGED vars PROVE WaitsCover'
    BY <1>6 DEF vars, gate, history, NoStart
  <1> QED
    BY <1>1, <1>3, <1>4, <1>5, <1>6 DEF Next, CallStep, Finished

\* The inductive invariant holds in every reachable state.
THEOREM Invariance == Spec => []IInv
  <1>1. Init => IInv
    BY InitIInv
  <1>2. IInv /\ [Next]_vars => IInv'
    BY NextTypeOK, NextLeasesCounted, NextWithinConfigured, NextNoLostWakeup,
       NextNoOversleep, NextRecoveryEarned, NextGateShape, NextParkedWait,
       NextEpochsRead, NextWaitsCover
    DEF IInv
  <1> QED
    BY <1>1, <1>2, PTL DEF Spec

\* The count of active attempts is the number of calls that hold a lease, and
\* they are never more than the gate was configured for.
THEOREM LeaseSafety == Spec => [](TypeOK /\ LeasesCounted /\ WithinConfigured)
  <1>1. IInv => TypeOK /\ LeasesCounted /\ WithinConfigured
    BY DEF IInv
  <1> QED
    BY <1>1, Invariance, PTL

\* No call waits on the channel with nobody left to wake it, and no timer
\* outlasts the gate's wait.
THEOREM WakeupSafety == Spec => [](NoLostWakeup /\ NoOversleep)
  <1>1. IInv => NoLostWakeup /\ NoOversleep
    BY DEF IInv
  <1> QED
    BY <1>1, Invariance, PTL

\* Only calls that began after the last backoff count toward recovery.
THEOREM RecoverySafety == Spec => []RecoveryEarned
  <1>1. IInv => RecoveryEarned
    BY DEF IInv
  <1> QED
    BY <1>1, Invariance, PTL

\* A lease is taken by Take alone.
LEMMA OnlyTakeStarts ==
  ASSUME TypeOK, [Next]_vars,
         \/ lastStart' # lastStart
         \/ \E c \in Calls : pc[c] = "trying" /\ pc'[c] = "taken"
  PROVE  \E c \in Calls : Take(c)
  <1> USE DEF TypeOK
  <1>1. ASSUME NEW c \in Calls,
               \/ Bind(c) \/ ReadEpoch(c) \/ GiveUp(c) \/ Park(c) \/ Wake(c)
               \/ Start(c) \/ AbandonLease(c) \/ Release(c) \/ Retry(c)
               \/ Leave(c) \/ Completed(c) \/ Cancel(c) \/ Collapse(c)
               \/ \E delay \in Cooldowns : RateLimited(c, delay)
        PROVE  FALSE
    BY <1>1 DEF Bind, ReadEpoch, GiveUp, Park, Wake, Start, AbandonLease,
                Release, Retry, Leave, Completed, Cancel, Collapse, RateLimited,
                gate, history
  <1>2. ASSUME Tick \/ UNCHANGED vars PROVE FALSE
    BY <1>2 DEF Tick, vars, gate, history
  <1> QED
    BY <1>1, <1>2 DEF Next, CallStep, Finished

\* No attempt starts before the wait of any 429 has passed, nor beside another
\* while the gate is at one lease.
THEOREM BackoffSafety == Spec => BackoffHonoured
  <1>1. IInv /\ [Next]_vars =>
          [\A c \in Calls : pc[c] = "trying" /\ pc'[c] = "taken"
              => /\ \A t \in promised : now >= t
                 /\ limit = 1 => Leased = {}]_vars
    <2> SUFFICES ASSUME IInv, [Next]_vars, NEW c \in Calls,
                        pc[c] = "trying", pc'[c] = "taken"
                 PROVE  /\ \A t \in promised : now >= t
                        /\ limit = 1 => Leased = {}
      OBVIOUS
    <2>1. PICK d \in Calls : Take(d)
      BY OnlyTakeStarts DEF IInv
    <2>2. ASSUME NEW t \in promised PROVE now >= t
      <3>1. now >= Due
        BY <2>1 DEF Take
      <3> QED
        BY <3>1 DEF IInv, TypeOK, WaitsCover, Due, Max2
    <2>3. ASSUME limit = 1 PROVE Leased = {}
      <3>1. Cardinality(Leased) = 0
        BY <2>1, <2>3 DEF Take, IInv, TypeOK, LeasesCounted
      <3> QED
        BY <3>1, LeasedFinite, FS_EmptySet DEF IInv
    <2> QED
      BY <2>2, <2>3
  <1> QED
    BY <1>1, Invariance, PTL DEF Spec, BackoffHonoured

\* Each attempt through a paced gate starts at least its interval after the last one,
\* at the same instant never.
THEOREM PaceSafety == Spec => StartsSpaced
  <1>1. IInv /\ [Next]_vars =>
          [\A c \in Calls : pc[c] = "trying" /\ pc'[c] = "taken" /\ lastStart # NoStart
              => now >= lastStart + interval]_vars
    <2> SUFFICES ASSUME IInv, [Next]_vars, NEW c \in Calls,
                        pc[c] = "trying", pc'[c] = "taken", lastStart # NoStart
                 PROVE  now >= lastStart + interval
      OBVIOUS
    <2>1. PICK d \in Calls : Take(d)
      BY OnlyTakeStarts DEF IInv
    <2>2. now >= Due
      BY <2>1 DEF Take
    <2> QED
      BY <2>2 DEF IInv, TypeOK, WaitsCover, Due, Max2
  <1> QED
    BY <1>1, Invariance, PTL DEF Spec, StartsSpaced

\* A bound gate reopens only on the fourth success of a call that began after
\* the last backoff, after its cooldown, and by doubling at most.
THEOREM ReopenSafety == Spec => ReopensAfterCooldown
  <1> DEFINE Earned == /\ now >= retryAt
                       /\ earned + 1 >= RecoverySuccesses
                       /\ limit' <= 2 * limit /\ limit' <= configured
  <1>1. ASSUME IInv, [Next]_vars, limit' > limit, configured > 0
        PROVE  Earned
    <2> USE DEF IInv, TypeOK
    <2>1. ASSUME NEW c \in Calls, Completed(c) PROVE Earned
      BY <1>1, <2>1
      DEF Completed, Recover, Counts, Min2, RecoveryEarned, RecoverySuccesses
    <2>2. ASSUME NEW c \in Calls,
                 Collapse(c) \/ \E delay \in Cooldowns : RateLimited(c, delay)
          PROVE  FALSE
      BY <1>1, <2>2 DEF Collapse, RateLimited, BackOff, Min2
    <2>3. ASSUME NEW c \in Calls,
                 \/ Bind(c) \/ ReadEpoch(c) \/ GiveUp(c) \/ Take(c) \/ Park(c)
                 \/ Wake(c) \/ Start(c) \/ AbandonLease(c) \/ Release(c)
                 \/ Retry(c) \/ Leave(c) \/ Cancel(c)
          PROVE  FALSE
      BY <1>1, <2>3 DEF Bind, ReadEpoch, GiveUp, Take, Park, Wake, Start,
                        AbandonLease, Release, Retry, Leave, Cancel, gate
    <2>4. ASSUME Tick \/ UNCHANGED vars PROVE FALSE
      BY <1>1, <2>4 DEF Tick, vars, gate
    <2> QED
      BY <1>1, <2>1, <2>2, <2>3, <2>4 DEF Next, CallStep, Finished
  <1>2. IInv /\ [Next]_vars => [limit' > limit /\ configured > 0 => Earned]_vars
    BY <1>1
  <1> QED
    BY <1>2, Invariance, PTL DEF Spec, ReopensAfterCooldown

-----------------------------------------------------------------------------
(* The calls that use the gate.                                              *)

\* A pending reply belongs to a leased attempt, and names its cooldown.
PendingReply ==
    \A c \in Calls :
        /\ reply[c].kind \in RateKinds => reply[c].delay \in Cooldowns
        /\ reply[c].kind \notin RateKinds => reply[c].until = 0
        /\ reply[c] # NoReply => pc[c] \in {"held", "limited"}

\* The gate waits at least as long as any reported 429 asked for.
WaitsHeard ==
    \A c \in Calls :
        /\ reply[c].until <= now + reply[c].delay
        /\ pc[c] = "limited" => reply[c].until <= retryAt
        /\ \A i \in DOMAIN answers[c] : answers[c][i].until <= retryAt

\* A call inside Complete has no outcome yet.
Running ==
    \A c \in Calls :
        pc[c] \in {"bound", "trying", "waiting", "taken", "held", "limited"}
            => outcome[c] = "none"

Resendable(c, kind) == kind \in Resent /\ (kind = "http500" => c \notin SplitHTTP500)

\* What Complete has sent: all of it may be sent again while the call runs, and
\* all but the last when it has ended; one answerless reply among them.
SentSoFar ==
    \A c \in Calls :
        /\ \A i \in DOMAIN answers[c] :
              outcome[c] = "none" \/ i < Len(answers[c]) => Resendable(c, answers[c][i].kind)
        /\ \A i, j \in DOMAIN answers[c] :
              /\ outcome[c] = "none" \/ (i < Len(answers[c]) /\ j < Len(answers[c]))
              /\ answers[c][i].kind = "noAnswer" /\ answers[c][j].kind = "noAnswer"
              => i = j
        /\ \A i \in DOMAIN answers[c] : answers[c][i].kind = "noAnswer" => c \in retried
        /\ Len(answers[c]) <= MaxAttempts
        /\ outcome[c] = "none" => Len(answers[c]) < MaxAttempts

CallInv == CallTypeOK /\ PendingReply /\ WaitsHeard /\ Running /\ SentSoFar

-----------------------------------------------------------------------------
LEMMA CallStepIsGateStep == PendingReply /\ [CallNext]_allVars => [Next]_vars
  <1> SUFFICES ASSUME PendingReply, [CallNext]_allVars PROVE [Next]_vars
    OBVIOUS
  <1>1. ASSUME NEW c \in Calls, Complete(c) PROVE CallStep(c) \/ UNCHANGED vars
    <2>1. CASE Begin(c) BY <2>1 DEF Begin, CallStep
    <2>2. CASE InGate(c) BY <2>2 DEF InGate, CallStep
    <2>3. CASE Interrupted(c) BY <2>3 DEF Interrupted, CallStep
    <2>4. ASSUME NEW kind \in AnswerKinds, NEW delay \in Cooldowns \cup {0},
                 Answer(c, kind, delay)
          PROVE  UNCHANGED vars
      BY <2>4 DEF Answer
    <2>5. CASE Report(c) BY <2>5 DEF Report, PendingReply, CallStep
    <2>6. CASE Settle(c) BY <2>6 DEF Settle, CallStep
    <2>7. CASE Again(c) BY <2>7 DEF Again, CallStep
    <2>8. CASE StopWaiting(c) BY <2>8 DEF StopWaiting, CallStep
    <2>9. CASE End(c) BY <2>9 DEF End, CallStep
    <2> QED BY <1>1, <2>1, <2>2, <2>3, <2>4, <2>5, <2>6, <2>7, <2>8, <2>9 DEF Complete
  <1>2. ASSUME NEW c \in Calls, CallCancel(c) PROVE Next
    BY <1>2 DEF CallCancel, Next
  <1>3. CASE CallTick BY <1>3 DEF CallTick, Next
  <1>4. CASE AllEnded \/ UNCHANGED allVars BY <1>4 DEF AllEnded, allVars
  <1> QED BY <1>1, <1>2, <1>3, <1>4 DEF CallNext, Next

LEMMA InitCallInv == CallInit => CallInv
  <1> SUFFICES ASSUME CallInit PROVE CallInv
    OBVIOUS
  <1>1. CallTypeOK
    BY DEF CallInit, CallTypeOK, NoReply, Outcomes
  <1>2. PendingReply /\ WaitsHeard /\ Running
    BY DEF CallInit, Init, PendingReply, WaitsHeard, Running, NoReply, RateKinds
  <1>3. SentSoFar
    BY CallAssumption DEF CallInit, SentSoFar
  <1> QED
    BY <1>1, <1>2, <1>3 DEF CallInv

-----------------------------------------------------------------------------
\* What each step does to the variables the invariant speaks of.  A step that
\* touches none of answers, reply, outcome and retried keeps all but the parts
\* about pc, retryAt and now.
OwnRests == UNCHANGED <<answers, reply, outcome, retried>>

\* The effect of Settle(c), read off once.
LEMMA SettleEffect ==
  ASSUME TypeOK, CallInv, NEW c \in Calls, Settle(c)
  PROVE  /\ pc[c] \in {"held", "limited"} /\ outcome[c] = "none"
         /\ reply[c].kind \in Kinds
         /\ reply[c].until \in Nat /\ reply[c].until <= retryAt
         /\ retryAt' = retryAt /\ now' = now
         /\ pc' = [pc EXCEPT ![c] = IF pc[c] = "limited" THEN "overloaded" ELSE "answered"]
         /\ answers'[c] = Append(answers[c], [kind |-> reply[c].kind, until |-> reply[c].until])
         /\ \A d \in Calls \ {c} : answers'[d] = answers[d] /\ reply'[d] = reply[d]
                                   /\ outcome'[d] = outcome[d]
         /\ reply'[c] = NoReply
         /\ outcome'[c] = Judged(c, reply[c].kind, Len(answers[c]) + 1)
         /\ retried' = IF reply[c].kind = "noAnswer" THEN retried \cup {c} ELSE retried
  <1> USE DEF CallInv, CallTypeOK, TypeOK
  <1>1. pc[c] \in {"held", "limited"} /\ outcome[c] = "none"
    BY DEF Settle, Release, Running
  <1>2. reply[c] \in [kind : Kinds, delay : Cooldowns \cup {0}, until : Nat]
    BY DEF Settle
  <1>3. reply[c].kind \in Kinds /\ reply[c].until \in Nat
    BY <1>2
  <1>4. reply[c].until <= retryAt
    <2>1. CASE reply[c].kind \in RateKinds
      BY <2>1 DEF Settle, Reported, WaitsHeard
    <2>2. CASE reply[c].kind \notin RateKinds
      BY <2>2 DEF PendingReply
    <2> QED BY <2>1, <2>2
  <1>5. retryAt' = retryAt /\ now' = now
        /\ pc' = [pc EXCEPT ![c] = IF pc[c] = "limited" THEN "overloaded" ELSE "answered"]
    BY DEF Settle, Release
  <1> QED
    BY <1>1, <1>3, <1>4, <1>5 DEF Settle

\* A pending reply and an answer received, field by field.
LEMMA ReplyTyped ==
  ASSUME CallTypeOK, NEW c \in Calls
  PROVE  reply[c].delay \in Nat /\ reply[c].until \in Nat
  <1>1. reply[c] \in [kind : Kinds, delay : Cooldowns \cup {0}, until : Nat] \cup {NoReply}
    BY DEF CallTypeOK
  <1>2. CASE reply[c] = NoReply
    BY <1>2 DEF NoReply
  <1>3. CASE reply[c] \in [kind : Kinds, delay : Cooldowns \cup {0}, until : Nat]
    <2>1. reply[c].delay \in Cooldowns \cup {0} /\ reply[c].until \in Nat
      BY <1>3
    <2>2. Cooldowns \cup {0} \subseteq Nat
      BY GateAssumption
    <2> QED BY <2>1, <2>2
  <1> QED BY <1>1, <1>2, <1>3

LEMMA AnswersTyped ==
  ASSUME CallTypeOK, NEW c \in Calls, NEW i \in DOMAIN answers[c]
  PROVE  answers[c][i].until \in Nat
  <1> DEFINE Entry == [kind : Kinds, until : Nat]
  <1>1. answers[c] \in Seq(Entry)
    BY DEF CallTypeOK
  <1>2. answers[c][i] \in Entry
    <2> HIDE DEF Entry
    <2> QED BY <1>1
  <1> QED BY <1>2

LEMMA NextCallTypeOK == TypeOK /\ CallInv /\ [CallNext]_allVars => CallTypeOK'
  <1> SUFFICES ASSUME TypeOK, CallInv, [CallNext]_allVars PROVE CallTypeOK'
    OBVIOUS
  <1> USE DEF CallInv, CallTypeOK
  <1>1. ASSUME NEW c \in Calls,
               Begin(c) \/ InGate(c) \/ Again(c) \/ End(c) \/ CallCancel(c)
        PROVE  CallTypeOK'
    BY <1>1 DEF Begin, InGate, Again, End, CallCancel, callVars
  <1>2. ASSUME NEW c \in Calls, Interrupted(c) \/ StopWaiting(c) PROVE CallTypeOK'
    BY <1>2 DEF Interrupted, StopWaiting, Outcomes
  <1>3. ASSUME NEW c \in Calls, NEW kind \in AnswerKinds, NEW delay \in Cooldowns \cup {0},
               Answer(c, kind, delay)
        PROVE  CallTypeOK'
    <2>1. kind \in Kinds /\ now + delay \in Nat
      BY CallAssumption, GateAssumption DEF TypeOK
    <2> DEFINE new == [kind |-> kind, delay |-> delay,
                       until |-> IF kind \in RateKinds THEN now + delay ELSE 0]
    <2>2. new \in [kind : Kinds, delay : Cooldowns \cup {0}, until : Nat]
      BY <2>1
    <2>3. reply \in [Calls -> [kind : Kinds, delay : Cooldowns \cup {0}, until : Nat]
                                 \cup {NoReply}]
      OBVIOUS
    <2>4. reply' = [reply EXCEPT ![c] = new]
      BY <1>3 DEF Answer
    <2> DEFINE Record == [kind : Kinds, delay : Cooldowns \cup {0}, until : Nat]
    <2>5. reply' \in [Calls -> Record \cup {NoReply}]
      <3> HIDE DEF new, Record
      <3>1. reply \in [Calls -> Record \cup {NoReply}] /\ new \in Record
        BY <2>2, <2>3 DEF Record
      <3> QED BY <2>4, <3>1
    <2> QED BY <1>3, <2>5 DEF Answer
  <1>4. ASSUME NEW c \in Calls, Report(c) PROVE CallTypeOK'
    <2>1. reply[c].delay \in Nat /\ now \in Nat
      BY ReplyTyped DEF TypeOK
    <2>2. now + reply[c].delay \in Nat
      BY <2>1
    <2> QED BY <1>4, <2>2 DEF Report
  <1>5. ASSUME NEW c \in Calls, Settle(c) PROVE CallTypeOK'
    <2>1. reply[c].kind \in Kinds /\ reply[c].until \in Nat
      BY <1>5, SettleEffect
    <2> DEFINE sent == [kind |-> reply[c].kind, until |-> reply[c].until]
    <2> DEFINE Entry == [kind : Kinds, until : Nat]
    <2>2. sent \in Entry /\ answers \in [Calls -> Seq(Entry)]
      BY <2>1
    <2>3. answers' = [answers EXCEPT ![c] = Append(@, sent)]
      BY <1>5 DEF Settle
    <2>4. answers' \in [Calls -> Seq(Entry)]
      <3> HIDE DEF Entry, sent
      <3> QED BY <2>2, <2>3
    <2>5. Judged(c, reply[c].kind, Len(answers[c]) + 1) \in Outcomes
      BY <2>1 DEF Judged, Outcomes, Kinds, RateKinds
    <2> QED BY <1>5, <2>4, <2>5 DEF Settle
  <1>6. CASE CallTick \/ AllEnded \/ UNCHANGED allVars
    BY <1>6 DEF CallTick, AllEnded, allVars, callVars
  <1> QED BY <1>1, <1>2, <1>3, <1>4, <1>5, <1>6 DEF CallNext, Complete

\* The call's own steps through the gate: none but Start hands a lease out, and
\* none but Report leaves it limited.
LEMMA NextPendingAndWaits ==
  ASSUME TypeOK, TypeOK', CallInv, CallTypeOK', [CallNext]_allVars
  PROVE  PendingReply' /\ WaitsHeard'
  <1> USE DEF CallInv
  <1>0. retryAt' >= retryAt /\ retryAt \in Nat /\ retryAt' \in Nat /\ now \in Nat
        /\ now' \in Nat /\ DOMAIN pc = Calls /\ DOMAIN pc' = Calls
    BY CallStepIsGateStep, DueGrows DEF TypeOK
  <1>1. ASSUME UNCHANGED <<answers, reply>>, now' >= now,
               \A c \in Calls : pc'[c] = pc[c]
                   \/ (pc[c] \notin {"held", "limited"} /\ pc'[c] # "limited")
        PROVE  PendingReply' /\ WaitsHeard'
    <2> SUFFICES ASSUME NEW c \in Calls
                 PROVE  /\ reply[c] # NoReply => pc'[c] \in {"held", "limited"}
                        /\ reply[c].until <= now' + reply[c].delay
                        /\ pc'[c] = "limited" => reply[c].until <= retryAt'
                        /\ \A i \in DOMAIN answers[c] : answers[c][i].until <= retryAt'
      BY <1>1 DEF PendingReply, WaitsHeard
    <2>1. reply[c].until \in Nat /\ reply[c].delay \in Nat
      BY ReplyTyped
    <2>2. \A i \in DOMAIN answers[c] : answers[c][i].until \in Nat
      BY AnswersTyped
    <2>3. reply[c] # NoReply => pc'[c] \in {"held", "limited"}
      BY <1>1 DEF PendingReply
    <2>4. pc'[c] = "limited" => reply[c].until <= retryAt'
      BY <1>0, <1>1, <2>1 DEF WaitsHeard
    <2>5. \A i \in DOMAIN answers[c] : answers[c][i].until <= retryAt'
      BY <1>0, <2>2 DEF WaitsHeard
    <2>6. reply[c].until <= now' + reply[c].delay
      BY <1>0, <1>1, <2>1 DEF WaitsHeard
    <2> QED BY <2>3, <2>4, <2>5, <2>6
  <1>2. ASSUME NEW c \in Calls,
               \/ Begin(c) \/ InGate(c) \/ Interrupted(c) \/ Again(c) \/ StopWaiting(c)
               \/ End(c) \/ CallCancel(c)
        PROVE  PendingReply' /\ WaitsHeard'
    <2>1. UNCHANGED <<answers, reply>> /\ now' = now
      BY <1>2 DEF Begin, InGate, Interrupted, Again, StopWaiting, End, CallCancel, callVars,
                  Bind, ReadEpoch, Take, Park, Wake, Start, GiveUp, AbandonLease, Retry, Leave,
                  Completed, Collapse, Cancel
    <2>2. \A d \in Calls : pc'[d] = pc[d]
              \/ (pc[d] \notin {"held", "limited"} /\ pc'[d] # "limited")
      BY <1>0, <1>2 DEF Begin, InGate, Interrupted, Again, StopWaiting, End, CallCancel,
                  Bind, ReadEpoch, Take, Park, Wake, Start, GiveUp, AbandonLease, Retry, Leave,
                  Completed, Collapse, Cancel
    <2> QED BY <1>0, <1>1, <2>1, <2>2
  <1>3. ASSUME NEW c \in Calls, NEW kind \in AnswerKinds, NEW delay \in Cooldowns \cup {0},
               Answer(c, kind, delay)
        PROVE  PendingReply' /\ WaitsHeard'
    <2> DEFINE new == [kind |-> kind, delay |-> delay,
                       until |-> IF kind \in RateKinds THEN now + delay ELSE 0]
    <2>1. /\ UNCHANGED <<answers, pc, retryAt, now>>
          /\ pc[c] = "held"
          /\ kind \in RateKinds => delay \in Cooldowns
          /\ reply' = [reply EXCEPT ![c] = new]
          /\ DOMAIN reply = Calls
      BY <1>3 DEF Answer, vars, gate, CallTypeOK
    <2>2. reply'[c] = new /\ \A d \in Calls \ {c} : reply'[d] = reply[d]
      <3> HIDE DEF new
      <3> QED BY <2>1
    <2>3. /\ UNCHANGED <<answers, pc, retryAt, now>>
          /\ pc[c] = "held"
          /\ reply'[c].kind = kind /\ reply'[c].delay = delay
          /\ reply'[c].until = IF kind \in RateKinds THEN now + delay ELSE 0
          /\ kind \in RateKinds => delay \in Cooldowns
          /\ \A d \in Calls \ {c} : reply'[d] = reply[d]
      BY <2>1, <2>2
    <2>4. delay \in Nat
      BY GateAssumption
    <2>5. PendingReply'
      BY <2>3 DEF PendingReply
    <2>6. reply'[c].until <= now' + reply'[c].delay
      BY <1>0, <2>3, <2>4
    <2> QED BY <2>3, <2>5, <2>6 DEF WaitsHeard
  <1>4. ASSUME NEW c \in Calls, Report(c) PROVE PendingReply' /\ WaitsHeard'
    <2>1. /\ UNCHANGED <<answers, reply, now>>
          /\ pc' = [pc EXCEPT ![c] = "limited"]
          /\ pc[c] = "held" /\ reply[c].kind \in RateKinds
      BY <1>4 DEF Report, RateLimited
    <2>2. reply[c].delay \in Cooldowns /\ reply[c].until \in Nat
      BY <2>1, ReplyTyped DEF PendingReply
    <2>3. now + reply[c].delay <= retryAt'
      <3>1. reply[c].delay \in Nat \ {0}
        BY <2>2, GateAssumption
      <3>2. retryAt' = ExtendedRetryAt(reply[c].delay)
        BY <1>4 DEF Report, RateLimited, BackOff
      <3> QED BY <1>0, <3>1, <3>2 DEF ExtendedRetryAt, Max2
    <2>4. reply[c].until <= now + reply[c].delay
      BY DEF WaitsHeard
    <2>5. reply[c].until <= retryAt'
      BY <1>0, <2>2, <2>3, <2>4, ReplyTyped
    <2>6. PendingReply'
      BY <1>0, <2>1 DEF PendingReply
    <2>7. ASSUME NEW d \in Calls, NEW i \in DOMAIN answers[d]
          PROVE  answers[d][i].until <= retryAt'
      <3>1. answers[d][i].until \in Nat /\ answers[d][i].until <= retryAt
        BY AnswersTyped DEF WaitsHeard
      <3> QED BY <1>0, <3>1
    <2>8. ASSUME NEW d \in Calls, pc[d] = "limited" PROVE reply[d].until <= retryAt'
      <3>1. reply[d].until \in Nat /\ reply[d].until <= retryAt
        BY <2>8, ReplyTyped DEF WaitsHeard
      <3> QED BY <1>0, <3>1
    <2>9. \A d \in Calls : pc'[d] = "limited" => d = c \/ pc[d] = "limited"
      BY <1>0, <2>1
    <2> QED BY <2>1, <2>5, <2>6, <2>7, <2>8, <2>9 DEF WaitsHeard
  <1>5. ASSUME NEW c \in Calls, Settle(c) PROVE PendingReply' /\ WaitsHeard'
    <2> DEFINE sent == [kind |-> reply[c].kind, until |-> reply[c].until]
    <2>1. /\ retryAt' = retryAt /\ now' = now
          /\ pc' = [pc EXCEPT ![c] = IF pc[c] = "limited" THEN "overloaded" ELSE "answered"]
          /\ answers'[c] = Append(answers[c], sent)
          /\ \A d \in Calls \ {c} : answers'[d] = answers[d] /\ reply'[d] = reply[d]
          /\ reply'[c] = NoReply
          /\ sent.until <= retryAt
      BY <1>5, SettleEffect
    <2>2. PendingReply'
      BY <1>0, <2>1 DEF PendingReply, NoReply, RateKinds
    <2>3. \A i \in DOMAIN answers'[c] : answers'[c][i].until <= retryAt
      <3>1. answers[c] \in Seq([kind : Kinds, until : Nat])
        BY DEF CallTypeOK
      <3>2. /\ DOMAIN answers'[c] = 1..(Len(answers[c]) + 1)
            /\ DOMAIN answers[c] = 1..Len(answers[c]) /\ Len(answers[c]) \in Nat
            /\ answers'[c][Len(answers[c]) + 1] = sent
            /\ \A i \in DOMAIN answers[c] : answers'[c][i] = answers[c][i]
        BY <2>1, <3>1
      <3> QED BY <2>1, <3>2 DEF WaitsHeard
    <2>4. reply'[c].until <= now + reply'[c].delay /\ pc'[c] # "limited"
      BY <1>0, <2>1 DEF NoReply
    <2>5. \A d \in Calls \ {c} : pc'[d] = pc[d]
      BY <1>0, <2>1
    <2> QED BY <2>1, <2>2, <2>3, <2>4, <2>5 DEF WaitsHeard
  <1>6. CASE CallTick \/ AllEnded \/ UNCHANGED allVars
    <2>1. UNCHANGED <<answers, reply, pc>> /\ now' >= now
      BY <1>0, <1>6 DEF CallTick, Tick, AllEnded, allVars, vars, callVars
    <2> QED BY <1>1, <2>1
  <1> QED BY <1>2, <1>3, <1>4, <1>5, <1>6 DEF CallNext, Complete

LEMMA NextRunning ==
  TypeOK /\ CallInv /\ [CallNext]_allVars => Running'
  <1> SUFFICES ASSUME TypeOK, CallInv, [CallNext]_allVars PROVE Running'
    OBVIOUS
  <1> USE DEF CallInv, CallTypeOK, TypeOK, Running
  <1>1. ASSUME NEW c \in Calls, Begin(c) \/ InGate(c) \/ Again(c) PROVE Running'
    BY <1>1 DEF Begin, InGate, Again, callVars, Bind, ReadEpoch, Take, Park, Wake, Start, Retry
  <1>2. ASSUME NEW c \in Calls, Interrupted(c) \/ StopWaiting(c) PROVE Running'
    BY <1>2 DEF Interrupted, StopWaiting, GiveUp, AbandonLease, Leave
  <1>3. ASSUME NEW c \in Calls, NEW kind \in AnswerKinds, NEW delay \in Cooldowns \cup {0},
               Answer(c, kind, delay)
        PROVE  Running'
    BY <1>3 DEF Answer, vars
  <1>4. ASSUME NEW c \in Calls, Report(c) PROVE Running'
    BY <1>4 DEF Report, RateLimited
  <1>5. ASSUME NEW c \in Calls, Settle(c) PROVE Running'
    BY <1>5, SettleEffect
  <1>6. ASSUME NEW c \in Calls, End(c) \/ CallCancel(c) PROVE Running'
    BY <1>6 DEF End, CallCancel, callVars, Completed, Leave, Collapse, Cancel
  <1>7. CASE CallTick \/ AllEnded \/ UNCHANGED allVars
    BY <1>7 DEF CallTick, Tick, AllEnded, allVars, vars, callVars
  <1> QED BY <1>1, <1>2, <1>3, <1>4, <1>5, <1>6, <1>7 DEF CallNext, Complete

\* One more attempt of a running call: what it sends again it may send again.
LEMMA SettleSent ==
  ASSUME TypeOK, CallInv, NEW c \in Calls, Settle(c)
  PROVE  SentSoFar'
  <1> DEFINE sent == [kind |-> reply[c].kind, until |-> reply[c].until]
             n == Len(answers[c])
  <1> USE DEF CallInv, CallTypeOK
  <1>1. /\ outcome[c] = "none" /\ reply[c].kind \in Kinds
        /\ answers'[c] = Append(answers[c], sent)
        /\ \A d \in Calls \ {c} : answers'[d] = answers[d] /\ outcome'[d] = outcome[d]
        /\ outcome'[c] = Judged(c, reply[c].kind, n + 1)
        /\ retried' = IF reply[c].kind = "noAnswer" THEN retried \cup {c} ELSE retried
    BY SettleEffect
  <1>2. n \in Nat /\ n < MaxAttempts /\ MaxAttempts \in Nat
    BY <1>1, CallAssumption DEF SentSoFar
  <1>3. outcome'[c] = "none" =>
          /\ n + 1 < MaxAttempts
          /\ Resendable(c, reply[c].kind)
          /\ reply[c].kind = "noAnswer" => c \notin retried
    BY <1>1, <1>2 DEF Judged, Final, Resendable, Resent, Kinds, RateKinds
  <1>4. /\ Len(answers'[c]) = n + 1
        /\ DOMAIN answers'[c] = 1..(n + 1)
        /\ answers'[c][n + 1].kind = reply[c].kind
        /\ \A i \in 1..n : answers'[c][i] = answers[c][i]
        /\ DOMAIN answers[c] = 1..n
    BY <1>1, <1>2
  <1>5. \A i \in 1..n : Resendable(c, answers[c][i].kind)
    BY <1>1, <1>4 DEF SentSoFar
  <1>6. \A i, j \in 1..n : answers[c][i].kind = "noAnswer" /\ answers[c][j].kind = "noAnswer"
                              => i = j
    BY <1>1, <1>4 DEF SentSoFar
  <1>7. \A i \in 1..n : answers[c][i].kind = "noAnswer" => c \in retried
    BY <1>4 DEF SentSoFar
  <1> HIDE DEF n, sent
  <1>8. \A i \in DOMAIN answers'[c] :
            outcome'[c] = "none" \/ i < Len(answers'[c]) => Resendable(c, answers'[c][i].kind)
    BY <1>2, <1>3, <1>4, <1>5
  <1>9. \A i, j \in DOMAIN answers'[c] :
            /\ outcome'[c] = "none" \/ (i < Len(answers'[c]) /\ j < Len(answers'[c]))
            /\ answers'[c][i].kind = "noAnswer" /\ answers'[c][j].kind = "noAnswer"
            => i = j
    BY <1>2, <1>3, <1>4, <1>6, <1>7
  <1>10. \A i \in DOMAIN answers'[c] : answers'[c][i].kind = "noAnswer" => c \in retried'
    BY <1>1, <1>2, <1>4, <1>7
  <1>11. /\ Len(answers'[c]) <= MaxAttempts
         /\ outcome'[c] = "none" => Len(answers'[c]) < MaxAttempts
    BY <1>2, <1>3, <1>4
  <1>12. \A d \in Calls : d \in retried => d \in retried'
    BY <1>1
  <1> QED
    BY <1>1, <1>8, <1>9, <1>10, <1>11, <1>12 DEF SentSoFar, Resendable

LEMMA NextSentSoFar ==
  TypeOK /\ CallInv /\ [CallNext]_allVars => SentSoFar'
  <1> SUFFICES ASSUME TypeOK, CallInv, [CallNext]_allVars PROVE SentSoFar'
    OBVIOUS
  <1>1. ASSUME UNCHANGED <<answers, retried, outcome>> PROVE SentSoFar'
    BY <1>1 DEF CallInv, SentSoFar, Resendable
  <1>2. ASSUME NEW c \in Calls,
               Begin(c) \/ InGate(c) \/ Again(c) \/ End(c) \/ CallCancel(c) \/ Report(c)
        PROVE  SentSoFar'
    BY <1>1, <1>2 DEF Begin, InGate, Again, End, CallCancel, Report, callVars
  <1>3. ASSUME NEW c \in Calls, NEW kind \in AnswerKinds, NEW delay \in Cooldowns \cup {0},
               Answer(c, kind, delay)
        PROVE  SentSoFar'
    BY <1>1, <1>3 DEF Answer
  <1>4. ASSUME NEW c \in Calls, Interrupted(c) \/ StopWaiting(c) PROVE SentSoFar'
    <2>1. /\ UNCHANGED <<answers, retried>>
          /\ outcome' = [outcome EXCEPT ![c] = "canceled"]
      BY <1>4 DEF Interrupted, StopWaiting
    <2>2. \A d \in Calls : outcome'[d] = "none" => outcome[d] = "none"
      BY <2>1 DEF CallInv, CallTypeOK
    <2> QED BY <2>1, <2>2 DEF CallInv, SentSoFar, Resendable
  <1>5. ASSUME NEW c \in Calls, Settle(c) PROVE SentSoFar'
    BY <1>5, SettleSent
  <1>6. CASE CallTick \/ AllEnded \/ UNCHANGED allVars
    BY <1>1, <1>6 DEF CallTick, AllEnded, allVars, callVars
  <1> QED BY <1>2, <1>3, <1>4, <1>5, <1>6 DEF CallNext, Complete

-----------------------------------------------------------------------------
\* The call's own invariant, on top of the gate's types.
THEOREM CallInvariance == CallSpec => [](TypeOK /\ CallInv)
  <1>1. CallInit => TypeOK /\ CallInv
    BY InitCallInv, InitIInv DEF CallInit, IInv
  <1>2. TypeOK /\ CallInv /\ [CallNext]_allVars => TypeOK' /\ CallInv'
    BY CallStepIsGateStep, NextTypeOK, NextCallTypeOK, NextPendingAndWaits, NextRunning,
       NextSentSoFar
    DEF CallInv
  <1> QED BY <1>1, <1>2, PTL DEF CallSpec

\* Complete, executeLive and the pool worker implement the gate's clients.
THEOREM CallsUseTheGate == CallSpec => Spec
  <1>1. CallInit => Init BY DEF CallInit
  <1>2. TypeOK /\ CallInv /\ [CallNext]_allVars => [Next]_vars
    BY CallStepIsGateStep DEF CallInv
  <1> QED BY <1>1, <1>2, CallInvariance, PTL DEF CallSpec, Spec

\* No way a call ends loses or repeats a lease.
THEOREM CallLeaseSafety == CallSpec => []LeasesCounted
  BY CallsUseTheGate, LeaseSafety, PTL

\* No attempt of any call starts before the cooldown of every 429 that has given
\* its lease back, whichever call it came to.
THEOREM CallCooldownSafety == CallSpec => NoStartInsideCooldown
  <1>1. TypeOK /\ CallInv /\ [CallNext]_allVars =>
          [\A c, d \in Calls : pc[c] = "trying" /\ pc'[c] = "taken" =>
              \A i \in DOMAIN answers[d] : now >= answers[d][i].until]_allVars
    <2> SUFFICES ASSUME TypeOK, CallInv, [CallNext]_allVars,
                        NEW c \in Calls, NEW d \in Calls,
                        pc[c] = "trying", pc'[c] = "taken", NEW i \in DOMAIN answers[d]
                 PROVE  now >= answers[d][i].until
      OBVIOUS
    <2>1. PICK e \in Calls : Take(e)
      BY CallStepIsGateStep, OnlyTakeStarts DEF CallInv
    <2>2. now >= retryAt
      BY <2>1 DEF Take, Due, Max2, TypeOK
    <2>3. answers[d][i].until \in Nat /\ answers[d][i].until <= retryAt
      BY AnswersTyped DEF CallInv, WaitsHeard
    <2> QED BY <2>2, <2>3 DEF TypeOK
  <1> QED BY <1>1, CallInvariance, PTL DEF CallSpec, NoStartInsideCooldown

\* Complete sends a request again only after what may be sent again, and never
\* more than MaxAttempts times.
THEOREM RetrySafety == CallSpec => []RetryDiscipline
  <1>1. CallInv => RetryDiscipline
    <2> SUFFICES ASSUME CallInv, NEW c \in Calls
                 PROVE  LET sent == answers[c] IN
                          /\ Len(sent) <= MaxAttempts
                          /\ \A i \in DOMAIN sent : i < Len(sent) =>
                                /\ sent[i].kind \in Resent
                                /\ sent[i].kind = "http500" => c \notin SplitHTTP500
                          /\ Cardinality({i \in DOMAIN sent :
                                             i < Len(sent) /\ sent[i].kind = "noAnswer"}) <= 1
      BY DEF RetryDiscipline
    <2> USE DEF CallInv, SentSoFar
    <2> DEFINE empties == {i \in DOMAIN answers[c] :
                              i < Len(answers[c]) /\ answers[c][i].kind = "noAnswer"}
    <2>1. Cardinality(empties) <= 1
      <3>1. CASE empties = {}
        <4>1. Cardinality(empties) = 0
          <5> HIDE DEF empties
          <5> QED BY <3>1, FS_EmptySet
        <4> QED BY <4>1
      <3>2. CASE empties # {}
        <4>1. PICK i \in empties : TRUE
          BY <3>2
        <4>2. empties = {i}
          <5>1. \A j \in empties : j = i
            BY <4>1 DEF SentSoFar
          <5> QED BY <4>1, <5>1
        <4>3. Cardinality({i}) = 1
          BY FS_Singleton
        <4>4. Cardinality(empties) = 1
          <5> HIDE DEF empties
          <5> QED BY <4>2, <4>3
        <4> QED BY <4>4
      <3> QED BY <3>1, <3>2
    <2> QED BY <2>1 DEF Resendable
  <1> QED BY <1>1, CallInvariance, PTL
=============================================================================
