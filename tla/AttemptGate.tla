---------------------------- MODULE AttemptGate ----------------------------
(***************************************************************************)
(* The adaptive gate of internal/llm/attempt_gate.go: one semaphore through *)
(* which every call to one provider takes a lease for each HTTP attempt.    *)
(* A rate limit (HTTP 429) collapses it to one lease and postpones every    *)
(* new attempt; four successful calls of the current cooldown epoch double  *)
(* it again, up to its configured size.  A paced gate also spaces the       *)
(* starts of attempts.                                                      *)
(*                                                                          *)
(* Each section the code runs under gate.mu is one action.  Between two of  *)
(* them any other goroutine may run.  The Go channel "changed" is the set   *)
(* of the calls parked on its current generation: closing it empties the    *)
(* set, and a parked call outside the set has been woken.                   *)
(***************************************************************************)
EXTENDS Naturals, FiniteSets

CONSTANTS Calls,            \* the goroutines that call the provider
          ControllerLimit,  \* NewBatchController's limit; 0 for a zero-value controller
          Concurrency,      \* the BatchConcurrency each call's executor asks for
          Intervals,        \* least times between two starts the gate may be paced to
          Cooldowns,        \* the waits a 429 may ask for
          MaxTime,          \* bound on the clock
          MaxEpoch          \* bound on the number of backoffs

ASSUME GateAssumption ==
    /\ IsFiniteSet(Calls)
    /\ ControllerLimit \in Nat
    /\ Concurrency \in [Calls -> Nat]
    /\ Intervals \subseteq Nat
    /\ Cooldowns \subseteq Nat \ {0}
    /\ MaxTime \in Nat
    /\ MaxEpoch \in Nat

VARIABLES
    configured,  \* attemptGate.configured; 0 while the controller has bound no gate
    limit,       \* leases the gate admits now
    active,      \* leases out
    changed,     \* calls parked on the channel's current generation
    retryAt,     \* no attempt starts before this time
    interval,    \* least time between two starts, 0 when unpaced
    nextStart,   \* earliest time of the next paced start
    epoch,       \* backoffs so far
    successes,   \* completions of this epoch since the limit last changed
    now,         \* the clock
    pc,          \* where each call stands
    wake,        \* when a parked call's timer fires, 0 when it set none
    seen,        \* the recovery epoch a call read before its first attempt
    canceled,    \* the calls whose context has ended
    fresh,       \* history: the calls that began since the last backoff
    earned,      \* history: fresh calls completed since the limit last changed, up to four
    lastStart,   \* history: when the last lease was taken; NoStart at first
    promised     \* history: the times before which some 429 asked for no attempt

gate == <<configured, limit, active, changed, retryAt, interval, nextStart,
          epoch, successes>>
history == <<fresh, earned, lastStart, promised>>
vars == <<gate, now, pc, wake, seen, canceled, history>>

Max2(a, b) == IF a >= b THEN a ELSE b
Min2(a, b) == IF a <= b THEN a ELSE b

NoStart == MaxTime + 1        \* lastStart before any lease was taken
RecoverySuccesses == 4

\* The calls that hold a lease: counted in active, not yet given back.
Leased == {c \in Calls : pc[c] \in {"taken", "held", "limited"}}

Init ==
    /\ configured = 0
    /\ limit = 0
    /\ active = 0
    /\ changed = {}
    /\ retryAt = 0
    /\ interval \in Intervals
    /\ nextStart = 0
    /\ epoch = 0
    /\ successes = 0
    /\ now = 0
    /\ pc = [c \in Calls |-> "out"]
    /\ wake = [c \in Calls |-> 0]
    /\ seen = [c \in Calls |-> 0]
    /\ canceled = {}
    /\ fresh = {}
    /\ earned = 0
    /\ lastStart = NoStart
    /\ promised = {}

-----------------------------------------------------------------------------
(* A call binds the controller's gate: the first one makes it, with the     *)
(* controller's own limit when it has one and the batch's otherwise.        *)
Bind(c) ==
    /\ pc[c] = "out"
    /\ c \notin canceled
    /\ pc' = [pc EXCEPT ![c] = "bound"]
    /\ IF configured = 0
       THEN /\ configured' = IF ControllerLimit > 0 THEN ControllerLimit
                                                    ELSE Max2(1, Concurrency[c])
            /\ limit' = configured'
       ELSE UNCHANGED <<configured, limit>>
    /\ UNCHANGED <<active, changed, retryAt, interval, nextStart, epoch,
                   successes, now, wake, seen, canceled, history>>

\* executeLive reads the epoch its success will count for, then enters Complete.
ReadEpoch(c) ==
    /\ pc[c] = "bound"
    /\ pc' = [pc EXCEPT ![c] = "trying"]
    /\ seen' = [seen EXCEPT ![c] = epoch]
    /\ fresh' = fresh \cup {c}
    /\ UNCHANGED <<gate, now, wake, canceled, earned, lastStart, promised>>

\* acquire finds its context ended, at the head of its loop or in its select.
GiveUp(c) ==
    /\ pc[c] \in {"trying", "waiting"}
    /\ c \in canceled
    /\ pc' = [pc EXCEPT ![c] = "out"]
    /\ wake' = [wake EXCEPT ![c] = 0]
    /\ changed' = changed \ {c}
    /\ UNCHANGED <<configured, limit, active, retryAt, interval, nextStart,
                   epoch, successes, now, seen, canceled, history>>

Due == Max2(retryAt, nextStart)     \* when a new attempt may start

\* Mutant: one lease too many.
RoomForOneMore == active <= limit

Room == active < limit              \* when a lease is free

\* Mutant: the next start is counted from the last one due, not from now.
FollowingFromDue == IF interval > 0 THEN nextStart + interval ELSE nextStart

\* The earliest start after one that happens now.
FollowingStart == IF interval > 0 THEN now + interval ELSE nextStart

\* acquire, under the lock: room and no wait left, so the lease is counted.
Take(c) ==
    /\ pc[c] = "trying"
    /\ c \notin canceled
    /\ Room
    /\ now >= Due
    /\ active' = active + 1
    /\ nextStart' = FollowingStart
    /\ pc' = [pc EXCEPT ![c] = "taken"]
    /\ lastStart' = now
    /\ UNCHANGED <<configured, limit, changed, retryAt, interval, epoch,
                   successes, now, wake, seen, canceled, fresh, earned, promised>>

\* When the timer set now fires; none when only room is missing.
Timer == IF now < Due THEN Due ELSE 0

\* acquire, under the lock: no room or too early.  The call keeps the channel
\* it saw and sets a timer only when there is time to wait for.
Park(c) ==
    /\ pc[c] = "trying"
    /\ c \notin canceled
    /\ ~Room \/ now < Due
    /\ pc' = [pc EXCEPT ![c] = "waiting"]
    /\ changed' = changed \cup {c}
    /\ wake' = [wake EXCEPT ![c] = Timer]
    /\ UNCHANGED <<configured, limit, active, retryAt, interval, nextStart,
                   epoch, successes, now, seen, canceled, history>>

\* The select returns: the channel was closed, or the timer fired.
Wake(c) ==
    /\ pc[c] = "waiting"
    /\ c \notin changed \/ (wake[c] > 0 /\ now >= wake[c])
    /\ pc' = [pc EXCEPT ![c] = "trying"]
    /\ wake' = [wake EXCEPT ![c] = 0]
    /\ changed' = changed \ {c}
    /\ UNCHANGED <<configured, limit, active, retryAt, interval, nextStart,
                   epoch, successes, now, seen, canceled, history>>

\* The lease is handed to the call, whose context is still alive.
Start(c) ==
    /\ pc[c] = "taken"
    /\ c \notin canceled
    /\ pc' = [pc EXCEPT ![c] = "held"]
    /\ UNCHANGED <<gate, now, wake, seen, canceled, history>>

\* Mutant: release wakes nobody.
SilentRelease ==
    /\ active' = IF active > 0 THEN active - 1 ELSE 0
    /\ UNCHANGED changed

\* release: one lease back, and every parked call looks again.
ReleaseLease ==
    /\ active' = IF active > 0 THEN active - 1 ELSE 0
    /\ changed' = {}

\* Mutant: acquire returns the error and keeps the lease.
LeakedLease(c) ==
    /\ pc[c] = "taken"
    /\ c \in canceled
    /\ pc' = [pc EXCEPT ![c] = "out"]
    /\ UNCHANGED <<gate, now, wake, seen, canceled, history>>

\* The context ended between the lock and the hand-over: acquire releases.
AbandonLease(c) ==
    /\ pc[c] = "taken"
    /\ c \in canceled
    /\ ReleaseLease
    /\ pc' = [pc EXCEPT ![c] = "out"]
    /\ UNCHANGED <<configured, limit, retryAt, interval, nextStart, epoch,
                   successes, now, wake, seen, canceled, history>>
-----------------------------------------------------------------------------
\* Mutant: the last 429 decides, also when it asks for less.
LastRetryAt(delay) == IF delay > 0 THEN now + delay ELSE retryAt

\* A wait may be extended and is never shortened.
ExtendedRetryAt(delay) == IF delay > 0 THEN Max2(retryAt, now + delay) ELSE retryAt

\* backoff(delay), delay 0 for collapse: a new epoch, one lease and perhaps
\* a longer wait; parked calls look again only when something changed.
BackOff(delay) ==
    /\ epoch < MaxEpoch
    /\ epoch' = epoch + 1
    /\ successes' = 0
    /\ limit' = Min2(limit, 1)
    /\ retryAt' = ExtendedRetryAt(delay)
    /\ changed' = IF limit' # limit \/ retryAt' # retryAt THEN {} ELSE changed
    /\ fresh' = {}
    /\ earned' = 0
    /\ promised' = IF delay > 0 THEN promised \cup {now + delay} ELSE promised

\* A 429 reached the call that holds a lease: it backs the gate off before it
\* releases.  The clock stays long enough for the wait to end.
RateLimited(c, delay) ==
    /\ pc[c] = "held"
    /\ now + delay <= MaxTime
    /\ BackOff(delay)
    /\ pc' = [pc EXCEPT ![c] = "limited"]
    /\ UNCHANGED <<configured, active, interval, nextStart, now, wake, seen,
                   canceled, lastStart>>

\* The attempt is over; its lease goes back exactly once.
Release(c) ==
    /\ pc[c] \in {"held", "limited"}
    /\ ReleaseLease
    /\ pc' = [pc EXCEPT ![c] = IF pc[c] = "limited" THEN "overloaded" ELSE "answered"]
    /\ UNCHANGED <<configured, limit, retryAt, interval, nextStart, epoch,
                   successes, now, wake, seen, canceled, history>>

\* Complete sends the same request again.
Retry(c) ==
    /\ pc[c] \in {"answered", "overloaded"}
    /\ pc' = [pc EXCEPT ![c] = "trying"]
    /\ UNCHANGED <<gate, now, wake, seen, canceled, history>>

\* The call ends without a word to the gate: a failure other than a 429, a
\* context that ended before the retry, or a 429 whose caller is no pool worker.
Leave(c) ==
    /\ pc[c] \in {"answered", "overloaded", "reported"}
    /\ pc' = [pc EXCEPT ![c] = "out"]
    /\ UNCHANGED <<gate, now, wake, seen, canceled, history>>

\* The call failed with a 429: executeLive collapses the gate again, and so
\* does the pool worker that ran it.
Collapse(c) ==
    /\ pc[c] \in {"overloaded", "reported"}
    /\ BackOff(0)
    /\ pc' = [pc EXCEPT ![c] = IF pc[c] = "overloaded" THEN "reported" ELSE "out"]
    /\ UNCHANGED <<configured, active, interval, nextStart, now, wake, seen,
                   canceled, lastStart>>

\* Mutant: a success counts whenever its call began.
CountsOfAnyEpoch(c) == limit < configured /\ now >= retryAt

\* completed(epoch) counts a success: of this epoch, while the gate is below
\* its configured size, and not while new attempts are still postponed.
Counts(c) == seen[c] = epoch /\ limit < configured /\ now >= retryAt

\* Mutant: the gate reopens at once.
ReopenedAtOnce == configured

Doubled == Min2(configured, 2 * limit)

\* The fourth counted success doubles the gate and wakes the parked calls.
Recover(c) ==
    IF Counts(c)
    THEN IF successes + 1 = RecoverySuccesses
         THEN /\ successes' = 0
              /\ limit' = Doubled
              /\ changed' = {}
         ELSE /\ successes' = successes + 1
              /\ UNCHANGED <<limit, changed>>
    ELSE UNCHANGED <<successes, limit, changed>>

\* A call's completion passed its envelope checks.
Completed(c) ==
    /\ pc[c] = "answered"
    /\ Recover(c)
    /\ pc' = [pc EXCEPT ![c] = "out"]
    /\ earned' = IF limit' > limit THEN 0
                 ELSE IF c \in fresh THEN Min2(earned + 1, RecoverySuccesses) ELSE earned
    /\ UNCHANGED <<configured, active, retryAt, interval, nextStart, epoch,
                   now, wake, seen, canceled, fresh, lastStart, promised>>

-----------------------------------------------------------------------------
\* The context of a call ends: its run is interrupted or stopped.
Cancel(c) ==
    /\ c \notin canceled
    /\ canceled' = canceled \cup {c}
    /\ UNCHANGED <<gate, now, pc, wake, seen, history>>

Tick ==
    /\ now < MaxTime
    /\ now' = now + 1
    /\ UNCHANGED <<gate, pc, wake, seen, canceled, history>>

\* Every call was cancelled and has returned, and the clock is at its bound.
Finished ==
    /\ \A c \in Calls : c \in canceled /\ pc[c] = "out"
    /\ now = MaxTime
    /\ UNCHANGED vars

CallStep(c) ==
    \/ Bind(c) \/ ReadEpoch(c) \/ GiveUp(c)
    \/ Take(c) \/ Park(c) \/ Wake(c) \/ Start(c) \/ AbandonLease(c)
    \/ \E delay \in Cooldowns : RateLimited(c, delay)
    \/ Release(c) \/ Retry(c) \/ Leave(c) \/ Collapse(c) \/ Completed(c)

Next ==
    \/ \E c \in Calls : CallStep(c) \/ Cancel(c)
    \/ Tick
    \/ Finished

Spec == Init /\ [][Next]_vars

-----------------------------------------------------------------------------
\* Types of the variables.
TypeOK ==
    /\ configured \in Nat /\ limit \in Nat /\ active \in Nat
    /\ changed \subseteq Calls
    /\ retryAt \in Nat /\ interval \in Nat /\ nextStart \in Nat
    /\ epoch \in Nat /\ successes \in 0..(RecoverySuccesses - 1)
    /\ now \in Nat
    /\ pc \in [Calls -> {"out", "bound", "trying", "waiting", "taken", "held",
                         "limited", "answered", "overloaded", "reported"}]
    /\ wake \in [Calls -> Nat]
    /\ seen \in [Calls -> Nat]
    /\ canceled \subseteq Calls
    /\ fresh \subseteq Calls
    /\ earned \in 0..RecoverySuccesses
    /\ lastStart \in Nat
    /\ promised \subseteq Nat

\* The gate's count of active attempts is the number of calls that hold a
\* lease: no path of acquire, cancellation or release loses or repeats one, and
\* release never meets a zero count.  (acquire, release, the once of acquire)
LeasesCounted == active = Cardinality(Leased)

\* However 429s, releases and recoveries interleave, no more attempts are in
\* the air than the gate was configured for.  (acquire, backoff, completed)
WithinConfigured == Cardinality(Leased) <= configured

\* A call that waits on the channel without a timer and was not woken waits for
\* room only, and somebody holds the lease whose release will wake it.
\* (acquire, release, signalLocked)
NoLostWakeup ==
    \A c \in changed : wake[c] = 0 => active >= limit /\ active > 0

\* A call's timer never fires later than the gate's own wait: a lease it could
\* take is never slept through.  (acquire, backoff)
NoOversleep ==
    \A c \in Calls : wake[c] <= Due

\* Every success counted toward recovery is of a call that began after the
\* last backoff: answers of requests that were in the air when the 429 came
\* never reopen the gate.  (recoveryEpoch, completed)
RecoveryEarned == successes <= earned

\* The gate reopens by doubling at most, only after the cooldown, and only when
\* four calls that began since the last backoff have completed.
ReopensAfterCooldown ==
    [][limit' > limit /\ configured > 0 =>
          /\ now >= retryAt
          /\ earned + 1 >= RecoverySuccesses
          /\ limit' <= 2 * limit /\ limit' <= configured]_vars

\* Two attempts through a paced gate never start closer than its interval, two at
\* one instant included, also after an idle time or across a cooldown.
\* (acquire's nextStart)
StartsSpaced ==
    [][\A c \in Calls : pc[c] = "trying" /\ pc'[c] = "taken" /\ lastStart # NoStart
          => now >= lastStart + interval]_vars

\* No attempt starts before the wait of any 429 has passed, the ones that asked
\* for less or more later included; and while the gate is at one lease, so from the
\* 429 to the fourth success after it, it starts only when none is in the air.
\* (backoff's retryAt and limit, acquire)
BackoffHonoured ==
    [][\A c \in Calls : pc[c] = "trying" /\ pc'[c] = "taken"
          => /\ \A t \in promised : now >= t
             /\ limit = 1 => Leased = {}]_vars
-----------------------------------------------------------------------------
(* The parts of the inductive invariant behind the properties above.        *)

\* Before a gate is bound nobody uses it; a bound gate admits at least one
\* lease and at most its configured number.
GateShape ==
    /\ limit <= configured
    /\ configured = 0 => \A c \in Calls : pc[c] = "out"
    /\ configured > 0 => limit > 0

\* Only waiting calls are parked, and time stays within its bound.
ParkedWait ==
    /\ \A c \in changed : pc[c] = "waiting"
    /\ now <= MaxTime

\* A call that has read an epoch read one no later than the gate's, and began
\* since the last backoff when they are equal.
EpochsRead ==
    \A c \in Calls : pc[c] \notin {"out", "bound"} =>
        /\ seen[c] <= epoch
        /\ seen[c] = epoch => c \in fresh

\* The gate's own waits cover what the history promises.
WaitsCover ==
    /\ \A t \in promised : t <= retryAt
    /\ lastStart # NoStart => lastStart <= now
    /\ lastStart # NoStart /\ interval > 0 => lastStart + interval <= nextStart

\* The inductive invariant: every part is kept by every step.
IInv ==
    /\ TypeOK
    /\ LeasesCounted
    /\ WithinConfigured
    /\ NoLostWakeup
    /\ NoOversleep
    /\ RecoveryEarned
    /\ GateShape
    /\ ParkedWait
    /\ EpochsRead
    /\ WaitsCover
=============================================================================
