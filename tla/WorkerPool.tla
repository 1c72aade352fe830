------------------------------ MODULE WorkerPool ------------------------------
(***************************************************************************)
(* llm.ExecuteJSONEach of internal/llm/each.go: batches of calls that run     *)
(* side by side, each through a pool of its own workers, all through one      *)
(* attempt gate and under the run's context.  A feeder hands the calls over   *)
(* in order; a provider that refuses the credentials or the balance stops the *)
(* run from the call that was told so (Executor.AccessRefused); when the last *)
(* worker has ended, the calls' buffered events are replayed to the stage's   *)
(* observer in the caller's order.                                           *)
(*                                                                           *)
(* The gate is a size and the calls in the air: AttemptGate has the rest.  One *)
(* attempt stands for all attempts of a call, as ProviderCall has them.       *)
(***************************************************************************)
EXTENDS SemanticJournal

CONSTANTS Calls,       \* calls in each batch
          Concurrency, \* Executor.BatchConcurrency
          Answers      \* what the provider may answer, of AllAnswers

AllAnswers == {"accepted", "refused", "overloaded", "denied"}
\* "denied" is an HTTP 401, 402 or 403.  Without asking a call may be "cached" or
\* "unprepared"; "stopped" it is before it is prepared, "interrupted" after.
Results == AllAnswers \cup {"cached", "unprepared", "stopped", "interrupted"}
Silent == {"stopped"}        \* no event
Unrecorded == {"unprepared"} \* an event that is no exchange

Batches == Stages
Call == UNION {{b} \X (1..Calls[b]) : b \in Batches}

ASSUME PoolAssumption ==
    /\ Calls \in [Batches -> Nat \ {0}] /\ Concurrency \in Nat \ {0}
    /\ Answers \subseteq AllAnswers

VARIABLES
    phase,    \* of each batch: "new", "feeding", "replaying" or "returned"
    workers,  \* the size of each pool
    at,       \* where each call is
    reply,    \* what the provider answered
    results,  \* the batches' results, "none" where there is none yet
    told,     \* the calls each batch replayed
    limit,    \* the gate's size, 0 before the first batch binds it
    stopped,  \* the run's context has ended
    cause,    \* the denied call it ended for, none when the user ended it
    claimed,  \* runOutput.stopped: the calls whose refusal took the stop for itself
    flushed   \* whether the first layer's journal was flushed, and when

pool == <<phase, workers, at, reply, results, told>>
run == <<stopped, cause, claimed>>
log == <<journal, flushed>>
vars == <<pool, limit, run, log>>

Init ==
    /\ phase = [b \in Batches |-> "new"]
    /\ workers = [b \in Batches |-> 0]
    /\ at = [c \in Call |-> "unfed"]
    /\ reply = [c \in Call |-> "none"]
    /\ results = [b \in Batches |-> [i \in 1..Calls[b] |-> "none"]]
    /\ told = [b \in Batches |-> <<>>]
    /\ limit = 0
    /\ stopped = FALSE /\ cause = {} /\ claimed = {}
    /\ flushed = "no"
    /\ JournalInit

Goto(c, place) == at' = [at EXCEPT ![c] = place]

\* A worker puts the outcome into its call's own slot and is free again.
Store(c, result) ==
    /\ results' = [results EXCEPT ![c[1]][c[2]] = result]
    /\ Goto(c, "done")

InAir == {c \in Call : at[c] = "held"}
Busy(b) == {c \in Call : c[1] = b /\ at[c] \in {"taken", "queued", "held", "answered", "claiming"}}

\* Mutant: as many workers as there are leases left.
SpareWorkers(size, calls) == Min({Concurrency, size - Cardinality(InAir), calls})

PoolSize(size, calls) == Min({Concurrency, size, calls})

\* The first batch gives the gate its size; a pool is no larger than the gate is now.
Begin(b) ==
    /\ phase[b] = "new"
    /\ limit' = IF limit = 0 THEN Concurrency ELSE limit
    /\ workers' = [workers EXCEPT ![b] = PoolSize(limit', Calls[b])]
    /\ phase' = [phase EXCEPT ![b] = "feeding"]
    /\ UNCHANGED <<at, reply, results, told, run, log>>

-----------------------------------------------------------------------------
(* The feeder.  It looks at the context, then waits for a worker.            *)

\* The feeder stands at c: the calls before it are in a worker's hands.
Feeding(c) ==
    /\ phase[c[1]] = "feeding"
    /\ \A i \in 1..c[2]-1 : at[<<c[1], i>>] \notin {"unfed", "offered"}

\* Mutant: a call the ended context cut off is passed over.
PassOver(c) ==
    /\ Feeding(c) /\ at[c] = "unfed"
    /\ stopped
    /\ Goto(c, "done")
    /\ UNCHANGED <<phase, workers, reply, results, told, limit, run, log>>

\* The context has ended: the call is never asked and says so.
Skip(c) ==
    /\ Feeding(c) /\ at[c] = "unfed"
    /\ stopped
    /\ Store(c, "stopped")
    /\ UNCHANGED <<phase, workers, reply, told, limit, run, log>>

Offer(c) ==
    /\ Feeding(c) /\ at[c] = "unfed"
    /\ ~stopped
    /\ Goto(c, "offered")
    /\ UNCHANGED <<phase, workers, reply, results, told, limit, run, log>>

Accept(c) ==
    /\ at[c] = "offered"
    /\ Cardinality(Busy(c[1])) < workers[c[1]]
    /\ Goto(c, "taken")
    /\ UNCHANGED <<phase, workers, reply, results, told, limit, run, log>>

-----------------------------------------------------------------------------
(* A worker's call: ExecuteJSON.                                             *)

\* The ended context is seen before anything is prepared; a call that cannot be
\* prepared, or is answered from the cache, asks nobody.
Prepare(c) ==
    /\ at[c] = "taken"
    /\ \/ stopped /\ Store(c, "stopped")
       \/ ~stopped /\ \E r \in {"unprepared", "cached"} : Store(c, r)
       \/ ~stopped /\ Goto(c, "queued") /\ UNCHANGED results
    /\ UNCHANGED <<phase, workers, reply, told, limit, run, log>>

\* The gate lets a call whose context has ended go without a lease.
GiveUp(c) ==
    /\ at[c] = "queued"
    /\ stopped
    /\ Store(c, "interrupted")
    /\ UNCHANGED <<phase, workers, reply, told, limit, run, log>>

Start(c) ==
    /\ at[c] = "queued"
    /\ ~stopped
    /\ Cardinality(InAir) < limit
    /\ Goto(c, "held")
    /\ UNCHANGED <<phase, workers, reply, results, told, limit, run, log>>

\* The provider answers, or the ended context cuts the exchange off.  The lease
\* goes back here; a 429 has backed the gate off before.
Answer(c, a) ==
    /\ at[c] = "held"
    /\ a = "interrupted" => stopped
    /\ reply' = [reply EXCEPT ![c] = a]
    /\ limit' = IF a = "overloaded" THEN 1 ELSE limit
    /\ Goto(c, "answered")
    /\ UNCHANGED <<phase, workers, results, told, run, log>>

\* executeLive told of the answer: an accepted one may let the gate recover, a 429
\* collapses it again.
Finish(c) ==
    /\ at[c] = "answered" /\ reply[c] # "denied"
    /\ Store(c, reply[c])
    /\ \/ limit' = IF reply[c] = "overloaded" THEN 1 ELSE limit
       \/ reply[c] = "accepted" /\ limit' = Min({2 * limit, Concurrency})
    /\ UNCHANGED <<phase, workers, reply, told, run, log>>

\* Mutant: every refusal announces itself.
ClaimedAgain(c) == TRUE

\* The first refusal of the run stops it; later ones change nothing.
FirstClaim(c) == claimed = {}

\* abortRun, under the output's lock: who is the first to be refused?
Denied(c) ==
    /\ at[c] = "answered" /\ reply[c] = "denied"
    /\ IF FirstClaim(c)
       THEN claimed' = claimed \cup {c} /\ Goto(c, "claiming") /\ UNCHANGED results
       ELSE Store(c, "denied") /\ UNCHANGED claimed
    /\ UNCHANGED <<phase, workers, reply, told, limit, stopped, cause, log>>

\* The context of the run keeps the cause it ended for first.
End(why) ==
    /\ stopped' = TRUE
    /\ cause' = IF stopped THEN cause ELSE why

\* abortRun, after the lock.
Abort(c) ==
    /\ at[c] = "claiming"
    /\ End({c})
    /\ Store(c, "denied")
    /\ UNCHANGED <<phase, workers, reply, told, limit, claimed, log>>

Interrupt ==
    /\ ~stopped
    /\ End({})
    /\ UNCHANGED <<pool, limit, claimed, log>>

-----------------------------------------------------------------------------
(* The replay, when every worker has ended.                                  *)

Ended(b) == \A i \in 1..Calls[b] : at[<<b, i>>] = "done"

Close(b) ==
    /\ phase[b] = "feeding"
    /\ Ended(b)
    /\ phase' = [phase EXCEPT ![b] = "replaying"]
    /\ UNCHANGED <<workers, at, reply, results, told, limit, run, log>>

\* The calls with an event that was not replayed yet.
Untold(b) ==
    {i \in 1..Calls[b] : /\ results[b][i] \notin Silent \cup {"none"}
                         /\ \A n \in DOMAIN told[b] : told[b][n] # i}

\* Mutant: the events come as their calls happened to end.
AnyUntold(b) == Untold(b)

NextUntold(b) == {i \in Untold(b) : \A j \in Untold(b) : i <= j}

Replay(b) ==
    /\ phase[b] = "replaying"
    /\ \E i \in NextUntold(b) :
          /\ told' = [told EXCEPT ![b] = Append(@, i)]
          /\ ObserveStage(b, i, results[b][i] \notin Unrecorded)
    /\ UNCHANGED <<phase, workers, at, reply, results, limit, run, flushed>>

Return(b) ==
    /\ phase[b] = "replaying" /\ Untold(b) = {} /\ hand[b] = <<>>
    /\ phase' = [phase EXCEPT ![b] = "returned"]
    /\ UNCHANGED <<workers, at, reply, results, told, limit, run, log>>

-----------------------------------------------------------------------------
\* The first layer's journal is flushed once: after its batches were joined, or
\* early, when choosing the targets failed while a batch was still asking.
Joined == \A b \in FirstLayer : phase[b] = "returned"

FlushJournal ==
    /\ flushed = "no"
    /\ flushed' = IF Joined THEN "joined" ELSE "early"
    /\ Flush
    /\ UNCHANGED <<pool, limit, run>>

WriteJournal ==
    /\ FlushNext \/ \E b \in Batches : Record(b)
    /\ UNCHANGED <<pool, limit, run, flushed>>

Work(c) ==
    \/ Skip(c) \/ Offer(c) \/ Accept(c) \/ Prepare(c) \/ GiveUp(c) \/ Start(c)
    \/ \E a \in Answers \cup {"interrupted"} : Answer(c, a)
    \/ Finish(c) \/ Denied(c) \/ Abort(c)

Finished ==
    /\ \A b \in Batches : phase[b] = "returned"
    /\ UNCHANGED vars

Next ==
    \/ \E b \in Batches : Begin(b) \/ Close(b) \/ Replay(b) \/ Return(b)
    \/ \E c \in Call : Work(c)
    \/ Interrupt
    \/ FlushJournal
    \/ WriteJournal
    \/ Finished

Spec == Init /\ [][Next]_vars

\* Goroutines are scheduled, provider.Complete returns, writing a file ends.
FairSpec ==
    /\ Spec
    /\ \A b \in Batches : WF_vars(Close(b)) /\ WF_vars(Replay(b)) /\ WF_vars(Return(b))
    /\ \A c \in Call : WF_vars(Work(c))
    /\ WF_vars(WriteJournal)

-----------------------------------------------------------------------------
\* Types of the variables.
TypeOK ==
    /\ phase \in [Batches -> {"new", "feeding", "replaying", "returned"}]
    /\ workers \in [Batches -> 0..Concurrency]
    /\ at \in [Call -> {"unfed", "offered", "taken", "queued", "held", "answered", "claiming", "done"}]
    /\ reply \in [Call -> Results \cup {"none"}]
    /\ \A b \in Batches :
          /\ results[b] \in [1..Calls[b] -> Results \cup {"none"}]
          /\ told[b] \in Seq(1..Calls[b])
    /\ limit \in 0..Concurrency
    /\ stopped \in BOOLEAN /\ cause \subseteq Call /\ claimed \subseteq Call
    /\ flushed \in {"no", "joined", "early"}

\* A pool is one batch after the other's calls made one by one, to whoever reads
\* its results and its events: results stand, and events come in the caller's
\* order and only when every call has its result.  (ExecuteJSONEach, executor.Observer)
InOrder == INSTANCE SequentialBatch WITH
    slot <- results, told <- told, Open <- "none"

OneAfterAnother == InOrder!Spec

\* When a batch ends, whoever stopped it and wherever, each call has a result,
\* and "stopped" is that of exactly those calls that were never prepared: the provider was
\* not asked and nobody is told of an event.  (ExecuteJSONEach's feeder, ExecuteJSON)
NeverAskedSaysSo ==
    \A b \in Batches : phase[b] \in {"replaying", "returned"} =>
        \A i \in 1..Calls[b] :
            /\ results[b][i] # "none"
            /\ results[b][i] = "stopped" => stopped /\ reply[<<b, i>>] = "none"
            /\ reply[<<b, i>>] # "none" => results[b][i] = reply[<<b, i>>]

\* One refusal of the credentials is announced as the run's stop, and it is what the
\* run ended for unless the user had ended it before.  (abortRun)
OneStopAnnounced ==
    /\ Cardinality(claimed) <= 1
    /\ cause \subseteq claimed
    /\ cause # {} => stopped

\* A stage's exchanges are numbered without a gap in its caller's order, whatever
\* other stages observe in between and whatever the journal does not keep.
\* (ObserveStage)
JournalInOrder ==
    \A s \in Stages :
        LET own == {x \in Exchanges : x.stage = s} IN
        /\ {x.ordinal : x \in own} = 1..ordinals[s]
        /\ \A x, y \in own : x.ordinal < y.ordinal <=> x.event < y.event

\* An exchange that was told is written, warned of or still kept, and nothing is
\* kept that a flush after the batches were joined should have written.  (Flush)
NothingLost ==
    /\ \A b \in Batches : \A n \in DOMAIN told[b] :
          results[b][told[b][n]] \notin Unrecorded =>
             \E x \in Exchanges : x.stage = b /\ x.event = told[b][n]
    /\ flushed = "joined" => pending = <<>>

\* Every batch that began returns: a stop, a gate of one lease or a pool smaller
\* than its batch leaves no call and no feeder waiting.  (ExecuteJSONEach, acquire)
EveryBatchReturns == \A b \in Batches : phase[b] = "feeding" ~> phase[b] = "returned"

\* From the moment a provider has refused the credentials, no further request starts.
\* (Executor.AccessRefused)
NoStartAfterRefusal ==
    [][\A c, d \in Call :
          at[c] \in {"answered", "claiming"} /\ reply[c] = "denied" /\ claimed \subseteq {c}
             => ~(at[d] = "queued" /\ at'[d] = "held")]_vars
=============================================================================
