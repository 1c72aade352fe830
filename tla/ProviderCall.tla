---------------------------- MODULE ProviderCall ----------------------------
(***************************************************************************)
(* One provider call as internal/deepseek/llm_provider.go and               *)
(* internal/typesafe/client.go make it through the shared gate: Complete's  *)
(* loop of attempts, each under a lease, and what llm.executeLive and       *)
(* llm.ExecuteJSONEach tell the gate when the call ends.                    *)
(*                                                                          *)
(* Every step of a call is a step of AttemptGate, or leaves the gate alone, *)
(* joined with what the call itself remembers.  Each call is made once.     *)
(***************************************************************************)
EXTENDS AttemptGate, Sequences

CONSTANTS AnswerKinds,  \* the answers the provider gives, of Kinds below
          MaxAttempts,  \* attempts in all: 4 for deepseek, 5 for typesafe
          Timed,        \* calls whose owner set a per-attempt deadline
          SplitHTTP500, \* calls whose owner splits its input after an HTTP 500
          Pooled,       \* calls run by a worker of ExecuteJSONEach
          Cancelable,   \* calls whose context may end
          CancelWins    \* calls whose failure under an ended context returns the
                        \* context's error (typesafe), not its own (deepseek)

\* What one HTTP exchange comes to.  A 429 may carry a body over the byte limit
\* ("rateRefused"), or lose its body to the attempt's deadline ("rateExpired").
RateKinds == {"rate", "rateRefused", "rateExpired"}
Kinds == RateKinds \cup {"ok", "transient", "http500", "noAnswer", "refused", "expired"}

ASSUME CallAssumption ==
    /\ MaxAttempts \in Nat \ {0}
    /\ Timed \subseteq Calls /\ SplitHTTP500 \subseteq Calls
    /\ Pooled \subseteq Calls /\ Cancelable \subseteq Calls
    /\ CancelWins \subseteq Calls
    /\ AnswerKinds \subseteq Kinds

VARIABLES
    answers,      \* the answer to each attempt so far, and until when it asked
                  \* for no other
    reply,        \* the answer to the attempt in the air, before it is handled
    sleepUntil,   \* when the call may try again
    retried,      \* calls that already sent an answerless request once more
    outcome       \* how Complete ended, "none" while it runs

callVars == <<answers, reply, sleepUntil, retried, outcome>>
allVars == <<vars, callVars>>

NoReply == [kind |-> "none", delay |-> 0, until |-> 0]
Outcomes == {"none", "ok", "overload", "failed", "expired", "canceled"}

CallInit ==
    /\ Init
    /\ answers = [c \in Calls |-> <<>>]
    /\ reply = [c \in Calls |-> NoReply]
    /\ sleepUntil = [c \in Calls |-> 0]
    /\ retried = {}
    /\ outcome = [c \in Calls |-> "none"]

-----------------------------------------------------------------------------
Begin(c) ==
    /\ outcome[c] = "none" /\ answers[c] = <<>>
    /\ Bind(c)
    /\ UNCHANGED callVars

\* Inside the gate, the call's own state rests.
InGate(c) ==
    /\ ReadEpoch(c) \/ Take(c) \/ Park(c) \/ Wake(c) \/ Start(c)
    /\ UNCHANGED callVars

\* acquire returned the context's error: so does Complete.
Interrupted(c) ==
    /\ GiveUp(c) \/ AbandonLease(c)
    /\ outcome' = [outcome EXCEPT ![c] = "canceled"]
    /\ UNCHANGED <<answers, reply, sleepUntil, retried>>

\* The exchange ends; a 429 names its cooldown, and nothing else does.  Only an
\* owner's deadline expires an attempt, and only while the call's own context is
\* alive.
Answer(c, kind, delay) ==
    /\ pc[c] = "held" /\ reply[c] = NoReply
    /\ kind \in {"expired", "rateExpired"} => c \in Timed /\ c \notin canceled
    /\ delay \in IF kind \in RateKinds THEN Cooldowns ELSE {0}
    /\ reply' = [reply EXCEPT ![c] =
          [kind |-> kind, delay |-> delay, until |-> IF kind \in RateKinds THEN now + delay ELSE 0]]
    /\ UNCHANGED <<vars, answers, sleepUntil, retried, outcome>>

\* A 429 postpones every attempt through the gate, this call's own included.
Report(c) ==
    /\ reply[c].kind \in RateKinds
    /\ RateLimited(c, reply[c].delay)
    /\ sleepUntil' = [sleepUntil EXCEPT ![c] = now + reply[c].delay]
    /\ UNCHANGED <<answers, reply, retried, outcome>>

\* Mutant: an answerless reply is sent again as often as a network failure.
FinalButNoAnswer(c, kind) ==
    \/ kind = "refused"
    \/ kind = "http500" /\ c \in SplitHTTP500

\* The answers Complete never sends again, whatever its attempt number.
Final(c, kind) ==
    \/ kind = "refused"
    \/ kind = "noAnswer" /\ c \in retried
    \/ kind = "http500" /\ c \in SplitHTTP500

\* How Complete judges the answer of its attempt number n; "none" retries.
Judged(c, kind, n) ==
    CASE kind = "ok"                             -> "ok"
      [] kind \in {"expired", "rateExpired"}      -> "expired"
      [] kind \notin {"ok", "expired", "rateExpired"} ->
           IF c \in CancelWins /\ c \in canceled THEN "canceled"
           ELSE IF kind = "rateRefused" THEN "overload"
           ELSE IF Final(c, kind) THEN "failed"
           ELSE IF n < MaxAttempts THEN "none"
           ELSE IF kind = "rate" THEN "overload" ELSE "failed"

\* Mutant: the lease goes back before the gate hears of the 429.
ReportedOrNot(c) == reply[c] # NoReply

\* A 429 is reported to the gate before its lease goes back.
Reported(c) == reply[c].kind \in RateKinds => pc[c] = "limited"

\* The lease goes back, after the 429 was reported, and the answer is judged.
\* The short backoff of other failures is below the clock's resolution.
Settle(c) ==
    /\ reply[c] # NoReply
    /\ Reported(c)
    /\ Release(c)
    /\ answers' = [answers EXCEPT ![c] =
                      Append(@, [kind |-> reply[c].kind, until |-> reply[c].until])]
    /\ outcome' = [outcome EXCEPT ![c] = Judged(c, reply[c].kind, Len(answers[c]) + 1)]
    /\ retried' = IF reply[c].kind = "noAnswer" THEN retried \cup {c} ELSE retried
    /\ reply' = [reply EXCEPT ![c] = NoReply]
    /\ UNCHANGED sleepUntil

\* The wait before the next attempt is over.
Again(c) ==
    /\ outcome[c] = "none"
    /\ now >= sleepUntil[c]
    /\ Retry(c)
    /\ UNCHANGED callVars

\* The context ends the wait instead.
StopWaiting(c) ==
    /\ outcome[c] = "none" /\ c \in canceled
    /\ Leave(c)
    /\ outcome' = [outcome EXCEPT ![c] = "canceled"]
    /\ UNCHANGED <<answers, reply, sleepUntil, retried>>

\* executeLive: a success whose envelope passes counts for recovery, a 429
\* collapses the gate again, anything else ends the call without a word to the
\* gate.  The pool worker that ran the call collapses it once more.
End(c) ==
    /\ \/ outcome[c] = "ok" /\ (Completed(c) \/ Leave(c))
       \/ outcome[c] = "overload" /\ pc[c] = "overloaded" /\ Collapse(c)
       \/ outcome[c] = "overload" /\ pc[c] = "reported"
             /\ IF c \in Pooled THEN Collapse(c) ELSE Leave(c)
       \/ outcome[c] \in {"failed", "expired", "canceled"} /\ Leave(c)
    /\ UNCHANGED callVars

-----------------------------------------------------------------------------
CallCancel(c) ==
    /\ c \in Cancelable
    /\ Cancel(c)
    /\ UNCHANGED callVars

\* Time passes only while some call waits for it: a parked call's timer, or
\* the wait before a retry.
CallTick ==
    /\ \E c \in Calls :
          \/ pc[c] = "waiting" /\ wake[c] > now
          \/ pc[c] = "overloaded" /\ outcome[c] = "none" /\ sleepUntil[c] > now
    /\ Tick
    /\ UNCHANGED callVars

Complete(c) ==
    \/ Begin(c) \/ InGate(c) \/ Interrupted(c)
    \/ \E kind \in AnswerKinds, delay \in Cooldowns \cup {0} : Answer(c, kind, delay)
    \/ Report(c) \/ Settle(c) \/ Again(c) \/ StopWaiting(c) \/ End(c)

AllEnded ==
    /\ \A c \in Calls : pc[c] = "out" /\ (outcome[c] # "none" \/ c \in canceled)
    /\ UNCHANGED allVars

CallNext ==
    \/ \E c \in Calls : Complete(c) \/ CallCancel(c)
    \/ CallTick
    \/ AllEnded

CallSpec == CallInit /\ [][CallNext]_allVars

\* Goroutines are scheduled, timers fire, and an HTTP exchange always ends: the
\* client and the attempt both carry a deadline.
FairCallSpec ==
    /\ CallSpec
    /\ \A c \in Calls : WF_allVars(Complete(c))
    /\ WF_allVars(CallTick)

-----------------------------------------------------------------------------
\* Types of the call's own variables.
CallTypeOK ==
    /\ answers \in [Calls -> Seq([kind : Kinds, until : Nat])]
    /\ reply \in [Calls -> [kind : Kinds, delay : Cooldowns \cup {0}, until : Nat] \cup {NoReply}]
    /\ sleepUntil \in [Calls -> Nat]
    /\ retried \subseteq Calls
    /\ outcome \in [Calls -> Outcomes]

\* Once a rate-limited attempt has given its lease back, no attempt of any call
\* starts before that 429's cooldown has passed: the gate is backed off before the
\* lease that a waiting call could take is free, and no later 429 or success cuts
\* the wait.  (Complete's BackoffProviderAttempts before releaseAttempt; acquire)
NoStartInsideCooldown ==
    [][\A c, d \in Calls :
          pc[c] = "trying" /\ pc'[c] = "taken" =>
             \A i \in DOMAIN answers[d] : now >= answers[d][i].until]_allVars

Resent == {"rate", "transient", "http500", "noAnswer"}

\* A request is sent again only after a transport failure or its first empty
\* answer, never after a success, a refusal, an expired attempt, or a 500 its
\* owner splits on, and never beyond MaxAttempts.  (Complete's loop)
RetryDiscipline ==
    \A c \in Calls : LET sent == answers[c] IN
        /\ Len(sent) <= MaxAttempts
        /\ \A i \in DOMAIN sent : i < Len(sent) =>
              /\ sent[i].kind \in Resent
              /\ sent[i].kind = "http500" => c \notin SplitHTTP500
        /\ Cardinality({i \in DOMAIN sent : i < Len(sent) /\ sent[i].kind = "noAnswer"}) <= 1

\* Every call that began returns, also when others hold every lease, a 429
\* postpones them all, or its context ends while it waits; and it leaves no
\* lease behind.  (Complete, acquire, release)
EveryCallReturns ==
    \A c \in Calls : pc[c] = "bound" ~> pc[c] = "out" /\ outcome[c] # "none"
=============================================================================
