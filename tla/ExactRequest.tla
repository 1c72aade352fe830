---------------------------- MODULE ExactRequest ----------------------------
(***************************************************************************)
(* llm.ExecuteJSON, RecallJSON and ReplayJSON: how callers of exact requests *)
(* share one provider call and the accepted-answer cache.  The first caller  *)
(* of a request leads a flight; every identical request that arrives before  *)
(* it lands follows it.  The leader reads the cache, asks the provider on a  *)
(* miss, saves an answer it accepts, and lands.  A recall never leads and    *)
(* never asks.  A replay asks whatever the cache holds and joins no flight.  *)
(*                                                                          *)
(* A flight is named by its leader: a caller leads at most once.  Between    *)
(* two actions any other goroutine, or a process that shares the cache, may  *)
(* run.                                                                     *)
(***************************************************************************)
EXTENDS Naturals, FiniteSets

CONSTANTS Callers,     \* one call each
          Recallers,   \* the callers that only recall
          Replays,     \* the callers that replay
          Keys,        \* exact requests under one provider state
          KeyOf,       \* the request of each caller
          Answers,     \* what the provider may answer
          Accepts,     \* the answers each caller's limits and decoder take
          FirstRecords, \* what the cache may hold for a request at first
          DiskFaults   \* reading, evicting or saving a record may fail

Nobody == "nobody"
NoRecord == "no record"
Corrupt == "corrupt"        \* proven corrupt when read
Failed == "failed"          \* the provider's failure
Interrupted == "interrupted" \* a context ended the call
Refused == "refused"        \* limits or decoder refused the answer
Missed == "missed"          \* a recall found no usable answer
Pending == "pending"

NotAnswers == {Nobody, NoRecord, Corrupt, Failed, Interrupted, Refused, Missed, Pending}

ASSUME RequestAssumption ==
    /\ Recallers \subseteq Callers /\ Replays \subseteq Callers
    /\ Recallers \cap Replays = {}
    /\ Callers \cap NotAnswers = {} /\ Answers \cap NotAnswers = {}
    /\ KeyOf \in [Callers -> Keys]
    /\ Accepts \in [Callers -> SUBSET Answers]
    /\ FirstRecords \subseteq Answers \cup {NoRecord, Corrupt}
    /\ DiskFaults \in BOOLEAN

VARIABLES
    flights,    \* BatchController.flights: who leads each request, or Nobody
    landed,     \* the leaders whose done channel is closed
    answer,     \* flight.answer of each leader, Pending when there is none
    current,    \* the flight each caller leads or waits for
    record,     \* the accepted record of each request
    taken,      \* the live answer a caller accepted and is saving
    result,     \* how each call ended, Pending until then
    canceled,   \* the callers whose context has ended
    pc

vars == <<flights, landed, answer, current, record, taken, result, canceled, pc>>

Leads(c) == current[c] = c
Members == Callers \ Replays       \* the callers that share flights

Init ==
    /\ flights = [k \in Keys |-> Nobody]
    /\ landed = {}
    /\ answer = [c \in Callers |-> Pending]
    /\ current = [c \in Callers |-> Nobody]
    /\ record \in [Keys -> FirstRecords]
    /\ taken = [c \in Callers |-> Pending]
    /\ result = [c \in Callers |-> Pending]
    /\ canceled = {}
    /\ pc = [c \in Callers |-> "out"]

\* The call returns r.  A leader has still to land.
Return(c, r) ==
    /\ result' = [result EXCEPT ![c] = r]
    /\ pc' = [pc EXCEPT ![c] = IF Leads(c) THEN "clearing" ELSE "done"]

\* A context that has ended is refused before anything is shared.
Enter(c) ==
    /\ pc[c] = "out"
    /\ IF c \in canceled
       THEN Return(c, Interrupted)
       ELSE /\ pc' = [pc EXCEPT ![c] = IF c \in Replays THEN "asking" ELSE "joining"]
            /\ UNCHANGED result
    /\ UNCHANGED <<flights, landed, answer, current, record, taken, canceled>>

\* Mutant: a request in the air does not hold back the next one.
AlwaysLead(c) ==
    /\ flights' = [flights EXCEPT ![KeyOf[c]] = c]
    /\ current' = [current EXCEPT ![c] = c]
    /\ pc' = [pc EXCEPT ![c] = "reading"]

\* Mutant: a recall reads the cache without waiting for the flight in the air.
RecallAhead(c) ==
    LET k == KeyOf[c] IN
    IF flights[k] # Nobody
    THEN /\ current' = [current EXCEPT ![c] = flights[k]]
         /\ pc' = [pc EXCEPT ![c] = IF c \in Recallers THEN "reading" ELSE "waiting"]
         /\ UNCHANGED flights
    ELSE /\ pc' = [pc EXCEPT ![c] = "reading"]
         /\ current' = [current EXCEPT ![c] = IF c \in Recallers THEN Nobody ELSE c]
         /\ flights' = IF c \in Recallers THEN flights ELSE [flights EXCEPT ![k] = c]

\* joinFlight: follow the flight in the air, or lead a new one; a recall with
\* none in the air reads the cache alone.
JoinFlight(c) ==
    LET k == KeyOf[c] IN
    IF flights[k] # Nobody
    THEN /\ current' = [current EXCEPT ![c] = flights[k]]
         /\ pc' = [pc EXCEPT ![c] = "waiting"]
         /\ UNCHANGED flights
    ELSE /\ pc' = [pc EXCEPT ![c] = "reading"]
         /\ current' = [current EXCEPT ![c] = IF c \in Recallers THEN Nobody ELSE c]
         /\ flights' = IF c \in Recallers THEN flights ELSE [flights EXCEPT ![k] = c]

Join(c) ==
    /\ pc[c] = "joining"
    /\ JoinFlight(c)
    /\ UNCHANGED <<landed, answer, record, taken, result, canceled>>

\* What a caller makes of an answer: its own limits and decoder decide.  A
\* provider's failure is shared as it is.
Judged(c, a) == IF a \in Answers \ Accepts[c] THEN Refused ELSE a

\* The flight landed.  Without an answer its follower joins again; a recall
\* goes on to the cache the leader wrote.
Follow(c) ==
    /\ pc[c] = "waiting"
    /\ current[c] \in landed
    /\ LET a == answer[current[c]] IN
       IF a # Pending /\ c \notin Recallers
       THEN Return(c, Judged(c, a))
       ELSE /\ pc' = [pc EXCEPT ![c] = IF a = Pending THEN "joining" ELSE "reading"]
            /\ UNCHANGED result
    /\ UNCHANGED <<flights, landed, answer, current, record, taken, canceled>>

\* The follower's own context ends its wait.
StopWaiting(c) ==
    /\ pc[c] = "waiting"
    /\ c \in canceled
    /\ Return(c, Interrupted)
    /\ UNCHANGED <<flights, landed, answer, current, record, taken, canceled>>

-----------------------------------------------------------------------------
\* The leader publishes what it read or what the provider returned.
Publish(c, a) == answer' = IF Leads(c) THEN [answer EXCEPT ![c] = a] ELSE answer

\* No usable record: a recall ends here, anyone else asks the provider.
Miss(c) ==
    IF c \in Recallers
    THEN Return(c, Missed)
    ELSE pc' = [pc EXCEPT ![c] = "asking"] /\ UNCHANGED result

\* A record the caller accepts answers it.
Hit(c) ==
    /\ pc[c] = "reading"
    /\ record[KeyOf[c]] \in Accepts[c]
    /\ Publish(c, record[KeyOf[c]])
    /\ Return(c, record[KeyOf[c]])
    /\ UNCHANGED <<flights, landed, current, record, taken, canceled>>

\* No record, one this caller refuses, or one that cannot be read: it stays.
MissRecord(c) ==
    /\ pc[c] = "reading"
    /\ DiskFaults \/ record[KeyOf[c]] \notin Accepts[c] \cup {Corrupt}
    /\ Miss(c)
    /\ UNCHANGED <<flights, landed, answer, current, record, taken, canceled>>

\* A record proven corrupt is to be evicted; another process may replace it
\* before it is.
ReadCorrupt(c) ==
    /\ pc[c] = "reading"
    /\ record[KeyOf[c]] = Corrupt
    /\ pc' = [pc EXCEPT ![c] = "evicting"]
    /\ UNCHANGED <<flights, landed, answer, current, record, taken, result, canceled>>

Evict(c) ==
    /\ pc[c] = "evicting"
    /\ record' = [record EXCEPT ![KeyOf[c]] = NoRecord]
    /\ Miss(c)
    /\ UNCHANGED <<flights, landed, answer, current, taken, canceled>>

EvictFails(c) ==
    /\ pc[c] = "evicting"
    /\ DiskFaults
    /\ Miss(c)
    /\ UNCHANGED <<flights, landed, answer, current, record, taken, canceled>>

-----------------------------------------------------------------------------
\* provider.Complete returned a, an answer or its failure; the answer is
\* published before it is judged.
Complete(c, a) ==
    /\ pc[c] = "asking"
    /\ Publish(c, a)
    /\ IF a \in Accepts[c]
       THEN /\ taken' = [taken EXCEPT ![c] = a]
            /\ pc' = [pc EXCEPT ![c] = "saving"]
            /\ UNCHANGED result
       ELSE Return(c, Judged(c, a)) /\ UNCHANGED taken
    /\ UNCHANGED <<flights, landed, current, record, canceled>>

\* Only an answer the caller accepted is saved, over whatever is there.
Save(c) ==
    /\ pc[c] = "saving"
    /\ record' = [record EXCEPT ![KeyOf[c]] = taken[c]]
    /\ Return(c, taken[c])
    /\ UNCHANGED <<flights, landed, answer, current, taken, canceled>>

\* A save that fails is an issue of an accepted answer.  The replay command
\* reports it as its error instead.
SaveFails(c) ==
    /\ pc[c] = "saving"
    /\ DiskFaults
    /\ Return(c, IF c \in Replays THEN Failed ELSE taken[c])
    /\ UNCHANGED <<flights, landed, answer, current, record, taken, canceled>>

\* land: the request is free for a new flight before this one's followers wake.
Clear(c) ==
    /\ pc[c] = "clearing"
    /\ flights' = [flights EXCEPT ![KeyOf[c]] = Nobody]
    /\ pc' = [pc EXCEPT ![c] = "landing"]
    /\ UNCHANGED <<landed, answer, current, record, taken, result, canceled>>

\* Mutants: a stopped leader's error is its followers' answer; an ended
\* context leaves the followers waiting.
AnswerOfAnyLeader(c) == answer[c]
LandedUnlessCanceled(c) == IF c \in canceled THEN landed ELSE landed \cup {c}

\* An error under an ended context leaves no answer.
LandedAnswer(c) ==
    IF result[c] \notin Answers /\ c \in canceled THEN Pending ELSE answer[c]

\* Whatever the outcome, the done channel is closed.
WithLanded(c) == landed \cup {c}

Land(c) ==
    /\ pc[c] = "landing"
    /\ answer' = [answer EXCEPT ![c] = LandedAnswer(c)]
    /\ landed' = WithLanded(c)
    /\ pc' = [pc EXCEPT ![c] = "done"]
    /\ UNCHANGED <<flights, current, record, taken, result, canceled>>

\* A run is interrupted or a lane stopped.
Cancel(c) ==
    /\ c \notin canceled /\ pc[c] # "done"
    /\ canceled' = canceled \cup {c}
    /\ UNCHANGED <<flights, landed, answer, current, record, taken, result, pc>>

Step(c) ==
    \/ Enter(c) \/ Join(c) \/ Follow(c) \/ StopWaiting(c)
    \/ Hit(c) \/ MissRecord(c) \/ ReadCorrupt(c) \/ Evict(c) \/ EvictFails(c)
    \/ \E a \in Answers \cup {Failed} : Complete(c, a)
    \/ c \in canceled /\ Complete(c, Interrupted)
    \/ Save(c) \/ SaveFails(c) \/ Clear(c) \/ Land(c)

Finished == (\A c \in Callers : pc[c] = "done") /\ UNCHANGED vars

Next == (\E c \in Callers : Step(c) \/ Cancel(c)) \/ Finished

Spec == Init /\ [][Next]_vars

\* Goroutines are scheduled, and provider.Complete always returns.
FairSpec == Spec /\ \A c \in Callers : WF_vars(Step(c))

-----------------------------------------------------------------------------
\* Types of the variables.  A flight answers with what the provider or the cache
\* returned, never with a verdict on it.
TypeOK ==
    /\ flights \in [Keys -> Callers \cup {Nobody}]
    /\ landed \subseteq Callers
    /\ answer \in [Callers -> Answers \cup {Pending, Failed, Interrupted}]
    /\ current \in [Callers -> Callers \cup {Nobody}]
    /\ record \in [Keys -> Answers \cup {NoRecord, Corrupt}]
    /\ taken \in [Callers -> Answers \cup {Pending}]
    /\ result \in [Callers -> Answers \cup {Pending, Failed, Interrupted, Refused, Missed}]
    /\ canceled \subseteq Callers
    /\ pc \in [Callers -> {"out", "joining", "waiting", "reading", "evicting", "asking",
                           "saving", "clearing", "landing", "done"}]

\* An exact request is with the provider at most once at a time, through
\* cancelled leaders, evictions and late arrivals.  (joinFlight, land)
OneLiveCall ==
    \A c, d \in Members :
        pc[c] = "asking" /\ pc[d] = "asking" /\ KeyOf[c] = KeyOf[d] => c = d

\* A call ends with a context's error only when its own context ended: followers
\* do not inherit their leader's.  (land, wait)
CancellationStaysOwn ==
    \A c \in Callers : result[c] = Interrupted => c \in canceled

\* A recall that waited for a flight reads the answer its leader saved.
\* (land after saveAcceptedCache, executeJSON's recall branch)
RecallReadsItsLeader ==
    \A c \in Recallers :
        result[c] = Missed /\ current[c] # Nobody => result[current[c]] \notin Accepts[c]

SavedByReplay(k) ==
    \E d \in Replays : KeyOf[d] = k /\ pc[d] = "done" /\ result[d] \in Answers

RecallEvicts(k) ==
    \E c \in Recallers : KeyOf[c] = k /\ pc[c] = "evicting" /\ pc'[c] # "evicting"

\* The flight keeps an eviction decided on a corrupt record from removing the
\* answer that replaced it.  An accepted answer is lost only to those who lead no
\* flight: to a recall that evicts, or where a replay saved it.
\* (loadAcceptedCache, removeAcceptedCache, joinFlight)
NoAnswerEvicted ==
    [][\A k \in Keys :
          record[k] \in Answers /\ record'[k] \notin Answers
             => SavedByReplay(k) \/ RecallEvicts(k)]_vars

\* Callers of one request are told one answer and the cache keeps that one, when
\* they decode alike and the disk does not fail.  (flight.go's promise)
Promise == INSTANCE OneAnswer WITH
    kept <- [k \in Keys |-> IF record[k] \in Answers THEN record[k] ELSE Pending],
    told <- [c \in Callers |-> IF result[c] \in Answers THEN result[c] ELSE Pending],
    Unanswered <- Pending

OneAnswerShown == Promise!Spec

\* Every call returns, whatever becomes of the leaders it waits for.
EveryCallerReturns == \A c \in Callers : pc[c] = "joining" ~> pc[c] = "done"

-----------------------------------------------------------------------------
(* The parts of the inductive invariants behind the properties above.       *)

Flying == {"reading", "evicting", "asking", "saving", "clearing"}

\* A request in the air is led by one caller of it, from joinFlight until land
\* frees it; only such a caller asks, saves or lands, replays aside.
FlightsLed ==
    /\ \A k \in Keys : flights[k] # Nobody =>
          /\ KeyOf[flights[k]] = k
          /\ Leads(flights[k]) /\ pc[flights[k]] \in Flying
    /\ \A c \in Callers :
          /\ Leads(c) => c \in Members \ Recallers /\ pc[c] \in Flying \cup {"landing", "done"}
          /\ Leads(c) /\ pc[c] \in Flying => flights[KeyOf[c]] = c
          /\ c \in Members \ Recallers /\ pc[c] \in Flying => Leads(c)
          /\ c \in Recallers => pc[c] \notin {"asking", "saving"}
          /\ c \in Replays => pc[c] \in {"out", "asking", "saving", "done"}
          /\ pc[c] = "waiting" => current[c] \in Callers /\ KeyOf[current[c]] = KeyOf[c]
          /\ pc[c] \in {"clearing", "landing"} => Leads(c)
          /\ c \in landed => pc[c] = "done"
          /\ pc[c] = "saving" => taken[c] \in Accepts[c]

\* Only a stopped leader that has not landed holds a context's error as its answer.
StoppedLeaders ==
    \A c \in Callers :
        answer[c] = Interrupted =>
            c \in canceled /\ result[c] = Interrupted /\ pc[c] \in {"clearing", "landing"}

RequestInv ==
    /\ TypeOK
    /\ FlightsLed
    /\ StoppedLeaders
    /\ CancellationStaysOwn
=============================================================================
