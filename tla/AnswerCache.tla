----------------------------- MODULE AnswerCache -----------------------------
(***************************************************************************)
(* The accepted-answer cache on disk: internal/llm/cache.go and payload.go.  *)
(* A record per exact request names two payload files, the request's bytes   *)
(* and the answer's, each called by the hash of its content and shared by    *)
(* every record that uses those bytes.  Records are synced, payloads are     *)
(* not.  Runs of several processes read, evict and save without a lock, file *)
(* by file.                                                                 *)
(*                                                                          *)
(* A payload either is what its name promises, or is damaged, or is absent;  *)
(* reading tells which by its hash.  A harm is anything but the code's own   *)
(* steps: a power loss, a file changed or removed by others, a killed run.   *)
(***************************************************************************)
EXTENDS Naturals, FiniteSets

CONSTANTS Runs,     \* processes or goroutines that use the cache
          Requests, \* exact requests, and the payloads of their bytes
          Answers,  \* accepted answers, and the payloads of their bytes
          NoAnswer, \* no record
          MaxHarms  \* bound on the number of harms

ASSUME CacheAssumption ==
    /\ NoAnswer \notin Answers
    /\ Requests \cap Answers = {}
    /\ MaxHarms \in Nat

VARIABLES
    record,   \* the answer each request's record names
    payload,  \* the payload file of each name: "whole", "damaged" or "absent"
    settled,  \* the record of each request that a power loss cannot undo
    synced,   \* the payloads a power loss leaves as they are
    pc,       \* where each run stands
    request,  \* the request a run asks for
    have,     \* the answer a run has read of in a record, or got from the provider
    intact,   \* the runs that read their request's payload whole
    harms,    \* harms so far
    harmed    \* history: payloads harmed since they were last saved

files == <<record, payload, settled, synced>>
vars == <<files, pc, request, have, intact, harms, harmed>>

Names == Requests \cup Answers

Init ==
    /\ record = [r \in Requests |-> NoAnswer]
    /\ payload = [n \in Names |-> "absent"]
    /\ settled = record
    /\ synced = Names
    /\ pc = [p \in Runs |-> "idle"]
    /\ request \in [Runs -> Requests]
    /\ have = [p \in Runs |-> NoAnswer]
    /\ intact = {}
    /\ harms = 0
    /\ harmed = {}

Goto(p, place) == pc' = [pc EXCEPT ![p] = place]

-----------------------------------------------------------------------------
(* Reading: the record, its request payload, its response payload.          *)

Begin(p, r) ==
    /\ pc[p] = "idle"
    /\ request' = [request EXCEPT ![p] = r]
    /\ Goto(p, "record")
    /\ UNCHANGED <<files, have, intact, harms, harmed>>

ReadRecord(p) ==
    /\ pc[p] = "record"
    /\ have' = [have EXCEPT ![p] = record[request[p]]]
    /\ Goto(p, IF record[request[p]] = NoAnswer THEN "asking" ELSE "request")
    /\ UNCHANGED <<files, request, intact, harms, harmed>>

\* A missing payload is corruption at once; a damaged one fails its hash later.
ReadRequest(p) ==
    /\ pc[p] = "request"
    /\ Goto(p, IF payload[request[p]] = "absent" THEN "evicting" ELSE "response")
    /\ intact' = IF payload[request[p]] = "whole" THEN intact \cup {p} ELSE intact \ {p}
    /\ UNCHANGED <<files, request, have, harms, harmed>>

\* Both payloads hash to what the record says: a hit.
ReadResponse(p) ==
    /\ pc[p] = "response"
    /\ Goto(p, IF payload[have[p]] = "whole" /\ p \in intact THEN "idle" ELSE "evicting")
    /\ UNCHANGED <<files, request, have, intact, harms, harmed>>

\* Proven corruption removes the record, and never a payload.
Evict(p) ==
    /\ pc[p] = "evicting"
    /\ record' = [record EXCEPT ![request[p]] = NoAnswer]
    /\ Goto(p, "asking")
    /\ UNCHANGED <<payload, settled, synced, request, have, intact, harms, harmed>>

-----------------------------------------------------------------------------
(* Saving: the request payload, the response payload, then the record.      *)

\* The provider answered and the answer was accepted.
Accept(p, a) ==
    /\ pc[p] = "asking"
    /\ have' = [have EXCEPT ![p] = a]
    /\ Goto(p, "saveRequest")
    /\ UNCHANGED <<files, request, intact, harms, harmed>>

\* Mutant: a file of that name is taken for the bytes it promises.
SavedByName(n) ==
    /\ payload' = [payload EXCEPT ![n] = IF @ = "absent" THEN "whole" ELSE @]
    /\ synced' = IF payload[n] = "absent" THEN synced \ {n} ELSE synced
    /\ harmed' = harmed \ {n}

\* savePayloadIn: a file that holds exactly these bytes is kept, any other is
\* replaced at once by one that does, unsynced.
SavePayload(n) ==
    /\ payload' = [payload EXCEPT ![n] = "whole"]
    /\ synced' = IF payload[n] = "whole" THEN synced ELSE synced \ {n}
    /\ harmed' = harmed \ {n}

\* Mutant: the record is published before the response payload is there.
RecordFirst(p) ==
    /\ pc[p] = "saveRequest"
    /\ SavePayload(request[p])
    /\ record' = [record EXCEPT ![request[p]] = have[p]]
    /\ Goto(p, "saveResponse")
    /\ UNCHANGED <<settled, request, have, intact, harms>>

SaveRequest(p) ==
    /\ pc[p] = "saveRequest"
    /\ SavePayload(request[p])
    /\ Goto(p, "saveResponse")
    /\ UNCHANGED <<record, settled, request, have, intact, harms>>

SaveResponse(p) ==
    /\ pc[p] = "saveResponse"
    /\ SavePayload(have[p])
    /\ Goto(p, "publish")
    /\ UNCHANGED <<record, settled, request, have, intact, harms>>

\* The temporary record was written and synced; it is renamed into place.
Publish(p) ==
    /\ pc[p] = "publish"
    /\ record' = [record EXCEPT ![request[p]] = have[p]]
    /\ Goto(p, "idle")
    /\ UNCHANGED <<payload, settled, synced, request, have, intact, harms, harmed>>

-----------------------------------------------------------------------------
(* Harms, and the system's own write-back.                                  *)

\* The system wrote everything back.
WriteBack ==
    /\ settled' = record
    /\ synced' = Names
    /\ <<settled', synced'>> # <<settled, synced>>
    /\ UNCHANGED <<record, payload, pc, request, have, intact, harms, harmed>>

Harm == harms < MaxHarms /\ harms' = harms + 1

\* Every run ends.  A record is its last settled or its current version; an
\* unsynced payload is whole, torn or gone.
PowerLoss ==
    /\ Harm
    /\ record' \in {f \in [Requests -> Answers \cup {NoAnswer}] :
                      \A r \in Requests : f[r] \in {settled[r], record[r]}}
    /\ payload' \in {f \in [Names -> {"whole", "damaged", "absent"}] :
                      \A n \in Names : n \in synced \/ payload[n] = "absent" => f[n] = payload[n]}
    /\ settled' = record'
    /\ synced' = Names
    /\ harmed' = harmed \cup {n \in Names : payload'[n] # payload[n]}
    /\ pc' = [p \in Runs |-> "idle"]
    /\ UNCHANGED <<request, have, intact>>

\* A payload is changed or removed by somebody else, as cache clear does.
DamagePayload(n, state) ==
    /\ Harm
    /\ payload[n] # "absent"
    /\ payload' = [payload EXCEPT ![n] = state]
    /\ harmed' = harmed \cup {n}
    /\ UNCHANGED <<record, settled, synced, pc, request, have, intact>>

\* A record is removed by somebody else.
RemoveRecord(r) ==
    /\ Harm
    /\ record[r] # NoAnswer
    /\ record' = [record EXCEPT ![r] = NoAnswer]
    /\ UNCHANGED <<payload, settled, synced, pc, request, have, intact, harmed>>

\* A file cannot be read, or exceeds the reader's own limit: a miss that evicts
\* nothing.
Unreadable(p) ==
    /\ Harm
    /\ pc[p] \in {"record", "request", "response"}
    /\ Goto(p, "asking")
    /\ UNCHANGED <<files, request, have, intact, harmed>>

\* A run is killed, or its save fails, at any step.
Kill(p) ==
    /\ Harm
    /\ pc[p] # "idle"
    /\ Goto(p, "idle")
    /\ UNCHANGED <<files, request, have, intact, harmed>>

-----------------------------------------------------------------------------
Step(p) ==
    \/ ReadRecord(p) \/ ReadRequest(p) \/ ReadResponse(p) \/ Evict(p)
    \/ \E a \in Answers : Accept(p, a)
    \/ SaveRequest(p) \/ SaveResponse(p) \/ Publish(p)

Harms ==
    \/ PowerLoss
    \/ \E n \in Names, state \in {"damaged", "absent"} : DamagePayload(n, state)
    \/ \E r \in Requests : RemoveRecord(r)
    \/ \E p \in Runs : Kill(p) \/ Unreadable(p)

Next ==
    \/ \E p \in Runs : Step(p) \/ \E r \in Requests : Begin(p, r)
    \/ WriteBack
    \/ Harms

Spec == Init /\ [][Next]_vars

\* A run that began goes on; nobody has to begin one.
FairSpec == Spec /\ \A p \in Runs : WF_vars(Step(p))

-----------------------------------------------------------------------------
\* Types of the variables; a run that saves has an answer.
TypeOK ==
    /\ record \in [Requests -> Answers \cup {NoAnswer}]
    /\ payload \in [Names -> {"whole", "damaged", "absent"}]
    /\ settled \in [Requests -> Answers \cup {NoAnswer}]
    /\ synced \subseteq Names
    /\ pc \in [Runs -> {"idle", "record", "request", "response", "evicting", "asking",
                        "saveRequest", "saveResponse", "publish"}]
    /\ request \in [Runs -> Requests]
    /\ have \in [Runs -> Answers \cup {NoAnswer}]
    /\ intact \subseteq Runs
    /\ harms \in 0..MaxHarms
    /\ harmed \subseteq Names

Sound(n) == payload[n] = "whole" \/ n \in harmed

\* A record names payloads that hold their bytes, unless somebody harmed them
\* after they were last saved: other runs' saves and evictions never leave a
\* record with nothing behind it, and a save repairs what was harmed before it.
\* (saveAcceptedCache's order, savePayloadIn's comparison)
RecordsBacked ==
    \A r \in Requests : record[r] # NoAnswer => Sound(r) /\ Sound(record[r])

\* Runs that race each other never take a record for corrupt: eviction is for
\* real harm only.  (readAcceptedCache, saveAcceptedCache)
NoFalseCorruption == harms = 0 => \A p \in Runs : pc[p] # "evicting"

\* A harm costs answers, but not for ever: in the end every request is answered
\* from the cache.  (savePayloadIn restores a damaged payload)
PaysNoMore == <>[](\A p \in Runs : pc[p] # "asking")

-----------------------------------------------------------------------------
(* The inductive invariant behind RecordsBacked and NoFalseCorruption.      *)

\* What a power loss may bring back is backed as well.
SettledBacked ==
    \A r \in Requests : settled[r] # NoAnswer => Sound(r) /\ Sound(settled[r])

\* A reader reads, and a writer is about to publish, a backed record.
RunsBacked ==
    \A p \in Runs :
        /\ pc[p] \in {"request", "response", "saveRequest", "saveResponse", "publish"}
              => have[p] \in Answers
        /\ pc[p] \in {"request", "response"} => Sound(request[p]) /\ Sound(have[p])
        /\ pc[p] \in {"saveResponse", "publish"} => Sound(request[p])
        /\ pc[p] = "publish" => Sound(have[p])

\* Only a harm makes a reader doubt what it read.
DoubtNeedsHarm ==
    harms = 0 =>
        /\ harmed = {}
        /\ \A p \in Runs : pc[p] # "evicting" /\ (pc[p] = "response" => p \in intact)

CacheInv == TypeOK /\ RecordsBacked /\ SettledBacked /\ RunsBacked /\ DoubtNeedsHarm
=============================================================================
