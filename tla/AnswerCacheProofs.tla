-------------------------- MODULE AnswerCacheProofs --------------------------
(***************************************************************************)
(* Proofs about AnswerCache: for any number of runs, requests, answers and   *)
(* harms.                                                                   *)
(***************************************************************************)
EXTENDS AnswerCache, TLAPS

LEMMA CacheInit == Init => CacheInv
  BY CacheAssumption DEF CacheAssumption, Init, CacheInv, TypeOK, RecordsBacked, SettledBacked,
     RunsBacked, DoubtNeedsHarm, Names

\* What a step saves is whole, and what it harms is noted: a sound name stays so.
Lasting == \A n \in Names : Sound(n) => Sound(n)'

LEMMA SavedSound ==
  ASSUME TypeOK, NEW n \in Names, SavePayload(n)
  PROVE  /\ payload' \in [Names -> {"whole", "damaged", "absent"}]
         /\ synced' \subseteq Names /\ harmed' \subseteq harmed
         /\ Sound(n)' /\ Lasting
  BY DEF TypeOK, SavePayload, Sound, Lasting

\* Reading changes no file.
LEMMA ReadingStep ==
  ASSUME CacheInv, NEW p \in Runs,
         (\E r \in Requests : Begin(p, r)) \/ ReadRecord(p) \/ ReadRequest(p) \/ ReadResponse(p)
         \/ (\E a \in Answers : Accept(p, a)) \/ Unreadable(p) \/ Kill(p)
  PROVE  CacheInv'
  <1> USE CacheAssumption DEF CacheAssumption, CacheInv, TypeOK, files, Goto, Names
  <1>1. TypeOK' BY DEF Begin, ReadRecord, ReadRequest, ReadResponse, Accept, Unreadable, Kill, Harm
  <1>2. record' = record /\ settled' = settled /\ payload' = payload /\ harmed' = harmed
    BY DEF Begin, ReadRecord, ReadRequest, ReadResponse, Accept, Unreadable, Kill
  <1>3. \A n : Sound(n)' <=> Sound(n) BY <1>2 DEF Sound
  <1>4. RecordsBacked' /\ SettledBacked' BY <1>2, <1>3 DEF RecordsBacked, SettledBacked
  <1>5. RunsBacked'
    BY <1>3 DEF RunsBacked, RecordsBacked, Begin, ReadRecord, ReadRequest, ReadResponse, Accept,
              Unreadable, Kill
  <1>6. DoubtNeedsHarm'
    <2> SUFFICES ASSUME harms' = 0 PROVE DoubtNeedsHarm'
      BY DEF DoubtNeedsHarm
    <2>1. harms = 0 /\ harmed = {}
      BY DEF DoubtNeedsHarm, Begin, ReadRecord, ReadRequest, ReadResponse, Accept, Unreadable,
             Kill, Harm
    <2>2. \A n : Sound(n) => payload[n] = "whole" BY <2>1 DEF Sound
    <2> QED BY <1>2, <2>1, <2>2 DEF DoubtNeedsHarm, RunsBacked, Begin, ReadRecord, ReadRequest,
               ReadResponse, Accept, Unreadable, Kill, Harm
  <1> QED BY <1>1, <1>4, <1>5, <1>6

\* An eviction or a save replaces one file.
LEMMA WritingStep ==
  ASSUME CacheInv, NEW p \in Runs,
         Evict(p) \/ SaveRequest(p) \/ SaveResponse(p) \/ Publish(p)
  PROVE  CacheInv'
  <1> USE CacheAssumption DEF CacheAssumption, CacheInv, Goto
  <1>1. CASE Evict(p)
    BY <1>1 DEF Evict, TypeOK, RecordsBacked, SettledBacked, RunsBacked, DoubtNeedsHarm, Sound
  <1>2. CASE SaveRequest(p)
    <2>1. PICK n \in Names : n = request[p] /\ SavePayload(n)
      BY <1>2 DEF SaveRequest, TypeOK, Names
    <2>2. Sound(n)' /\ Lasting BY <2>1, SavedSound
    <2>3. TypeOK' BY <1>2, <2>1, SavedSound DEF SaveRequest, TypeOK
    <2>4. RecordsBacked' /\ SettledBacked'
      BY <1>2, <2>1, <2>2 DEF SaveRequest, RecordsBacked, SettledBacked, Lasting, TypeOK, Names
    <2>5. RunsBacked' BY <1>2, <2>1, <2>2 DEF SaveRequest, RunsBacked, Lasting, TypeOK, Names
    <2>6. DoubtNeedsHarm' BY <1>2, <2>1, SavedSound DEF SaveRequest, DoubtNeedsHarm, TypeOK
    <2> QED BY <2>3, <2>4, <2>5, <2>6
  <1>3. CASE SaveResponse(p)
    <2>1. PICK n \in Names : n = have[p] /\ SavePayload(n)
      BY <1>3 DEF SaveResponse, RunsBacked, Names
    <2>2. Sound(n)' /\ Lasting BY <2>1, SavedSound
    <2>3. TypeOK' BY <1>3, <2>1, SavedSound DEF SaveResponse, TypeOK
    <2>4. RecordsBacked' /\ SettledBacked'
      BY <1>3, <2>1, <2>2 DEF SaveResponse, RecordsBacked, SettledBacked, Lasting, TypeOK, Names
    <2>5. RunsBacked' BY <1>3, <2>1, <2>2 DEF SaveResponse, RunsBacked, Lasting, TypeOK, Names
    <2>6. DoubtNeedsHarm' BY <1>3, <2>1, SavedSound DEF SaveResponse, DoubtNeedsHarm, TypeOK
    <2> QED BY <2>3, <2>4, <2>5, <2>6
  <1>4. CASE Publish(p)
    BY <1>4 DEF Publish, TypeOK, RecordsBacked, SettledBacked, RunsBacked, DoubtNeedsHarm, Sound
  <1> QED BY <1>1, <1>2, <1>3, <1>4

\* What happens to the files from outside is noted.
LEMMA HarmStep ==
  ASSUME CacheInv,
         WriteBack \/ PowerLoss
         \/ (\E n \in Names, state \in {"damaged", "absent"} : DamagePayload(n, state))
         \/ (\E r \in Requests : RemoveRecord(r))
  PROVE  CacheInv'
  <1> USE CacheAssumption DEF CacheAssumption, CacheInv
  <1>1. CASE WriteBack
    BY <1>1 DEF WriteBack, TypeOK, RecordsBacked, SettledBacked, RunsBacked, DoubtNeedsHarm, Sound
  <1>2. CASE PowerLoss
    <2>1. TypeOK' BY <1>2 DEF PowerLoss, Harm, TypeOK
    <2>2. Lasting BY <1>2 DEF PowerLoss, Lasting, Sound, TypeOK
    <2>3. \A r \in Requests : record'[r] \in {settled[r], record[r]} /\ settled'[r] = record'[r]
      BY <1>2 DEF PowerLoss
    <2>4. RecordsBacked' /\ SettledBacked'
      BY <2>1, <2>2, <2>3 DEF RecordsBacked, SettledBacked, Lasting, TypeOK, Names
    <2>5. RunsBacked' BY <1>2 DEF PowerLoss, RunsBacked
    <2>6. DoubtNeedsHarm' BY <1>2 DEF PowerLoss, Harm, TypeOK, DoubtNeedsHarm
    <2> QED BY <2>1, <2>4, <2>5, <2>6
  <1>3. ASSUME NEW n \in Names, NEW state \in {"damaged", "absent"}, DamagePayload(n, state)
        PROVE CacheInv'
    <2>1. TypeOK' BY <1>3 DEF DamagePayload, Harm, TypeOK
    <2>2. Lasting BY <1>3 DEF DamagePayload, Lasting, Sound, TypeOK
    <2>3. RecordsBacked' /\ SettledBacked' /\ RunsBacked'
      BY <1>3, <2>2 DEF DamagePayload, RecordsBacked, SettledBacked, RunsBacked, Lasting, TypeOK, Names
    <2>4. DoubtNeedsHarm' BY <1>3 DEF DamagePayload, Harm, TypeOK, DoubtNeedsHarm
    <2> QED BY <2>1, <2>3, <2>4
  <1>4. ASSUME NEW r \in Requests, RemoveRecord(r) PROVE CacheInv'
    BY <1>4 DEF RemoveRecord, Harm, TypeOK, RecordsBacked, SettledBacked, RunsBacked, DoubtNeedsHarm, Sound
  <1> QED BY <1>1, <1>2, <1>3, <1>4

LEMMA CacheStep == CacheInv /\ [Next]_vars => CacheInv'
  <1> SUFFICES ASSUME CacheInv, [Next]_vars PROVE CacheInv'
    OBVIOUS
  <1>1. ASSUME NEW p \in Runs, Step(p) PROVE CacheInv'
    BY <1>1, ReadingStep, WritingStep DEF Step
  <1>2. ASSUME NEW p \in Runs, NEW r \in Requests, Begin(p, r) PROVE CacheInv'
    BY <1>2, ReadingStep
  <1>3. CASE WriteBack BY <1>3, HarmStep
  <1>4. CASE Harms BY <1>4, HarmStep, ReadingStep DEF Harms
  <1>5. CASE UNCHANGED vars
    BY <1>5 DEF vars, files, CacheInv, TypeOK, RecordsBacked, SettledBacked, RunsBacked,
              DoubtNeedsHarm, Sound
  <1> QED BY <1>1, <1>2, <1>3, <1>4, <1>5 DEF Next

\* Records, settled ones and those being written are backed by payloads unless
\* somebody harmed them.  (loadAcceptedCache, saveAcceptedCache)
THEOREM CacheInvariance == Spec => []CacheInv
  BY CacheInit, CacheStep, PTL DEF Spec

\* A record is backed by payloads that hold its bytes, whatever runs do at once.
THEOREM RecordSafety == Spec => []RecordsBacked
  <1>1. CacheInv => RecordsBacked BY DEF CacheInv
  <1> QED BY <1>1, CacheInvariance, PTL

\* Runs that only race each other never evict.
THEOREM EvictionNeedsHarm == Spec => []NoFalseCorruption
  <1>1. CacheInv => NoFalseCorruption BY DEF CacheInv, DoubtNeedsHarm, NoFalseCorruption
  <1> QED BY <1>1, CacheInvariance, PTL
=============================================================================
