-------------------------- MODULE AtlasWalkProofs --------------------------
(***************************************************************************)
(* For any tables, rows, requests and stages: rows recalled from one request  *)
(* show one response, a walk ends with the failure of a table of its own or   *)
(* with the interruption there was, and its files are those of a serial walk. *)
(***************************************************************************)
EXTENDS AtlasWalk, Integers, FiniteSetTheorems, WellFoundedInduction, TLAPS

Below == {ss \in Nat \X Nat : ss[1] < ss[2]}

\* Every set of positions has a first one.
LEMMA FirstExists ==
    ASSUME NEW S \in SUBSET Nat, S # {}
    PROVE  \E n \in S : \A m \in S : n <= m
<1>1. IsWellFoundedOn(Below, Nat)
  BY NatLessThanWellFounded, Zenon DEF OpToRel, Below
<1>2. \A m, n \in Nat : m < n => <<m, n>> \in Below
  BY DEF Below
<1>3. PICK n \in S : \A m \in S : ~(<<m, n>> \in Below)
  BY <1>1, WFMin, Zenon
<1>4. \A m \in S : m \in Nat /\ n \in Nat /\ ~(m < n)
  BY <1>2, <1>3
<1>. QED
  BY <1>4

LEMMA RowParts ==
    ASSUME NEW x \in Rows
    PROVE  x[1] \in Tables /\ x[2] \in DOMAIN BasisOf[x[1]] /\ Basis(x) \in Bases
<1>1. PICK t \in Tables : x \in {t} \X DOMAIN BasisOf[t]
  BY DEF Rows
<1>2. x[1] = t /\ x[2] \in DOMAIN BasisOf[t]
  BY <1>1
<1>. QED
  BY <1>1, <1>2 DEF Basis, Bases

-----------------------------------------------------------------------------
(* One response for all rows of a request.                                   *)

RecallInv == RecallTypeOK /\ OneReader

LEMMA TakeKeeps ==
    ASSUME RecallInv, NEW x \in Rows, Take(x) PROVE RecallInv'
<1>1. memo[Basis(x)] \in Keys \cup {Unknown}
  BY RowParts DEF RecallInv, RecallTypeOK
<1>2. RecallTypeOK'
  BY <1>1 DEF RecallInv, RecallTypeOK, Take, disk
<1>3. ASSUME NEW y \in Rows
      PROVE  /\ y # x => at'[y] = at[y] /\ bound'[y] = bound[y] /\ seen'[y] = seen[y]
             /\ y = x => /\ at'[y] \in {"recalling", "ready"}
                         /\ at'[y] = "recalling" <=> bound'[y] \in Keys
  BY <1>1, RecallAssumption DEF Take, RecallInv, RecallTypeOK
<1>4. loading' = loading /\ cache' = cache
  BY DEF Take
<1>5. OneReader'
  BY <1>3, <1>4 DEF RecallInv, OneReader
<1>. QED
  BY <1>2, <1>5 DEF RecallInv

\* The row that loads is the only one: nobody was loading the request.
LEMMA LoadKeeps ==
    ASSUME RecallInv, NEW x \in Rows, Load(x) PROVE RecallInv'
<1>1. bound[x] \in Keys
  BY DEF Load, Loads, RecallInv, OneReader
<1>2. RecallTypeOK'
  BY <1>1 DEF RecallInv, RecallTypeOK, Load, disk
<1>3. ASSUME NEW y \in Rows PROVE at'[y] = IF y = x THEN "reading" ELSE at[y]
  BY DEF Load, RecallInv, RecallTypeOK
<1>4. /\ loading' = loading \cup {bound[x]} /\ cache' = cache /\ bound' = bound /\ seen' = seen
      /\ bound[x] \notin loading /\ cache[bound[x]] = Unread
  BY DEF Load, Loads
<1>5. OneReader'
  BY <1>1, <1>3, <1>4 DEF RecallInv, OneReader
<1>. QED
  BY <1>2, <1>5 DEF RecallInv

LEMMA WaitingKeeps ==
    ASSUME RecallInv, NEW x \in Rows, Wait(x) \/ Wake(x) PROVE RecallInv'
<1>1. RecallTypeOK'
  BY DEF RecallInv, RecallTypeOK, Wait, Wake, disk
<1>2. /\ at[x] \in {"recalling", "waiting"} /\ at'[x] \in {"recalling", "waiting"}
      /\ \A y \in Rows : y # x => at'[y] = at[y]
  BY DEF Wait, Wake, RecallInv, RecallTypeOK
<1>3. loading' = loading /\ cache' = cache /\ bound' = bound /\ seen' = seen
  BY DEF Wait, Wake
<1>4. OneReader'
  BY <1>2, <1>3 DEF RecallInv, OneReader
<1>. QED
  BY <1>1, <1>4 DEF RecallInv

LEMMA ReadKeeps ==
    ASSUME RecallInv, NEW x \in Rows, Read(x) PROVE RecallInv'
<1>1. bound[x] \in Keys
  BY DEF Read, RecallInv, OneReader
<1>2. record[bound[x]] \in Responses \cup NoResponse /\ record[bound[x]] # Unread
  BY <1>1 DEF RecallInv, RecallTypeOK, Responses, NoResponse, Unread
<1>3. RecallTypeOK'
  BY <1>2 DEF RecallInv, RecallTypeOK, Read, disk
<1>4. ASSUME NEW y \in Rows
      PROVE  /\ at'[y] = IF y = x THEN "storing" ELSE at[y]
             /\ seen'[y] = IF y = x THEN record[bound[x]] ELSE seen[y]
  BY DEF Read, RecallInv, RecallTypeOK
<1>5. loading' = loading /\ cache' = cache /\ bound' = bound /\ at[x] = "reading"
  BY DEF Read
<1>6. OneReader'
  BY <1>2, <1>4, <1>5 DEF RecallInv, OneReader
<1>. QED
  BY <1>3, <1>6 DEF RecallInv

\* Nobody else was reading what is stored, and nobody had it.
LEMMA StoreKeeps ==
    ASSUME RecallInv, NEW x \in Rows, Store(x) PROVE RecallInv'
<1>1. at[x] = "storing" /\ bound[x] \in Keys /\ cache[bound[x]] = Unread /\ seen[x] # Unread
  BY DEF Store, RecallInv, OneReader
<1>2. seen[x] \in Responses \cup NoResponse
  BY <1>1 DEF RecallInv, RecallTypeOK
<1>3. RecallTypeOK'
  BY <1>1, <1>2 DEF RecallInv, RecallTypeOK, Store, NoLonger, disk
<1>4. ASSUME NEW y \in Rows PROVE at'[y] = IF y = x THEN "ready" ELSE at[y]
  BY DEF Store, RecallInv, RecallTypeOK
<1>5. ASSUME NEW k \in Keys PROVE cache'[k] = IF k = bound[x] THEN seen[x] ELSE cache[k]
  BY DEF Store, RecallInv, RecallTypeOK
<1>6. loading' = loading \ {bound[x]} /\ bound' = bound /\ seen' = seen
  BY DEF Store, NoLonger
<1>7. ASSUME NEW y \in Rows, at[y] \in {"reading", "storing"}, y # x
      PROVE  bound[y] # bound[x] /\ bound[y] \in Keys
  BY <1>1, <1>7 DEF RecallInv, OneReader
<1>8. ASSUME NEW y \in Rows, at[y] = "ready", bound[y] \in Keys
      PROVE  bound[y] # bound[x]
  BY <1>1, <1>8 DEF RecallInv, OneReader
<1>9. OneReader'
  BY <1>1, <1>4, <1>5, <1>6, <1>7, <1>8 DEF RecallInv, OneReader
<1>. QED
  BY <1>3, <1>9 DEF RecallInv

LEMMA RecallKeeps ==
    ASSUME RecallInv, NEW x \in Rows, Recall(x) PROVE RecallInv'
<1>1. bound[x] \in Keys
  BY DEF Recall, RecallInv, OneReader
<1>2. RecallTypeOK'
  BY <1>1 DEF RecallInv, RecallTypeOK, Recall, disk
<1>3. ASSUME NEW y \in Rows
      PROVE  /\ at'[y] = IF y = x THEN "ready" ELSE at[y]
             /\ seen'[y] = IF y = x THEN cache[bound[x]] ELSE seen[y]
  BY DEF Recall, RecallInv, RecallTypeOK
<1>4. loading' = loading /\ cache' = cache /\ bound' = bound /\ at[x] = "recalling" /\ cache[bound[x]] # Unread
  BY DEF Recall
<1>5. OneReader'
  BY <1>1, <1>3, <1>4 DEF RecallInv, OneReader
<1>. QED
  BY <1>2, <1>5 DEF RecallInv

LEMMA PrepareKeeps ==
    ASSUME RecallInv, NEW x \in Rows, Prepare(x) PROVE RecallInv'
  BY TakeKeeps, LoadKeeps, WaitingKeeps, ReadKeeps, StoreKeeps, RecallKeeps DEF Prepare

\* Whatever becomes of the tables, the memos and the records, a row keeps what it saw.
LEMMA RowsKept ==
    ASSUME RecallTypeOK', OneReader, UNCHANGED rows PROVE OneReader'
  BY DEF OneReader, rows

LEMMA StartKeeps ==
    ASSUME RecallInv, NEW ts, StartTables(ts), UNCHANGED <<disk, rows, known>>
    PROVE  RecallInv'
<1>1. RecallTypeOK'
  BY DEF RecallInv, RecallTypeOK, StartTables, disk, rows
<1>. QED
  BY <1>1, RowsKept DEF RecallInv

LEMMA TableKeeps ==
    ASSUME RecallInv, NEW t \in Tables, AskMissing(t) \/ Break(t) \/ Cut(t)
    PROVE  RecallInv'
<1>1. RecallTypeOK' /\ UNCHANGED rows
  BY DEF RecallInv, RecallTypeOK, AskMissing, Break, Cut, disk, rows
<1>. QED
  BY <1>1, RowsKept DEF RecallInv

\* The row asked for a missing row is missing itself, and has its basis.
LEMMA AskerIs ==
    ASSUME NEW t \in Tables, NEW x \in Missing(t)
    PROVE  Asker(x) \in Missing(t) /\ Basis(Asker(x)) = Basis(x)
<1>. DEFINE Same == {y \in Missing(t) : Basis(y) = Basis(x)}
<1>1. x \in Same /\ x[1] = t
  BY DEF Missing, RowsIn
<1>2. \A y \in Same : y \in Rows /\ y[2] \in Nat
  <2>1. ASSUME NEW y \in Same PROVE y \in Rows /\ y[2] \in DOMAIN BasisOf[y[1]] /\ y[1] \in Tables
    BY RowParts DEF Missing, RowsIn
  <2>. QED
    BY <2>1, RecallAssumption
<1>3. PICK n \in {y[2] : y \in Same} : \A m \in {y[2] : y \in Same} : n <= m
  BY <1>1, <1>2, FirstExists
<1>4. PICK y \in Same : y[2] = n
  OBVIOUS
<1>5. /\ y \in Missing(x[1]) /\ Basis(y) = Basis(x)
      /\ \A z \in Missing(x[1]) : Basis(z) = Basis(x) => y[2] <= z[2]
  BY <1>1, <1>3, <1>4
<1>. QED
  BY <1>1, <1>5 DEF Asker

LEMMA AnswerKeeps ==
    ASSUME RecallInv, NEW t \in Tables, Answer(t) PROVE RecallInv'
<1>1. PICK fresh : /\ Bind(t, fresh)
                   /\ \A k \in Asked(t) : fresh[k] \in Responses \cup NoResponse
  <2>1. CASE Missing(t) = {} /\ Bind(t, << >>)
    BY <2>1 DEF Asked
  <2>2. CASE \E fresh \in [Asked(t) -> Kinds(t)] : Bind(t, fresh)
    BY <2>2 DEF Kinds, Responses, NoResponse
  <2>. QED
    BY <2>1, <2>2 DEF Answer
<1>2. UNCHANGED <<others, rows>>
  BY DEF Answer
<1>3. known' \subseteq Rows
  BY <1>1 DEF Bind, RowsIn, RecallInv, RecallTypeOK
<1>4. memo' \in [Bases -> Keys \cup {Unknown}]
  <2>1. Asked(t) \subseteq Rows
    BY AskerIs DEF Asked, Missing, RowsIn
  <2>. DEFINE remembered == {x \in Asked(t) : fresh[x] \in Responses /\ Basis(x) \notin Unsaved}
  <2>2. ASSUME NEW b \in Bases, \E x \in remembered : Basis(x) = b
        PROVE  (CHOOSE x \in remembered : Basis(x) = b) \in Rows
    BY <2>1, <2>2
  <2>. QED
    BY <1>1, <2>2 DEF Bind, Keys, RecallInv, RecallTypeOK
<1>5. table' \in [Tables -> {"todo", "preparing", "asking", "done", "failed", "canceled"}]
  BY <1>1 DEF Bind, RecallInv, RecallTypeOK
<1>6. record' \in [Keys -> Responses \cup NoResponse]
  BY <1>1 DEF Bind, RecallInv, RecallTypeOK
<1>7. RecallTypeOK'
  BY <1>2, <1>3, <1>4, <1>5, <1>6 DEF RecallInv, RecallTypeOK, rows
<1>. QED
  BY <1>2, <1>7, RowsKept DEF RecallInv

LEMMA OthersKeep ==
    ASSUME RecallInv, Others PROVE RecallInv'
<1>1. RecallTypeOK' /\ UNCHANGED rows
  BY DEF RecallInv, RecallTypeOK, Others, rows, Keys
<1>. QED
  BY <1>1, RowsKept DEF RecallInv

LEMMA RecallStart == Init => RecallInv
<1>1. RecallInit => RecallTypeOK
  BY RecallAssumption DEF RecallInit, RecallTypeOK, Responses, NoResponse, Keys
<1>2. RecallInit => OneReader
  BY DEF RecallInit, OneReader
<1>. QED
  BY <1>1, <1>2 DEF Init, RecallInv

LEMMA RecallNext == RecallInv /\ [Next]_vars => RecallInv'
<1>. SUFFICES ASSUME RecallInv, [Next]_vars PROVE RecallInv'
  OBVIOUS
<1>1. ASSUME NEW s \in Stages, BeginStage(s) PROVE RecallInv'
  BY <1>1, StartKeeps DEF BeginStage
<1>2. ASSUME NEW x \in Rows, PrepareRow(x) PROVE RecallInv'
  BY <1>2, PrepareKeeps DEF PrepareRow
<1>3. ASSUME NEW t \in Tables, Ask(t) \/ Answered(t) \/ Stopped(t) PROVE RecallInv'
  BY <1>3, TableKeeps, AnswerKeeps DEF Ask, Answered, Stopped
<1>4. ASSUME UNCHANGED recall PROVE RecallInv'
  BY <1>4 DEF recall, disk, rows, RecallInv, RecallTypeOK, OneReader
<1>5. ASSUME (\E s \in Stages : EndStage(s)) \/ Join \/ SaveTables \/ PersistKnowledge \/ Return
             \/ Interrupt \/ UNCHANGED vars
      PROVE  UNCHANGED recall
  BY <1>5 DEF EndStage, Join, SaveTables, PersistKnowledge, Return, Interrupt, vars
<1>6. ASSUME Elsewhere PROVE RecallInv'
  BY <1>6, OthersKeep DEF Elsewhere
<1>. QED
  BY <1>1, <1>2, <1>3, <1>4, <1>5, <1>6 DEF Next, Step

\* The types of a reading's rows, and that one row reads a response for all.
THEOREM RecallInvariance == Spec => []RecallInv
  BY RecallStart, RecallNext, PTL DEF Spec

\* Rows recalled from one request show one response, whoever replaces it meanwhile.
THEOREM RowSafety == Spec => []RowsOfOneResponse
<1>1. RecallInv => RowsOfOneResponse
  BY DEF RecallInv, OneReader, RecallTypeOK, RowsOfOneResponse
<1>. QED
  BY <1>1, RecallInvariance, PTL

-----------------------------------------------------------------------------
(* What stopped a walk.                                                      *)

WalkInv == TypeOK /\ StopsExplained /\ ErrorExplained

\* The constants: a table has one stage.
LEMMA TableStage ==
    ASSUME NEW t \in Tables
    PROVE  StageOf[t] \in Stages /\ t \in ToSet(TablesOf[StageOf[t]])
  BY WalkAssumption DEF StageOf

LEMMA StageTable ==
    ASSUME NEW s \in Stages, NEW t \in ToSet(TablesOf[s])
    PROVE  t \in Tables /\ StageOf[t] = s
<1>1. TablesOf[s] \in Seq(Tables)
  BY WalkAssumption
<1>2. t \in Tables
  BY <1>1 DEF ToSet
<1>. QED
  BY <1>2, TableStage, WalkAssumption

LEMMA StageNames ==
    /\ Nobody \notin Stages /\ "interrupted" \notin Stages /\ Nobody \notin Tables
    /\ {"running", "complete", "unsaved"} \cap Stages = {}
  BY WalkAssumption

\* The table whose error a stage returns has one; where it is a cancellation, no
\* table of the stage failed, so the first was canceled from outside.
LEMMA ReportedStopped ==
    ASSUME TypeOK, StopsExplained, NEW s \in Stages,
           \A t \in ToSet(TablesOf[s]) : table[t] \in {"done", "failed", "canceled"},
           \E t \in ToSet(TablesOf[s]) : table[t] # "done"
    PROVE  /\ Reported(s) \in Tables /\ StageOf[Reported(s)] = s
           /\ \/ table[Reported(s)] = "failed"
              \/ table[Reported(s)] = "canceled" /\ (interrupted \/ failure # Nobody)
<1>. DEFINE own == TablesOf[s]
            failed == {n \in DOMAIN own : table[own[n]] = "failed"}
            stopped == {n \in DOMAIN own : table[own[n]] \in {"failed", "canceled"}}
            among == IF failed # {} THEN failed ELSE stopped
            n0 == CHOOSE n \in among : \A m \in among : n <= m
<1>1. PICK u \in ToSet(TablesOf[s]) : table[u] \in {"failed", "canceled"}
  OBVIOUS
<1>2. first[s] # Nobody /\ first[s] \in Tables
  BY <1>1, StageTable DEF StopsExplained, TypeOK
<1>3. CASE s \in FirstReported
  BY <1>2, <1>3 DEF Reported, StopsExplained
<1>4. CASE s \notin FirstReported
  <2>1. Reported(s) = own[n0]
    BY <1>4 DEF Reported
  <2>2. DOMAIN own \subseteq Nat
    BY WalkAssumption
  <2>3. among # {} /\ among \subseteq DOMAIN own
    BY <1>1 DEF ToSet
  <2>4. n0 \in among
    BY <2>2, <2>3, FirstExists
  <2>5. n0 \in DOMAIN own /\ own[n0] \in ToSet(TablesOf[s])
    BY <2>3, <2>4 DEF ToSet
  <2>6. own[n0] \in Tables /\ StageOf[own[n0]] = s
    BY <2>5, StageTable
  <2>7. CASE failed # {}
    <3>1. table[own[n0]] = "failed"
      BY <2>4, <2>7
    <3>. QED
      BY <2>1, <2>6, <3>1
  <2>8. CASE failed = {}
    <3>1. table[own[n0]] = "canceled"
      <4>1. n0 \in stopped /\ n0 \notin failed
        BY <2>4, <2>8
      <4>. QED
        BY <4>1
    <3>2. first[s] \in ToSet(TablesOf[s])
      BY <1>2, TableStage DEF StopsExplained
    <3>3. table[first[s]] # "failed"
      BY <2>8, <3>2 DEF ToSet
    <3>4. interrupted \/ failure # Nobody
      BY <1>2, <3>3 DEF StopsExplained
    <3>. QED
      BY <2>1, <2>6, <3>1, <3>4
  <2>. QED
    BY <2>7, <2>8
<1>. QED
  BY <1>3, <1>4

LEMMA ErrorKinds ==
    ASSUME TypeOK, StopsExplained, NEW s \in Stages,
           \A t \in ToSet(TablesOf[s]) : table[t] \in {"done", "failed", "canceled"},
           \E t \in ToSet(TablesOf[s]) : table[t] # "done"
    PROVE  \/ Error(s) = s /\ \E t \in Tables : table[t] = "failed" /\ StageOf[t] = s
           \/ Error(s) = "interrupted" /\ (interrupted \/ failure # Nobody)
  BY ReportedStopped DEF Error

LEMMA WalkStart == Init => WalkInv
<1>. SUFFICES ASSUME Init PROVE WalkInv
  OBVIOUS
<1>1. TypeOK
  <2>1. RecallTypeOK
    BY RecallStart DEF RecallInv
  <2>2. moved \in BOOLEAN /\ interrupted \in BOOLEAN
    BY Zenon DEF Init
  <2>. QED
    BY <2>1, <2>2 DEF Init, TypeOK
<1>2. StopsExplained
  <2>1. /\ \A s \in Stages : first[s] = Nobody
        /\ \A t \in Tables : table[t] = "todo"
        /\ failure = Nobody /\ saving = "nothing"
    BY DEF Init, RecallInit
  <2>2. Nobody # "interrupted"
    BY DEF Nobody
  <2>. QED
    BY <2>1, <2>2, StageNames DEF StopsExplained
<1>3. ErrorExplained
  BY StageNames DEF Init, ErrorExplained
<1>. QED
  BY <1>1, <1>2, <1>3 DEF WalkInv

LEMMA BeginKeeps ==
    ASSUME WalkInv, RecallTypeOK', NEW s \in Stages, BeginStage(s) PROVE WalkInv'
<1>1. TypeOK'
  BY DEF BeginStage, WalkInv, TypeOK, files
<1>2. ASSUME NEW t \in ToSet(TablesOf[s])
      PROVE  table[t] = "todo" /\ t \in Tables /\ StageOf[t] = s
  BY <1>2, StageTable DEF BeginStage, WalkInv, StopsExplained
<1>3. ASSUME NEW t \in Tables
      PROVE  /\ table[t] # "todo" => table'[t] = table[t]
             /\ table'[t] \in {"failed", "canceled"} => table'[t] = table[t]
             /\ table'[t] # table[t] => StageOf[t] = s
  BY <1>2 DEF BeginStage, StartTables
<1>4. ASSUME NEW r \in Stages PROVE stage'[r] = IF r = s THEN "running" ELSE stage[r]
  BY DEF BeginStage, WalkInv, TypeOK
<1>5. UNCHANGED <<phase, first, failure, saving, outcome, interrupted>>
  BY DEF BeginStage, files
<1>6. StopsExplained'
  BY <1>3, <1>4, <1>5, TableStage DEF WalkInv, TypeOK, StopsExplained, Forked
<1>7. ErrorExplained'
  BY <1>3, <1>5 DEF WalkInv, ErrorExplained
<1>. QED
  BY <1>1, <1>6, <1>7 DEF WalkInv

\* A table that has not failed goes on.
LEMMA GoesOnKeeps ==
    ASSUME WalkInv, RecallTypeOK', UNCHANGED <<walk, files, interrupted>> \/
               (\E t \in Tables : Answered(t)),
           \A t \in Tables : table'[t] = table[t] \/
               (table[t] \notin {"todo", "failed", "canceled"} /\ table'[t] \in {"asking", "done"})
    PROVE  WalkInv'
<1>1. UNCHANGED <<phase, stage, first, failure, tables, saving, files, interrupted>>
  BY DEF walk, Answered
<1>2. moved' \in BOOLEAN
  BY DEF walk, Answered, WalkInv, TypeOK
<1>3. TypeOK'
  BY <1>1, <1>2 DEF WalkInv, TypeOK, files
<1>4. StopsExplained'
  BY <1>1 DEF WalkInv, TypeOK, StopsExplained, Forked
<1>5. ErrorExplained'
  BY <1>1 DEF WalkInv, ErrorExplained, files
<1>. QED
  BY <1>3, <1>4, <1>5 DEF WalkInv

LEMMA StoppedKeeps ==
    ASSUME WalkInv, RecallTypeOK', NEW t \in Tables, Stopped(t) PROVE WalkInv'
<1>. DEFINE s == StageOf[t]
<1>1. s \in Stages
  BY TableStage
<1>2. /\ table[t] \in {"preparing", "asking"}
      /\ \/ table'[t] = "failed"
         \/ table'[t] = "canceled" /\ ContextEnded(s)
      /\ \A u \in Tables : u # t => table'[u] = table[u]
  BY DEF Stopped, Break, Cut, Prepared, WalkInv, TypeOK, RecallTypeOK
<1>3. \A r \in Stages : first'[r] = IF r = s /\ first[s] = Nobody THEN t ELSE first[r]
  BY <1>1 DEF Stopped, WalkInv, TypeOK
<1>4. UNCHANGED <<phase, stage, failure, tables, moved, saving, files, interrupted>>
  BY DEF Stopped
<1>5. TypeOK'
  <2>1. first' \in [Stages -> Tables \cup {Nobody}]
    BY <1>1 DEF Stopped, WalkInv, TypeOK
  <2>. QED
    BY <1>4, <2>1 DEF WalkInv, TypeOK, files
<1>6. ASSUME NEW r \in Stages, first'[r] # Nobody
      PROVE  /\ StageOf[first'[r]] = r
             /\ \/ table'[first'[r]] = "failed"
                \/ table'[first'[r]] = "canceled" /\ (interrupted \/ failure # Nobody)
  <2>1. CASE r = s /\ first[s] = Nobody
    BY <1>2, <1>3, <2>1 DEF ContextEnded
  <2>2. CASE ~(r = s /\ first[s] = Nobody)
    <3>1. first'[r] = first[r] /\ first[r] \in Tables
      BY <1>3, <1>6, <2>2 DEF WalkInv, TypeOK
    <3>2. first[r] # t
      BY <1>2, <1>6, <3>1 DEF WalkInv, StopsExplained
    <3>. QED
      BY <1>2, <1>6, <3>1, <3>2 DEF WalkInv, StopsExplained
  <2>. QED
    BY <2>1, <2>2
<1>7. ASSUME NEW u \in Tables, table'[u] \in {"failed", "canceled"}
      PROVE  first'[StageOf[u]] # Nobody
  BY <1>1, <1>2, <1>3, <1>7, TableStage, StageNames DEF WalkInv, StopsExplained
<1>8. \A u \in Tables : table'[u] # "todo" => stage'[StageOf[u]] # "todo"
  BY <1>2, <1>4 DEF WalkInv, StopsExplained
<1>9. ASSUME NEW r, \E u \in Tables : table[u] = "failed" /\ StageOf[u] = r
      PROVE  \E u \in Tables : table'[u] = "failed" /\ StageOf[u] = r
  BY <1>2, <1>9
<1>10. StopsExplained'
  BY <1>4, <1>6, <1>7, <1>8, <1>9 DEF WalkInv, StopsExplained, Forked
<1>11. ErrorExplained'
  BY <1>4, <1>9 DEF WalkInv, ErrorExplained, files
<1>. QED
  BY <1>5, <1>10, <1>11 DEF WalkInv

\* A failed stage of a fork leaves the first failure; a failed serial one ends the walk.
LEMMA EndStageKeeps ==
    ASSUME WalkInv, RecallTypeOK', NEW s \in Stages, EndStage(s) PROVE WalkInv'
<1>1. /\ UNCHANGED <<recall, phase, first, moved, printed, saved, interrupted>>
      /\ outcome = "running" /\ saving = "nothing" /\ stage[s] = "running"
  BY DEF EndStage
<1>2. table' = table
  BY <1>1 DEF recall
<1>3. stage' \in [Stages -> {"todo", "running", "done", "failed"}] /\ \A r \in Stages : stage'[r] = "todo" => stage[r] = "todo"
  BY DEF EndStage, WalkInv, TypeOK
<1>4. CASE \A t \in ToSet(TablesOf[s]) : table[t] = "done"
  <2>1. failure' = failure /\ outcome' = outcome /\ saving' \in {saving, "tables"} /\ (saving' # saving => ~Forked)
    BY <1>4 DEF EndStage
  <2>2. TypeOK'
    BY <1>1, <1>3, <2>1 DEF WalkInv, TypeOK
  <2>3. StopsExplained'
    BY <1>1, <1>2, <1>3, <2>1, TableStage DEF WalkInv, StopsExplained, Forked
  <2>. QED
    BY <1>1, <1>2, <2>1, <2>2, <2>3 DEF WalkInv, ErrorExplained
<1>5. CASE \E t \in ToSet(TablesOf[s]) : table[t] # "done"
  <2>1. /\ saving' = saving
        /\ \/ Forked /\ failure' = FirstFailure(s) /\ outcome' = outcome
           \/ ~Forked /\ failure' = failure /\ outcome' = Error(s)
    BY <1>5 DEF EndStage
  <2>2. \/ Error(s) = s /\ \E t \in Tables : table[t] = "failed" /\ StageOf[t] = s
        \/ Error(s) = "interrupted" /\ (interrupted \/ failure # Nobody)
    BY <1>5, ErrorKinds DEF EndStage, WalkInv
  <2>3. failure' \in Stages \cup {"interrupted", Nobody} /\ outcome' \in Stages \cup {"running", "complete", "interrupted", "unsaved"}
    BY <2>1, <2>2 DEF FirstFailure, WalkInv, TypeOK
  <2>4. TypeOK'
    BY <1>1, <1>3, <2>1, <2>3 DEF WalkInv, TypeOK
  <2>5. /\ failure' \in Stages => \E t \in Tables : table[t] = "failed" /\ StageOf[t] = failure'
        /\ failure' = "interrupted" => interrupted
        /\ failure' # Nobody => Forked
    BY <2>1, <2>2, StageNames DEF FirstFailure, WalkInv, StopsExplained
  <2>6. failure' = Nobody => failure = Nobody
    BY <2>1 DEF FirstFailure
  <2>7. StopsExplained'
    BY <1>1, <1>2, <1>3, <2>1, <2>5, <2>6, TableStage DEF WalkInv, StopsExplained, Forked
  <2>8. ErrorExplained'
    BY <1>1, <1>2, <2>1, <2>2, StageNames DEF WalkInv, StopsExplained, ErrorExplained
  <2>. QED
    BY <2>4, <2>7, <2>8 DEF WalkInv
<1>. QED
  BY <1>4, <1>5

\* What fork returns and what saveProgress does.
LEMMA WalkerKeeps ==
    ASSUME WalkInv, RecallTypeOK', Join \/ SaveTables \/ PersistKnowledge \/ Return PROVE WalkInv'
<1>1. UNCHANGED <<recall, stage, first, failure, interrupted>>
  BY DEF Join, SaveTables, PersistKnowledge, Return, walk
<1>2. table' = table
  BY <1>1 DEF recall
<1>3. known \subseteq Rows
  BY DEF WalkInv, TypeOK, RecallTypeOK
<1>4. saved' \subseteq Rows /\ moved' \in BOOLEAN /\ phase' \in Nat \ {0} /\ saving' \in {"nothing", "tables", "knowledge"}
  <2>. USE DEF WalkInv, TypeOK
  <2>1. CASE Join
    BY <2>1 DEF Join
  <2>2. CASE SaveTables
    BY <2>2 DEF SaveTables
  <2>3. CASE PersistKnowledge
    <3>1. phase + 1 \in Nat \ {0}
      OBVIOUS
    <3>2. NextPhase \in Nat \ {0}
      BY <3>1 DEF NextPhase
    <3>. QED
      BY <1>3, <2>3, <3>2 DEF PersistKnowledge
  <2>4. CASE Return
    BY <2>4 DEF Return, walk
  <2>. QED
    BY <2>1, <2>2, <2>3, <2>4
<1>5. outcome' # outcome => outcome' \in {"unsaved", "complete"} \/ (Join /\ outcome' = failure /\ failure # Nobody)
  BY DEF Join, SaveTables, PersistKnowledge, Return
<1>6. TypeOK'
  BY <1>1, <1>4, <1>5 DEF WalkInv, TypeOK
<1>7. failure # Nobody => phase' = phase
  BY DEF Join, SaveTables, PersistKnowledge, Return, walk, WalkInv, StopsExplained
<1>8. saving' # "nothing" => failure = Nobody
  BY DEF Join, SaveTables, PersistKnowledge, Return, walk, WalkInv, StopsExplained
<1>9. StopsExplained'
  BY <1>1, <1>2, <1>7, <1>8 DEF WalkInv, StopsExplained, Forked
<1>10. ErrorExplained'
  BY <1>1, <1>2, <1>5, StageNames DEF WalkInv, StopsExplained, ErrorExplained
<1>. QED
  BY <1>6, <1>9, <1>10 DEF WalkInv

LEMMA OutsideKeeps ==
    ASSUME WalkInv, RecallTypeOK', Interrupt \/ Elsewhere \/ UNCHANGED vars PROVE WalkInv'
<1>1. table' = table /\ UNCHANGED <<walk, files>> /\ interrupted' \in BOOLEAN /\ (interrupted => interrupted')
  BY DEF Interrupt, Elsewhere, Others, recall, vars, WalkInv, TypeOK
<1>2. TypeOK'
  BY <1>1 DEF WalkInv, TypeOK, walk, files
<1>3. StopsExplained'
  BY <1>1 DEF WalkInv, StopsExplained, Forked, walk
<1>4. ErrorExplained'
  BY <1>1 DEF WalkInv, ErrorExplained, files
<1>. QED
  BY <1>2, <1>3, <1>4 DEF WalkInv

LEMMA WalkNext == WalkInv /\ RecallTypeOK' /\ [Next]_vars => WalkInv'
<1>. SUFFICES ASSUME WalkInv, RecallTypeOK', [Next]_vars PROVE WalkInv'
  OBVIOUS
<1>1. ASSUME NEW x \in Rows, PrepareRow(x) PROVE WalkInv'
  <2>1. table' = table /\ UNCHANGED <<walk, files, interrupted>>
    BY <1>1 DEF PrepareRow, Prepare, Take, Load, Wait, Wake, Read, Store, Recall
  <2>. QED
    BY <2>1, GoesOnKeeps
<1>2. ASSUME NEW t \in Tables, Ask(t) PROVE WalkInv'
  <2>1. table[t] = "preparing" /\ table' = [table EXCEPT ![t] = "asking"] /\ UNCHANGED <<walk, files, interrupted>>
    BY <1>2 DEF Ask, AskMissing, Prepared
  <2>2. \A u \in Tables : table'[u] = IF u = t THEN "asking" ELSE table[u]
    BY <2>1 DEF WalkInv, TypeOK, RecallTypeOK
  <2>. QED
    BY <2>1, <2>2, GoesOnKeeps
<1>3. ASSUME NEW t \in Tables, Answered(t) PROVE WalkInv'
  <2>1. table[t] \in {"preparing", "asking"} /\ table' = [table EXCEPT ![t] = "done"]
    BY <1>3 DEF Answered, Answer, Bind, Prepared
  <2>2. \A u \in Tables : table'[u] = IF u = t THEN "done" ELSE table[u]
    BY <2>1 DEF WalkInv, TypeOK, RecallTypeOK
  <2>. QED
    BY <1>3, <2>1, <2>2, GoesOnKeeps
<1>. QED
  BY <1>1, <1>2, <1>3, BeginKeeps, StoppedKeeps, EndStageKeeps, WalkerKeeps, OutsideKeeps
  DEF Next, Step

\* The walk's inductive invariant: types, and why each table, fork and walk stopped.
THEOREM WalkInvariance == Spec => []WalkInv
<1>1. RecallInv' => RecallTypeOK'
  BY DEF RecallInv
<1>. QED
  BY <1>1, WalkStart, WalkNext, RecallInvariance, PTL DEF Spec

\* The walk returns a stage's own failure or the interruption there was, never a
\* cancellation that a failure caused.
THEOREM ErrorSafety == Spec => []ErrorExplained
<1>1. WalkInv => ErrorExplained
  BY DEF WalkInv
<1>. QED
  BY <1>1, WalkInvariance, PTL

-----------------------------------------------------------------------------
(* The order of the tables: a flattened sequence grows by one of its members  *)
(* after another.  The recursion it is defined by is shown to have a solution; *)
(* an induction is over the set of naturals for which a fact holds.           *)

\* Induction, of a set: it has all naturals when 0 is in it and each next one.
LEMMA AllNaturals ==
  ASSUME NEW S \in SUBSET Nat, 0 \in S, \A n \in S : n + 1 \in S
  PROVE  S = Nat
  <1> SUFFICES ASSUME Nat \ S # {} PROVE FALSE
    OBVIOUS
  <1>1. PICK x \in Nat \ S : \A y \in Nat \ S : x <= y
    BY FirstExists
  <1>2. x - 1 \in Nat /\ x - 1 \in S
    BY <1>1
  <1> QED BY <1>1, <1>2

Iterates(f, b, step) == f[0] = b /\ \A n \in Nat : f[n+1] = step[<<n+1, f[n]>>]

\* Recursion: a first value and a step make a function of all naturals.
LEMMA RecursionExists ==
  ASSUME NEW T, NEW b \in T, NEW step \in [Nat \X T -> T]
  PROVE  \E f \in [Nat -> T] : Iterates(f, b, step)
  <1> DEFINE Good(f, n) == f[0] = b /\ \A m \in 0..n-1 : f[m+1] = step[<<m+1, f[m]>>]
             Reached == {n \in Nat : \E f \in [0..n -> T] : Good(f, n)}
             Agreed == {n \in Nat : \A m \in Nat : n <= m =>
                           \A f \in [0..n -> T], g \in [0..m -> T] :
                              Good(f, n) /\ Good(g, m) => f[n] = g[n]}
  <1>1. Reached = Nat
    <2>1. 0 \in Reached
      <3>1. [m \in 0..0 |-> b] \in [0..0 -> T] /\ Good([m \in 0..0 |-> b], 0)
        OBVIOUS
      <3> QED BY <3>1
    <2>2. ASSUME NEW n \in Reached PROVE n + 1 \in Reached
      <3>1. PICK f \in [0..n -> T] : Good(f, n)
        OBVIOUS
      <3> DEFINE g == [m \in 0..n+1 |-> IF m = n + 1 THEN step[<<n+1, f[n]>>] ELSE f[m]]
      <3>2. n \in Nat /\ f[n] \in T
        OBVIOUS
      <3>3. step[<<n+1, f[n]>>] \in T
        BY <3>2
      <3>4. g \in [0..n+1 -> T]
        BY <3>2, <3>3
      <3>5. g[0] = b
        BY <3>1, <3>2
      <3>6. ASSUME NEW m \in 0..n PROVE g[m+1] = step[<<m+1, g[m]>>]
        <4>1. CASE m = n
          <5>1. g[n+1] = step[<<n+1, f[n]>>] /\ g[n] = f[n]
            BY <3>2
          <5> QED BY <4>1, <5>1
        <4>2. CASE m # n
          <5>1. m \in 0..n-1 /\ m + 1 \in 0..n /\ m + 1 # n + 1 /\ m # n + 1
            BY <3>2, <4>2
          <5>2. g[m] = f[m] /\ g[m+1] = f[m+1]
            BY <3>2, <5>1
          <5> QED BY <3>1, <5>1, <5>2
        <4> QED BY <4>1, <4>2
      <3>7. Good(g, n+1)
        <4>1. 0..(n+1)-1 = 0..n
          BY <3>2
        <4> HIDE DEF g
        <4> QED BY <3>5, <3>6, <4>1
      <3> HIDE DEF Good, g
      <3> QED BY <3>2, <3>4, <3>7
    <2> HIDE DEF Good
    <2>3. Reached \in SUBSET Nat
      OBVIOUS
    <2> HIDE DEF Reached
    <2> QED BY <2>1, <2>2, <2>3, AllNaturals
  <1>2. Agreed = Nat
    <2>1. 0 \in Agreed
      OBVIOUS
    <2>2. ASSUME NEW n \in Agreed PROVE n + 1 \in Agreed
      <3>0. n \in Nat /\ n + 1 \in Nat
        OBVIOUS
      <3> SUFFICES ASSUME NEW m \in Nat, n + 1 <= m, NEW f \in [0..n+1 -> T], NEW g \in [0..m -> T],
                          Good(f, n+1), Good(g, m)
                   PROVE  f[n+1] = g[n+1]
        BY <3>0
      <3> DEFINE h == [k \in 0..n |-> f[k]]
      <3>1. h \in [0..n -> T] /\ Good(h, n) /\ h[n] = f[n]
        <4>1. h \in [0..n -> T] /\ \A k \in 0..n : h[k] = f[k]
          OBVIOUS
        <4>2. \A k \in 0..n-1 : k \in 0..n /\ k + 1 \in 0..n /\ k \in 0..(n+1)-1
          OBVIOUS
        <4> QED BY <4>1, <4>2
      <3>2. n <= m /\ h[n] = g[n]
        <4>1. n <= m
          OBVIOUS
        <4> HIDE DEF h, Good
        <4> QED BY <3>1, <4>1
      <3>3. n \in 0..(n+1)-1 /\ n \in 0..m-1
        OBVIOUS
      <3>4. f[n+1] = step[<<n+1, f[n]>>] /\ g[n+1] = step[<<n+1, g[n]>>]
        BY <3>3
      <3> QED BY <3>1, <3>2, <3>4
    <2> HIDE DEF Good
    <2>3. Agreed \in SUBSET Nat
      OBVIOUS
    <2> HIDE DEF Agreed
    <2> QED BY <2>1, <2>2, <2>3, AllNaturals
  <1>a. \A n, m \in Nat : n <= m =>
            \A f \in [0..n -> T], g \in [0..m -> T] : Good(f, n) /\ Good(g, m) => f[n] = g[n]
    <2> HIDE DEF Good
    <2> SUFFICES ASSUME NEW n \in Nat
                 PROVE  \A m \in Nat : n <= m =>
                           \A f \in [0..n -> T], g \in [0..m -> T] :
                              Good(f, n) /\ Good(g, m) => f[n] = g[n]
      OBVIOUS
    <2>1. n \in Agreed
      <3> HIDE DEF Agreed
      <3> QED BY <1>2
    <2> QED BY <2>1
  <1> DEFINE F(n) == CHOOSE f : f \in [0..n -> T] /\ Good(f, n)
  <1>3. \A n \in Nat : F(n) \in [0..n -> T] /\ Good(F(n), n)
    <2> SUFFICES ASSUME NEW n \in Nat PROVE F(n) \in [0..n -> T] /\ Good(F(n), n)
      OBVIOUS
    <2>1. \E f : f \in [0..n -> T] /\ Good(f, n)
      <3> HIDE DEF Good
      <3> QED BY <1>1
    <2> HIDE DEF Good
    <2> QED BY <2>1
  <1> HIDE DEF F
  <1> DEFINE f == [n \in Nat |-> F(n)[n]]
  <1>4. f \in [Nat -> T] /\ f[0] = b
    BY <1>3
  <1>5. ASSUME NEW n \in Nat PROVE f[n+1] = step[<<n+1, f[n]>>]
    <2>1. F(n)[n] = F(n+1)[n]
      <3>1. n + 1 \in Nat /\ n <= n + 1
        OBVIOUS
      <3> HIDE DEF Good
      <3> QED BY <1>a, <1>3, <3>1
    <2>2. n \in 0..(n+1)-1 /\ n + 1 \in Nat
      OBVIOUS
    <2>3. F(n+1)[n+1] = step[<<n+1, F(n+1)[n]>>]
      BY <1>3, <2>2
    <2> QED BY <2>1, <2>2, <2>3
  <1> HIDE DEF f
  <1> QED BY <1>4, <1>5 DEF Iterates

\* The first sequence is where the second begins.
Begins(s, t) == Len(s) <= Len(t) /\ \A i \in 1..Len(s) : s[i] = t[i]

LEMMA ConcatMembers ==
  ASSUME NEW X, NEW s \in Seq(X), NEW t \in Seq(X)
  PROVE  /\ s \o t \in Seq(X) /\ Len(s \o t) = Len(s) + Len(t)
         /\ ToSet(s \o t) = ToSet(s) \cup ToSet(t)
         /\ Begins(s, s \o t)
  <1> DEFINE u == s \o t
  <1>1. /\ u \in Seq(X) /\ Len(s) \in Nat /\ Len(t) \in Nat /\ Len(u) = Len(s) + Len(t)
        /\ DOMAIN s = 1..Len(s) /\ DOMAIN t = 1..Len(t) /\ DOMAIN u = 1..(Len(s) + Len(t))
        /\ \A k \in 1..Len(s) : u[k] = s[k]
        /\ \A k \in Len(s)+1 .. Len(s)+Len(t) : u[k] = t[k - Len(s)]
    OBVIOUS
  <1> HIDE DEF u
  <1>2. Begins(s, u)
    BY <1>1 DEF Begins
  <1>3. ASSUME NEW k \in DOMAIN u PROVE u[k] \in ToSet(s) \cup ToSet(t)
    <2>1. CASE k \in 1..Len(s)
      BY <1>1, <2>1 DEF ToSet
    <2>2. CASE k \in Len(s)+1 .. Len(s)+Len(t)
      <3>1. k - Len(s) \in DOMAIN t /\ u[k] = t[k - Len(s)]
        BY <1>1, <2>2
      <3> QED BY <3>1 DEF ToSet
    <2> QED BY <1>1, <2>1, <2>2
  <1>4. ASSUME NEW i \in DOMAIN s PROVE s[i] \in ToSet(u)
    <2>1. i \in DOMAIN u /\ u[i] = s[i]
      BY <1>1
    <2> QED BY <2>1 DEF ToSet
  <1>5. ASSUME NEW i \in DOMAIN t PROVE t[i] \in ToSet(u)
    <2>1. i + Len(s) \in Len(s)+1 .. Len(s)+Len(t) /\ (i + Len(s)) - Len(s) = i
      BY <1>1
    <2>2. i + Len(s) \in DOMAIN u /\ u[i + Len(s)] = t[i]
      BY <1>1, <2>1
    <2> QED BY <2>2 DEF ToSet
  <1>6. ToSet(u) = ToSet(s) \cup ToSet(t)
    <2>1. \A x \in ToSet(u) : x \in ToSet(s) \cup ToSet(t)
      BY <1>3 DEF ToSet
    <2>2. \A x \in ToSet(s) \cup ToSet(t) : x \in ToSet(u)
      BY <1>4, <1>5 DEF ToSet
    <2> QED BY <2>1, <2>2
  <1> QED BY <1>1, <1>2, <1>6 DEF u

\* What is flattened of a beginning, for every beginning.
LEMMA FlattenSteps ==
  ASSUME NEW X, NEW ss \in Seq(Seq(X))
  PROVE  \E g \in [Nat -> Seq(X)] :
            /\ g[0] = <<>>
            /\ \A i \in 1..Len(ss) : g[i] = g[i-1] \o ss[i]
            /\ \A k \in 0..Len(ss) : FlattenSeq(SubSeq(ss, 1, k)) = g[k]
  <1> DEFINE L == Len(ss)
             step == [p \in Nat \X Seq(X) |-> IF p[1] \in 1..L THEN p[2] \o ss[p[1]] ELSE <<>>]
  <1>1. L \in Nat /\ DOMAIN ss = 1..L /\ \A i \in 1..L : ss[i] \in Seq(X)
    OBVIOUS
  <1>2. step \in [Nat \X Seq(X) -> Seq(X)] /\ <<>> \in Seq(X)
    BY <1>1, ConcatMembers
  <1>3. PICK g \in [Nat -> Seq(X)] : g[0] = <<>> /\ \A n \in Nat : g[n+1] = step[<<n+1, g[n]>>]
    <2> HIDE DEF step
    <2>1. PICK g \in [Nat -> Seq(X)] : Iterates(g, <<>>, step)
      BY <1>2, RecursionExists
    <2> QED BY <2>1 DEF Iterates
  <1>4. ASSUME NEW i \in 1..L PROVE g[i] = g[i-1] \o ss[i]
    <2>1. i - 1 \in Nat /\ (i - 1) + 1 = i /\ i \in Nat /\ g[i-1] \in Seq(X) /\ ss[i] \in Seq(X)
      BY <1>1
    <2>2. g[i] = step[<<i, g[i-1]>>]
      BY <1>3, <2>1
    <2> QED BY <2>1, <2>2
  <1> HIDE DEF step
  <1>5. ASSUME NEW k \in 0..L PROVE FlattenSeq(SubSeq(ss, 1, k)) = g[k]
    <2> DEFINE part == SubSeq(ss, 1, k)
               Is(f) == f = [i \in 1..k |-> IF i = 1 THEN part[i] ELSE f[i-1] \o part[i]]
               f == CHOOSE h : Is(h)
    <2>0. k \in Nat /\ k <= L
      BY <1>1
    <2>1. Len(part) = k /\ \A i \in 1..k : part[i] = ss[i]
      <3>1. part = [i \in 1..(k - 1 + 1) |-> ss[1 + i - 1]]
        BY DEF SubSeq
      <3>2. k - 1 + 1 = k /\ \A i \in 1..k : 1 + i - 1 = i
        BY <2>0
      <3>3. part = [i \in 1..k |-> ss[i]]
        BY <3>1, <3>2
      <3> HIDE DEF part
      <3> QED BY <2>0, <3>3
    <2>2. CASE k = 0
      <3>1. part = <<>>
        BY <2>1, <2>2
      <3>2. FlattenSeq(part) = part
        BY <2>1, <2>2 DEF FlattenSeq
      <3> QED BY <1>3, <2>2, <3>1, <3>2
    <2>3. CASE k # 0
      <3> HIDE DEF part
      <3>1. \A i \in 1..k : g[i] = IF i = 1 THEN part[i] ELSE g[i-1] \o part[i]
        <4> SUFFICES ASSUME NEW i \in 1..k
                     PROVE  g[i] = IF i = 1 THEN part[i] ELSE g[i-1] \o part[i]
          OBVIOUS
        <4>1. i \in 1..L /\ g[i] = g[i-1] \o ss[i] /\ part[i] = ss[i] /\ ss[i] \in Seq(X)
          <5>1. i \in 1..L
            BY <1>1, <2>0
          <5> QED BY <1>1, <1>4, <2>1, <5>1
        <4>2. i = 1 => g[i-1] = <<>>
          BY <1>3
        <4>3. <<>> \o ss[i] = ss[i]
          BY <4>1
        <4> QED BY <4>1, <4>2, <4>3
      <3> DEFINE h == [i \in 1..k |-> g[i]]
      <3>2. Is(h)
        <4>1. ASSUME NEW i \in 1..k PROVE h[i] = IF i = 1 THEN part[i] ELSE h[i-1] \o part[i]
          <5>1. i # 1 => i - 1 \in 1..k
            BY <1>1
          <5> QED BY <3>1, <5>1
        <4> QED BY <4>1
      <3>3. Is(f)
        <4> HIDE DEF Is, h
        <4> QED BY <3>2
      <3>4. FlattenSeq(part) = f[k]
        BY <2>1, <2>3 DEF FlattenSeq
      <3> HIDE DEF f
      <3>5. \A i \in 1..k : f[i] = IF i = 1 THEN part[i] ELSE f[i-1] \o part[i]
        BY <3>3
      <3> DEFINE Same == {n \in Nat : n + 1 \in 1..k => f[n+1] = g[n+1]}
      <3>6. Same = Nat
        <4>1. 0 \in Same
          <5>1. 0 + 1 = 1 /\ 1 \in 1..k
            BY <2>0, <2>3
          <5>2. f[1] = part[1] /\ g[1] = part[1]
            BY <3>1, <3>5, <5>1
          <5> QED BY <5>1, <5>2
        <4>2. ASSUME NEW n \in Same PROVE n + 1 \in Same
          <5>1. n \in Nat /\ n + 1 \in Nat
            OBVIOUS
          <5> SUFFICES ASSUME (n + 1) + 1 \in 1..k PROVE f[(n+1)+1] = g[(n+1)+1]
            BY <5>1
          <5>2. n + 1 \in 1..k /\ f[n+1] = g[n+1]
            BY <1>1, <5>1
          <5>3. (n + 1) + 1 # 1 /\ ((n + 1) + 1) - 1 = n + 1
            BY <5>1
          <5>4. f[(n+1)+1] = f[n+1] \o part[(n+1)+1]
            BY <3>5, <5>3
          <5>5. g[(n+1)+1] = g[n+1] \o part[(n+1)+1]
            BY <3>1, <5>3
          <5> QED BY <5>2, <5>4, <5>5
        <4>3. Same \in SUBSET Nat
          OBVIOUS
        <4> HIDE DEF Same
        <4> QED BY <4>1, <4>2, <4>3, AllNaturals
      <3>7. k - 1 \in Same /\ (k - 1) + 1 = k /\ k \in 1..k
        <4>1. k - 1 \in Nat /\ (k - 1) + 1 = k /\ k \in 1..k
          BY <1>1, <2>3
        <4> HIDE DEF Same
        <4> QED BY <3>6, <4>1
      <3>8. f[k] = g[k]
        BY <3>7
      <3> QED BY <3>4, <3>8 DEF part
    <2> QED BY <2>2, <2>3
  <1> QED BY <1>3, <1>4, <1>5

LEMMA FlattenGrows ==
  ASSUME NEW X, NEW ss \in Seq(Seq(X))
  PROVE  /\ FlattenSeq(SubSeq(ss, 1, 0)) = <<>>
         /\ \A k \in 0..Len(ss) : FlattenSeq(SubSeq(ss, 1, k)) \in Seq(X)
         /\ \A k \in 1..Len(ss) : FlattenSeq(SubSeq(ss, 1, k)) = FlattenSeq(SubSeq(ss, 1, k-1)) \o ss[k]
         /\ FlattenSeq(SubSeq(ss, 1, Len(ss))) = FlattenSeq(ss)
  <1>1. PICK g \in [Nat -> Seq(X)] :
           /\ g[0] = <<>>
           /\ \A i \in 1..Len(ss) : g[i] = g[i-1] \o ss[i]
           /\ \A k \in 0..Len(ss) : FlattenSeq(SubSeq(ss, 1, k)) = g[k]
    BY FlattenSteps
  <1>2. Len(ss) \in Nat
    OBVIOUS
  <1>3. 0 \in 0..Len(ss)
    BY <1>2
  <1>4. \A k \in 1..Len(ss) : k \in 0..Len(ss) /\ k - 1 \in 0..Len(ss)
    BY <1>2
  <1>5. \A k \in 0..Len(ss) : k \in Nat
    BY <1>2
  <1>6. SubSeq(ss, 1, Len(ss)) = ss
    <2>1. SubSeq(ss, 1, Len(ss)) = [i \in 1..(Len(ss) - 1 + 1) |-> ss[1 + i - 1]]
      BY DEF SubSeq
    <2>2. Len(ss) - 1 + 1 = Len(ss) /\ \A i \in 1..Len(ss) : 1 + i - 1 = i
      BY <1>2
    <2>3. SubSeq(ss, 1, Len(ss)) = [i \in 1..Len(ss) |-> ss[i]]
      BY <2>1, <2>2
    <2>4. DOMAIN ss = 1..Len(ss) /\ ss = [i \in DOMAIN ss |-> ss[i]]
      OBVIOUS
    <2> QED BY <2>3, <2>4
  <1> QED BY <1>1, <1>3, <1>4, <1>5, <1>6

\* What is flattened of a beginning is a beginning.
LEMMA FlattenBegins ==
  ASSUME NEW X, NEW ss \in Seq(Seq(X)), NEW k \in 0..Len(ss), NEW m \in 0..Len(ss), k <= m
  PROVE  Begins(FlattenSeq(SubSeq(ss, 1, k)), FlattenSeq(SubSeq(ss, 1, m)))
  <1> DEFINE F(n) == FlattenSeq(SubSeq(ss, 1, n))
             Good == {n \in Nat : k + n <= Len(ss) => Begins(F(k), F(k + n))}
  <1>1. Len(ss) \in Nat /\ k \in Nat /\ m \in Nat
    OBVIOUS
  <1>2. \A n \in 0..Len(ss) : F(n) \in Seq(X)
    BY FlattenGrows
  <1>3. \A n \in 1..Len(ss) : F(n) = F(n-1) \o ss[n]
    BY FlattenGrows
  <1> HIDE DEF F
  <1>4. 0 \in Good
    <2>1. k + 0 = k /\ F(k) \in Seq(X)
      BY <1>1, <1>2
    <2> QED BY <2>1 DEF Begins
  <1>5. ASSUME NEW n \in Good PROVE n + 1 \in Good
    <2>1. n \in Nat /\ n + 1 \in Nat
      OBVIOUS
    <2> SUFFICES ASSUME k + (n + 1) <= Len(ss) PROVE Begins(F(k), F(k + (n + 1)))
      BY <2>1
    <2>2. k + n \in 0..Len(ss) /\ k + (n + 1) \in 1..Len(ss) /\ (k + (n + 1)) - 1 = k + n
      BY <1>1, <2>1
    <2>3. Begins(F(k), F(k + n))
      BY <1>1, <2>2
    <2>4. F(k + (n + 1)) = F(k + n) \o ss[k + (n + 1)]
      BY <1>3, <2>2
    <2>5. Begins(F(k + n), F(k + (n + 1)))
      <3>1. F(k + n) \in Seq(X) /\ ss[k + (n + 1)] \in Seq(X)
        BY <1>2, <2>2
      <3>2. Begins(F(k + n), F(k + n) \o ss[k + (n + 1)])
        BY <3>1, ConcatMembers
      <3> QED BY <2>4, <3>2
    <2>6. F(k) \in Seq(X) /\ F(k + n) \in Seq(X) /\ F(k + (n + 1)) \in Seq(X)
      <3>1. k + (n + 1) \in 0..Len(ss)
        BY <1>1, <2>1
      <3> QED BY <1>2, <2>2, <3>1
    <2> DEFINE a == F(k)
               b == F(k + n)
               c == F(k + (n + 1))
    <2>7. Begins(a, c)
      <3>1. Len(a) \in Nat /\ Len(b) \in Nat /\ Len(c) \in Nat
        BY <2>6
      <3>2. Begins(a, b) /\ Begins(b, c)
        BY <2>3, <2>5
      <3> HIDE DEF a, b, c
      <3> QED BY <3>1, <3>2 DEF Begins
    <2> QED BY <2>7
  <1>6. Good \in SUBSET Nat
    OBVIOUS
  <1> DEFINE d == m - k
  <1>7. d \in Nat /\ k + d = m /\ k + d <= Len(ss)
    BY <1>1
  <1> HIDE DEF Good, d
  <1>8. d \in Good
    BY <1>4, <1>5, <1>6, <1>7, AllNaturals
  <1> QED BY <1>7, <1>8 DEF Good, F

\* Its members are those of the flattened sequences.
LEMMA FlattenMembers ==
  ASSUME NEW X, NEW ss \in Seq(Seq(X)), NEW k \in 0..Len(ss)
  PROVE  ToSet(FlattenSeq(SubSeq(ss, 1, k))) = UNION {ToSet(ss[i]) : i \in 1..k}
  <1> DEFINE F(n) == FlattenSeq(SubSeq(ss, 1, n))
             Good == {n \in Nat : n <= Len(ss) => ToSet(F(n)) = UNION {ToSet(ss[i]) : i \in 1..n}}
  <1>1. Len(ss) \in Nat /\ k \in Nat /\ k <= Len(ss)
    OBVIOUS
  <1>2. \A n \in 0..Len(ss) : F(n) \in Seq(X)
    BY FlattenGrows
  <1>3. F(0) = <<>> /\ \A n \in 1..Len(ss) : F(n) = F(n-1) \o ss[n]
    BY FlattenGrows
  <1> HIDE DEF F
  <1>4. 0 \in Good
    <2>1. ToSet(F(0)) = {}
      BY <1>3 DEF ToSet
    <2>2. 1..0 = {}
      OBVIOUS
    <2> QED BY <2>1, <2>2
  <1>5. ASSUME NEW n \in Good PROVE n + 1 \in Good
    <2>1. n \in Nat /\ n + 1 \in Nat
      OBVIOUS
    <2> SUFFICES ASSUME n + 1 <= Len(ss)
                 PROVE  ToSet(F(n + 1)) = UNION {ToSet(ss[i]) : i \in 1..n+1}
      BY <2>1
    <2>2. n \in 0..Len(ss) /\ n + 1 \in 1..Len(ss) /\ (n + 1) - 1 = n /\ n <= Len(ss)
      <3> HIDE DEF Good
      <3> QED BY <1>1, <2>1
    <2>3. ToSet(F(n)) = UNION {ToSet(ss[i]) : i \in 1..n}
      BY <2>2
    <2>4. F(n + 1) = F(n) \o ss[n + 1]
      BY <1>3, <2>2
    <2>5. ToSet(F(n + 1)) = ToSet(F(n)) \cup ToSet(ss[n + 1])
      <3>1. F(n) \in Seq(X) /\ ss[n + 1] \in Seq(X)
        BY <1>2, <2>2
      <3>2. ToSet(F(n) \o ss[n + 1]) = ToSet(F(n)) \cup ToSet(ss[n + 1])
        BY <3>1, ConcatMembers
      <3> QED BY <2>4, <3>2
    <2>6. 1..n+1 = (1..n) \cup {n+1}
      BY <2>1
    <2> QED BY <2>3, <2>5, <2>6
  <1>6. Good \in SUBSET Nat
    OBVIOUS
  <1> HIDE DEF Good
  <1>7. k \in Good
    BY <1>1, <1>4, <1>5, <1>6, AllNaturals
  <1> QED BY <1>1, <1>7 DEF Good, F

-----------------------------------------------------------------------------
(* Where the tables of a stage, a chain and a phase stand in the order.      *)

Outline == [p \in DOMAIN Phases |-> Phase(p)]
Order == FlattenSeq(Outline)

\* The tables of the phases before one, and of the first stages of a chain.
Before(p) == FlattenSeq(SubSeq(Outline, 1, p - 1))
Listed(stages) == [n \in DOMAIN stages |-> TablesOf[stages[n]]]
Upto(stages, d) == FlattenSeq(SubSeq(Listed(stages), 1, d))

LEMMA ChainShape ==
  ASSUME NEW chain \in Seq(Stages)
  PROVE  /\ Chain(chain) \in Seq(Tables)
         /\ Upto(chain, 0) = <<>> /\ Upto(chain, Len(chain)) = Chain(chain)
         /\ \A d \in 0..Len(chain) : Upto(chain, d) \in Seq(Tables) /\ Begins(Upto(chain, d), Chain(chain))
         /\ \A d \in 1..Len(chain) : Upto(chain, d) = Upto(chain, d-1) \o TablesOf[chain[d]]
         /\ ToSet(Chain(chain)) = {t \in Tables : StageOf[t] \in ToSet(chain)}
  <1>1. /\ Len(chain) \in Nat /\ DOMAIN chain = 1..Len(chain)
        /\ \A n \in 1..Len(chain) : chain[n] \in Stages
    OBVIOUS
  <1>2. \A n \in 1..Len(chain) : TablesOf[chain[n]] \in Seq(Tables)
    BY <1>1, WalkAssumption
  <1> DEFINE listed == Listed(chain)
  <1>3. /\ listed \in Seq(Seq(Tables)) /\ Len(listed) = Len(chain)
        /\ \A n \in 1..Len(chain) : listed[n] = TablesOf[chain[n]]
    BY <1>1, <1>2 DEF Listed
  <1>4. Chain(chain) = FlattenSeq(listed)
    BY DEF Chain, Listed
  <1>5. \A d : Upto(chain, d) = FlattenSeq(SubSeq(listed, 1, d))
    BY DEF Upto
  <1> HIDE DEF listed
  <1>6. Upto(chain, 0) = <<>> /\ Upto(chain, Len(chain)) = Chain(chain)
    BY <1>3, <1>4, <1>5, FlattenGrows
  <1>7. ASSUME NEW d \in 0..Len(chain)
        PROVE  Upto(chain, d) \in Seq(Tables) /\ Begins(Upto(chain, d), Chain(chain))
    <2>1. d <= Len(chain) /\ d \in 0..Len(listed) /\ Len(listed) \in 0..Len(listed)
      BY <1>1, <1>3
    <2>2. FlattenSeq(SubSeq(listed, 1, d)) \in Seq(Tables)
      BY <1>3, <2>1, FlattenGrows
    <2>3. Begins(FlattenSeq(SubSeq(listed, 1, d)), FlattenSeq(SubSeq(listed, 1, Len(listed))))
      BY <1>3, <2>1, FlattenBegins
    <2> QED BY <1>3, <1>5, <1>6, <2>2, <2>3
  <1>8. \A d \in 1..Len(chain) : Upto(chain, d) = Upto(chain, d-1) \o TablesOf[chain[d]]
    <2>1. \A d \in 1..Len(listed) :
             FlattenSeq(SubSeq(listed, 1, d)) = FlattenSeq(SubSeq(listed, 1, d-1)) \o listed[d]
      BY <1>3, FlattenGrows
    <2> QED BY <1>3, <1>5, <2>1
  <1>9. ToSet(Chain(chain)) = UNION {ToSet(listed[n]) : n \in 1..Len(chain)}
    <2>1. Len(listed) \in 0..Len(listed)
      BY <1>1, <1>3
    <2>2. ToSet(FlattenSeq(SubSeq(listed, 1, Len(listed)))) = UNION {ToSet(listed[n]) : n \in 1..Len(listed)}
      BY <1>3, <2>1, FlattenMembers
    <2> QED BY <1>3, <1>5, <1>6, <2>2
  <1>10. ASSUME NEW t \in Tables
         PROVE  t \in ToSet(Chain(chain)) <=> StageOf[t] \in ToSet(chain)
    <2>1. t \in ToSet(Chain(chain)) <=> \E n \in 1..Len(chain) : t \in ToSet(TablesOf[chain[n]])
      BY <1>3, <1>9
    <2>2. \A n \in 1..Len(chain) : t \in ToSet(TablesOf[chain[n]]) <=> StageOf[t] = chain[n]
      BY <1>1, TableStage, StageTable
    <2> QED BY <1>1, <2>1, <2>2 DEF ToSet
  <1>11. ToSet(Chain(chain)) \subseteq Tables
    <2>1. Len(chain) \in 0..Len(chain)
      BY <1>1
    <2>2. Chain(chain) \in Seq(Tables)
      BY <1>6, <1>7, <2>1
    <2> QED BY <2>2 DEF ToSet
  <1>12. Chain(chain) \in Seq(Tables)
    <2>1. Len(chain) \in 0..Len(chain)
      BY <1>1
    <2> QED BY <1>6, <1>7, <2>1
  <1> QED BY <1>6, <1>7, <1>8, <1>10, <1>11, <1>12

LEMMA PhaseShape ==
  ASSUME NEW p \in DOMAIN Phases
  PROVE  /\ Phases[p] \in Seq(Seq(Stages))
         /\ Phase(p) \in Seq(Tables)
         /\ ToSet(Phase(p)) = {t \in Tables : StageOf[t] \in StagesOf(p)}
         /\ Len(Phases[p]) = 1 => Phase(p) = Chain(Phases[p][1])
  <1> DEFINE chains == [c \in DOMAIN Phases[p] |-> Chain(Phases[p][c])]
             L == Len(Phases[p])
  <1>1. Phases[p] \in Seq(Seq(Stages))
    BY WalkAssumption
  <1>2. /\ L \in Nat /\ DOMAIN Phases[p] = 1..L /\ \A c \in 1..L : Phases[p][c] \in Seq(Stages)
    BY <1>1
  <1>3. /\ chains \in Seq(Seq(Tables)) /\ Len(chains) = L
        /\ \A c \in 1..L : chains[c] = Chain(Phases[p][c]) /\ chains[c] \in Seq(Tables)
    <2>1. \A c \in 1..L : Chain(Phases[p][c]) \in Seq(Tables)
      BY <1>2, ChainShape
    <2> QED BY <1>2, <2>1
  <1>4. Phase(p) = FlattenSeq(chains)
    BY DEF Phase
  <1> HIDE DEF chains
  <1>5. L \in 0..Len(chains) /\ FlattenSeq(SubSeq(chains, 1, L)) = FlattenSeq(chains)
    <2>1. FlattenSeq(SubSeq(chains, 1, Len(chains))) = FlattenSeq(chains)
      BY <1>3, FlattenGrows
    <2> QED BY <1>2, <1>3, <2>1
  <1>6. Phase(p) \in Seq(Tables)
    BY <1>3, <1>4, <1>5, FlattenGrows
  <1>7. ToSet(Phase(p)) = UNION {ToSet(chains[c]) : c \in 1..L}
    BY <1>3, <1>4, <1>5, FlattenMembers
  <1>8. ASSUME NEW t \in Tables PROVE t \in ToSet(Phase(p)) <=> StageOf[t] \in StagesOf(p)
    <2>1. t \in ToSet(Phase(p)) <=> \E c \in 1..L : t \in ToSet(Chain(Phases[p][c]))
      BY <1>3, <1>7
    <2>2. \A c \in 1..L : t \in ToSet(Chain(Phases[p][c])) <=> StageOf[t] \in ToSet(Phases[p][c])
      BY <1>2, ChainShape
    <2> QED BY <1>2, <2>1, <2>2 DEF StagesOf
  <1>9. ToSet(Phase(p)) \subseteq Tables
    BY <1>6 DEF ToSet
  <1>10. ASSUME L = 1 PROVE Phase(p) = Chain(Phases[p][1])
    <2>1. 1 \in 1..Len(chains) /\ 1 - 1 = 0 /\ 1 \in 1..L
      BY <1>3, <1>10
    <2>2. FlattenSeq(SubSeq(chains, 1, 1)) = FlattenSeq(SubSeq(chains, 1, 0)) \o chains[1]
      BY <1>3, <2>1, FlattenGrows
    <2>3. FlattenSeq(SubSeq(chains, 1, 0)) = <<>>
      BY <1>3, FlattenGrows
    <2>4. <<>> \o chains[1] = chains[1] /\ chains[1] = Chain(Phases[p][1])
      BY <1>3, <2>1
    <2> QED BY <1>4, <1>5, <1>10, <2>2, <2>3, <2>4
  <1> QED BY <1>1, <1>6, <1>8, <1>9, <1>10

LEMMA OrderShape ==
  /\ Len(Phases) \in Nat /\ DOMAIN Phases = 1..Len(Phases)
  /\ Order \in Seq(Tables) /\ ToSet(Order) = Tables
  /\ Before(1) = <<>> /\ Before(Len(Phases) + 1) = Order
  /\ \A p \in 1..Len(Phases)+1 : Before(p) \in Seq(Tables) /\ Begins(Before(p), Order)
  /\ \A p \in 1..Len(Phases) : Before(p + 1) = Before(p) \o Phase(p)
  <1> DEFINE L == Len(Phases)
  <1>1. L \in Nat /\ DOMAIN Phases = 1..L
    BY WalkAssumption
  <1>2. Outline \in Seq(Seq(Tables)) /\ Len(Outline) = L /\ \A p \in 1..L : Outline[p] = Phase(p)
    BY <1>1, PhaseShape DEF Outline
  <1>3. Before(1) = <<>>
    <2>1. 1 - 1 = 0
      OBVIOUS
    <2> QED BY <1>2, <2>1, FlattenGrows DEF Before
  <1>4. Before(L + 1) = Order
    <2>1. (L + 1) - 1 = L
      BY <1>1
    <2> QED BY <1>2, <2>1, FlattenGrows DEF Before, Order
  <1>5. ASSUME NEW p \in 1..L+1 PROVE Before(p) \in Seq(Tables) /\ Begins(Before(p), Order)
    <2>1. p - 1 \in 0..Len(Outline) /\ p - 1 <= Len(Outline) /\ Len(Outline) \in 0..Len(Outline)
      BY <1>1, <1>2
    <2>2. Before(p) \in Seq(Tables)
      BY <1>2, <2>1, FlattenGrows DEF Before
    <2>3. Begins(Before(p), FlattenSeq(SubSeq(Outline, 1, Len(Outline))))
      BY <1>2, <2>1, FlattenBegins DEF Before
    <2> QED BY <1>2, <2>2, <2>3, FlattenGrows DEF Order
  <1>6. ASSUME NEW p \in 1..L PROVE Before(p + 1) = Before(p) \o Phase(p)
    <2>1. (p + 1) - 1 = p /\ p \in 1..Len(Outline)
      BY <1>1, <1>2
    <2>2. FlattenSeq(SubSeq(Outline, 1, p)) = FlattenSeq(SubSeq(Outline, 1, p - 1)) \o Outline[p]
      BY <1>2, <2>1, FlattenGrows
    <2> QED BY <1>2, <2>1, <2>2 DEF Before
  <1>7. Order \in Seq(Tables)
    <2>1. L + 1 \in 1..L+1
      BY <1>1
    <2> QED BY <1>4, <1>5, <2>1
  <1>8. ToSet(Order) = UNION {ToSet(Phase(p)) : p \in 1..L}
    <2>1. L \in 0..Len(Outline)
      BY <1>1, <1>2
    <2>2. ToSet(FlattenSeq(SubSeq(Outline, 1, L))) = UNION {ToSet(Outline[p]) : p \in 1..L}
      BY <1>2, <2>1, FlattenMembers
    <2>3. FlattenSeq(SubSeq(Outline, 1, L)) = Order
      BY <1>2, FlattenGrows DEF Order
    <2>4. {ToSet(Outline[p]) : p \in 1..L} = {ToSet(Phase(p)) : p \in 1..L}
      BY <1>2
    <2> QED BY <2>2, <2>3, <2>4
  <1>9. ASSUME NEW t \in Tables PROVE t \in ToSet(Order)
    <2>1. PICK p \in DOMAIN Phases : StageOf[t] \in StagesOf(p)
      BY TableStage DEF Stages
    <2>2. t \in ToSet(Phase(p))
      BY <2>1, PhaseShape
    <2> QED BY <1>1, <1>8, <2>2
  <1>10. ToSet(Order) \subseteq Tables
    BY <1>7 DEF ToSet
  <1> QED BY <1>1, <1>3, <1>4, <1>5, <1>6, <1>7, <1>9, <1>10

LEMMA BeginsOn ==
  ASSUME NEW X, NEW a \in Seq(X), NEW b \in Seq(X), NEW c \in Seq(X)
  PROVE  /\ Begins(a, b) /\ Begins(b, c) => Begins(a, c)
         /\ Begins(a, b) => Begins(c \o a, c \o b)
         /\ (c \o a) \o b = c \o (a \o b)
  <1>1. Len(a) \in Nat /\ Len(b) \in Nat /\ Len(c) \in Nat
    OBVIOUS
  <1>2. Begins(a, b) /\ Begins(b, c) => Begins(a, c)
    BY <1>1 DEF Begins
  <1>3. ASSUME Begins(a, b) PROVE Begins(c \o a, c \o b)
    <2>1. Len(c \o a) = Len(c) + Len(a) /\ Len(c \o b) = Len(c) + Len(b)
      BY ConcatMembers
    <2>2. ASSUME NEW i \in 1..Len(c)+Len(a) PROVE (c \o a)[i] = (c \o b)[i]
      <3>1. CASE i \in 1..Len(c)
        BY <1>1, <3>1
      <3>2. CASE i \in Len(c)+1 .. Len(c)+Len(a)
        <4>1. i - Len(c) \in 1..Len(a) /\ i - Len(c) \in 1..Len(b) /\ i \in Len(c)+1 .. Len(c)+Len(b)
          BY <1>1, <1>3, <3>2 DEF Begins
        <4>2. a[i - Len(c)] = b[i - Len(c)]
          BY <1>3, <4>1 DEF Begins
        <4>3. (c \o a)[i] = a[i - Len(c)] /\ (c \o b)[i] = b[i - Len(c)]
          BY <1>1, <3>2, <4>1
        <4> QED BY <4>2, <4>3
      <3>3. i \in 1..Len(c) \/ i \in Len(c)+1 .. Len(c)+Len(a)
        BY <1>1
      <3> QED BY <3>1, <3>2, <3>3
    <2> QED BY <1>1, <1>3, <2>1, <2>2 DEF Begins
  <1>4. (c \o a) \o b = c \o (a \o b)
    OBVIOUS
  <1> QED BY <1>2, <1>3, <1>4

-----------------------------------------------------------------------------
(* What is shown of a walk at each moment.                                    *)

\* Phases follow each other, and so do the stages of a chain; files are saved when
\* no stage is going on.
PhasesOrdered ==
    /\ phase \in 1..Len(Phases)+1
    /\ \A p \in DOMAIN Phases : \A s \in StagesOf(p) :
          (p < phase => stage[s] = "done") /\ (p > phase => stage[s] = "todo")
    /\ phase <= Len(Phases) =>
          \A c \in DOMAIN Phases[phase] : \A n \in DOMAIN Phases[phase][c] : \A m \in 1..n-1 :
             stage[Phases[phase][c][n]] # "todo" => stage[Phases[phase][c][m]] = "done"
    /\ saving # "nothing" =>
          /\ phase <= Len(Phases) /\ Len(Phases[phase]) # 0
          /\ \A s \in StagesOf(phase) :
                stage[s] \in {"todo", "done"} /\ (Forked => stage[s] = "done")
    /\ \A s \in Stages : stage[s] = "failed" => failure # Nobody \/ outcome # "running"

\* Tables are worked on while their stage runs, and known rows are of finished ones.
TablesWorked ==
    /\ \A t \in Tables : table[t] \in {"preparing", "asking"} => stage[StageOf[t]] = "running"
    /\ \A t \in Tables : stage[StageOf[t]] = "done" => table[t] = "done"
    /\ \A x \in known : table[x[1]] = "done"

\* What was joined is where the order begins: whole phases, and of a serial phase
\* the stages that are done.
TablesPlaced ==
    /\ phase > Len(Phases) => tables = Before(phase)
    /\ phase <= Len(Phases) /\ Len(Phases[phase]) = 0 => tables = Before(phase)
    /\ Forked => tables = Before(IF saving = "nothing" THEN phase ELSE phase + 1)
    /\ phase <= Len(Phases) /\ Len(Phases[phase]) = 1 =>
          \E d \in 0..Len(Phases[phase][1]) :
             /\ \A n \in DOMAIN Phases[phase][1] : stage[Phases[phase][1][n]] = "done" <=> n <= d
             /\ tables = Before(phase) \o Upto(Phases[phase][1], d)

\* Exactly finished stages are joined, those of a fork when it is over.
TablesShown ==
    /\ \A t \in ToSet(tables) : stage[StageOf[t]] = "done"
    /\ \A t \in Tables : stage[StageOf[t]] = "done" =>
          t \in ToSet(tables) \/ (Forked /\ saving = "nothing" /\ StageOf[t] \in StagesOf(phase))

\* The files hold what was joined, but for the one that is saved next.
FilesKept ==
    /\ tables \in Seq(Tables) /\ printed \in Seq(Tables)
    /\ Begins(printed, tables)
    /\ saving # "tables" => printed = tables
    /\ saving # "knowledge" => saved = {x \in known : x[1] \in ToSet(printed)}
    /\ ~moved => saved = known

ReadInv == WalkInv /\ PhasesOrdered /\ TablesWorked /\ TablesPlaced /\ TablesShown /\ FilesKept

\* A stage has one place.
LEMMA OnePlace ==
  /\ \A p, q \in DOMAIN Phases : \A s : s \in StagesOf(p) /\ s \in StagesOf(q) => p = q
  /\ \A p \in DOMAIN Phases : \A c, d \in DOMAIN Phases[p] :
        \A m \in DOMAIN Phases[p][c], n \in DOMAIN Phases[p][d] :
           Phases[p][c][m] = Phases[p][d][n] => c = d /\ m = n
  /\ \A p \in DOMAIN Phases : \A s \in StagesOf(p) :
        \E c \in DOMAIN Phases[p] : \E n \in DOMAIN Phases[p][c] : s = Phases[p][c][n]
  /\ \A p \in DOMAIN Phases : \A c \in DOMAIN Phases[p] : \A n \in DOMAIN Phases[p][c] :
        Phases[p][c][n] \in StagesOf(p) /\ Phases[p][c][n] \in Stages
  /\ \A p \in DOMAIN Phases : StagesOf(p) \subseteq Stages
  /\ \A s \in Stages : \E p \in DOMAIN Phases : s \in StagesOf(p)
  <1>1. \A p \in DOMAIN Phases : \A s \in StagesOf(p) :
           \E c \in DOMAIN Phases[p] : \E n \in DOMAIN Phases[p][c] : s = Phases[p][c][n]
    BY DEF StagesOf, ToSet
  <1>2. \A p, q \in DOMAIN Phases : \A c \in DOMAIN Phases[p], d \in DOMAIN Phases[q] :
           \A m \in DOMAIN Phases[p][c], n \in DOMAIN Phases[q][d] :
              Phases[p][c][m] = Phases[q][d][n] => p = q /\ c = d /\ m = n
    BY WalkAssumption
  <1>3. \A p \in DOMAIN Phases : \A c \in DOMAIN Phases[p] : \A n \in DOMAIN Phases[p][c] :
           Phases[p][c][n] \in StagesOf(p)
    BY DEF StagesOf, ToSet
  <1>4. \A p \in DOMAIN Phases : StagesOf(p) \subseteq Stages
    BY DEF Stages
  <1>5. \A s \in Stages : \E p \in DOMAIN Phases : s \in StagesOf(p)
    BY DEF Stages
  <1>6. \A p, q \in DOMAIN Phases : \A s : s \in StagesOf(p) /\ s \in StagesOf(q) => p = q
    BY <1>1, <1>2
  <1> QED BY <1>1, <1>2, <1>3, <1>4, <1>5, <1>6

\* A stage that began and is not done is of the phase the walk is in.
LEMMA RunningHere ==
  ASSUME PhasesOrdered, NEW s \in Stages, stage[s] \notin {"todo", "done"}
  PROVE  phase \in DOMAIN Phases /\ phase <= Len(Phases) /\ s \in StagesOf(phase)
  <1>1. PICK p \in DOMAIN Phases : s \in StagesOf(p)
    BY OnePlace
  <1>2. p \in 1..Len(Phases) /\ phase \in 1..Len(Phases)+1 /\ Len(Phases) \in Nat
    BY OrderShape DEF PhasesOrdered
  <1>3. ~(p < phase) /\ ~(p > phase)
    BY <1>1 DEF PhasesOrdered
  <1>4. p = phase
    BY <1>2, <1>3
  <1> QED BY <1>1, <1>2, <1>4

\* Where no stage becomes or stops being done, what is joined and shown stays.
LEMMA SameDone ==
  ASSUME ReadInv, UNCHANGED <<phase, tables, saving>>,
         \A s \in Stages : stage'[s] = "done" <=> stage[s] = "done"
  PROVE  TablesPlaced' /\ TablesShown'
  <1>1. TablesShown'
    <2>1. \A t \in ToSet(tables) : t \in Tables
      BY DEF ReadInv, FilesKept, ToSet
    <2>2. Forked' = Forked
      BY DEF Forked
    <2> QED BY <2>1, <2>2, TableStage DEF ReadInv, TablesShown
  <1>2. TablesPlaced'
    <2>1. phase <= Len(Phases) /\ Len(Phases[phase]) = 1 =>
             \A n \in DOMAIN Phases[phase][1] : Phases[phase][1][n] \in Stages
      <3> SUFFICES ASSUME phase <= Len(Phases), Len(Phases[phase]) = 1
                   PROVE  \A n \in DOMAIN Phases[phase][1] : Phases[phase][1][n] \in Stages
        OBVIOUS
      <3>1. phase \in DOMAIN Phases
        BY OrderShape DEF ReadInv, PhasesOrdered
      <3>2. Phases[phase] \in Seq(Seq(Stages)) /\ 1 \in DOMAIN Phases[phase]
        BY <3>1, PhaseShape
      <3> QED BY <3>1, <3>2, OnePlace
    <2>2. Forked' = Forked
      BY DEF Forked
    <2> QED BY <2>1, <2>2 DEF ReadInv, TablesPlaced
  <1> QED BY <1>1, <1>2

\* What is printed is of finished stages.
LEMMA PrintedDone ==
  ASSUME ReadInv, NEW t \in ToSet(printed)
  PROVE  t \in Tables /\ stage[StageOf[t]] = "done"
  <1>1. tables \in Seq(Tables) /\ printed \in Seq(Tables) /\ Begins(printed, tables)
    BY DEF ReadInv, FilesKept
  <1>2. PICK i \in 1..Len(printed) : t = printed[i]
    BY <1>1 DEF ToSet
  <1>3. i \in 1..Len(tables) /\ t = tables[i]
    BY <1>1, <1>2 DEF Begins
  <1>4. t \in ToSet(tables)
    BY <1>1, <1>3 DEF ToSet
  <1> QED BY <1>1, <1>3, <1>4 DEF ReadInv, TablesShown

\* What changes none of the walk's own state but finishes or stops a table.
LEMMA TableSteps ==
  ASSUME ReadInv, WalkInv', UNCHANGED <<phase, stage, failure, tables, saving, files>>,
         moved' \in BOOLEAN,
         \A t \in Tables : table'[t] = table[t] \/
             (table[t] \in {"preparing", "asking"} /\ table'[t] \in {"asking", "done", "failed", "canceled"}),
         known \subseteq known',
         \A x \in known' \ known : table[x[1]] \in {"preparing", "asking"} /\ table'[x[1]] = "done",
         ~moved' => ~moved /\ known' = known
  PROVE  ReadInv'
  <1>1. PhasesOrdered'
    BY DEF ReadInv, PhasesOrdered, Forked, files
  <1>2. \A x \in known' : x[1] \in Tables
    BY RowParts DEF WalkInv, TypeOK, RecallTypeOK
  <1>3. TablesWorked'
    <2>1. ASSUME NEW t \in Tables, table'[t] \in {"preparing", "asking"} PROVE stage'[StageOf[t]] = "running"
      BY <2>1 DEF ReadInv, TablesWorked
    <2>2. ASSUME NEW t \in Tables, stage'[StageOf[t]] = "done" PROVE table'[t] = "done"
      BY <2>2 DEF ReadInv, TablesWorked
    <2>3. ASSUME NEW x \in known' PROVE table'[x[1]] = "done"
      BY <1>2, <2>3 DEF ReadInv, TablesWorked
    <2> QED BY <2>1, <2>2, <2>3 DEF TablesWorked
  <1>4. TablesPlaced' /\ TablesShown'
    BY SameDone
  <1>5. FilesKept'
    <2>1. UNCHANGED <<tables, printed, saved, saving>>
      BY DEF files
    <2>2. ASSUME NEW x \in known' \ known PROVE x[1] \notin ToSet(printed)
      <3>1. table[x[1]] \in {"preparing", "asking"} /\ x[1] \in Tables
        BY <1>2, <2>2
      <3>2. stage[StageOf[x[1]]] = "running"
        BY <3>1 DEF ReadInv, TablesWorked
      <3> QED BY <3>2, PrintedDone
    <2>3. {x \in known' : x[1] \in ToSet(printed)} = {x \in known : x[1] \in ToSet(printed)}
      BY <2>2
    <2> QED BY <2>1, <2>3 DEF ReadInv, FilesKept
  <1> QED BY <1>1, <1>3, <1>4, <1>5 DEF ReadInv

LEMMA BeginReads ==
  ASSUME ReadInv, WalkInv', NEW s \in Stages, BeginStage(s) PROVE ReadInv'
  <1>1. /\ UNCHANGED <<known, phase, failure, tables, saving, moved, files>>
        /\ saving = "nothing" /\ stage[s] = "todo" /\ Turn(s)
        /\ \A r \in Stages : stage'[r] = IF r = s THEN "running" ELSE stage[r]
    BY DEF BeginStage, ReadInv, WalkInv, TypeOK
  <1>a. PICK c \in DOMAIN Phases[phase] : \E n \in DOMAIN Phases[phase][c] :
           /\ Phases[phase][c][n] = s /\ phase <= Len(Phases)
           /\ \A m \in 1..n-1 : stage[Phases[phase][c][m]] = "done"
    BY <1>1 DEF Turn
  <1>2. PICK n \in DOMAIN Phases[phase][c] :
           /\ Phases[phase][c][n] = s /\ phase <= Len(Phases)
           /\ \A m \in 1..n-1 : stage[Phases[phase][c][m]] = "done"
    BY <1>a
  <1>3. phase \in DOMAIN Phases
    BY <1>2, OrderShape DEF ReadInv, PhasesOrdered
  <1>4. s \in StagesOf(phase)
    BY <1>2, <1>3, OnePlace
  <1>5. PhasesOrdered'
    <2>1. ASSUME NEW p \in DOMAIN Phases, NEW r \in StagesOf(p)
          PROVE  (p < phase => stage'[r] = "done") /\ (p > phase => stage'[r] = "todo")
      <3>1. r \in Stages
        BY OnePlace
      <3>2. CASE r = s
        <4>1. p = phase
          BY <1>3, <1>4, <3>2, OnePlace
        <4>2. phase \in Nat
          BY OrderShape DEF ReadInv, PhasesOrdered
        <4> QED BY <4>1, <4>2
      <3>3. CASE r # s
        BY <1>1, <3>1, <3>3 DEF ReadInv, PhasesOrdered
      <3> QED BY <3>2, <3>3
    <2>2. ASSUME NEW d \in DOMAIN Phases[phase], NEW k \in DOMAIN Phases[phase][d], NEW m \in 1..k-1,
                 stage'[Phases[phase][d][k]] # "todo"
          PROVE  stage'[Phases[phase][d][m]] = "done"
      <3>1. Phases[phase] \in Seq(Seq(Stages)) /\ Phases[phase][d] \in Seq(Stages)
        BY <1>3, PhaseShape
      <3>2. m \in DOMAIN Phases[phase][d]
        BY <3>1
      <3>3. stage[Phases[phase][d][m]] = "done"
        <4>1. CASE Phases[phase][d][k] = s
          <5>1. d = c /\ k = n
            BY <1>2, <1>3, <4>1, OnePlace
          <5> QED BY <1>2, <5>1
        <4>2. CASE Phases[phase][d][k] # s
          <5>1. stage[Phases[phase][d][k]] # "todo"
            BY <1>1, <1>3, <2>2, <4>2, OnePlace
          <5> QED BY <1>2, <5>1 DEF ReadInv, PhasesOrdered
        <4> QED BY <4>1, <4>2
      <3> QED BY <1>1, <1>3, <3>2, <3>3, OnePlace
    <2>3. \A r \in Stages : stage'[r] = "failed" => failure' # Nobody \/ outcome' # "running"
      BY <1>1 DEF ReadInv, PhasesOrdered, files
    <2> QED BY <1>1, <2>1, <2>2, <2>3 DEF ReadInv, PhasesOrdered
  <1>6. ASSUME NEW t \in Tables
        PROVE  table'[t] = IF StageOf[t] = s THEN "preparing" ELSE table[t]
    <2>1. t \in ToSet(TablesOf[s]) <=> StageOf[t] = s
      BY TableStage, StageTable
    <2> QED BY <2>1 DEF BeginStage, StartTables
  <1>7. \A t \in Tables : StageOf[t] = s => table[t] = "todo"
    BY <1>1 DEF ReadInv, WalkInv, StopsExplained
  <1>8. \A x \in known : x[1] \in Tables
    BY RowParts DEF ReadInv, WalkInv, TypeOK, RecallTypeOK
  <1>9. TablesWorked'
    <2>1. ASSUME NEW t \in Tables, table'[t] \in {"preparing", "asking"} PROVE stage'[StageOf[t]] = "running"
      BY <1>1, <1>6, <2>1, TableStage DEF ReadInv, TablesWorked
    <2>2. ASSUME NEW t \in Tables, stage'[StageOf[t]] = "done" PROVE table'[t] = "done"
      BY <1>1, <1>6, <2>2, TableStage DEF ReadInv, TablesWorked
    <2>3. ASSUME NEW x \in known PROVE table'[x[1]] = "done"
      BY <1>6, <1>7, <1>8, <2>3 DEF ReadInv, TablesWorked
    <2> QED BY <1>1, <2>1, <2>2, <2>3 DEF TablesWorked
  <1>10. TablesPlaced' /\ TablesShown'
    <2>1. \A r \in Stages : stage'[r] = "done" <=> stage[r] = "done"
      BY <1>1
    <2> QED BY <1>1, <2>1, SameDone
  <1>11. FilesKept'
    BY <1>1 DEF ReadInv, FilesKept, files
  <1> QED BY <1>5, <1>9, <1>10, <1>11 DEF ReadInv

\* A stage that ends was running, and nothing of its tables goes on.
LEMMA EndReads ==
  ASSUME ReadInv, WalkInv', NEW s \in Stages, EndStage(s) PROVE ReadInv'
  <1>1. /\ UNCHANGED <<table, known, phase, moved, printed, saved>>
        /\ saving = "nothing" /\ outcome = "running" /\ stage[s] = "running"
        /\ \A t \in ToSet(TablesOf[s]) : table[t] \in {"done", "failed", "canceled"}
    BY DEF EndStage, recall
  <1>2. phase \in DOMAIN Phases /\ phase <= Len(Phases) /\ s \in StagesOf(phase)
    BY <1>1, RunningHere DEF ReadInv
  <1>3. PICK how \in {"done", "failed"} :
           /\ \A r \in Stages : stage'[r] = IF r = s THEN how ELSE stage[r]
           /\ how = "done" <=> \A t \in ToSet(TablesOf[s]) : table[t] = "done"
    BY DEF EndStage, ReadInv, WalkInv, TypeOK
  <1>4. /\ how = "done" /\ Forked => UNCHANGED <<tables, saving, failure, outcome>>
        /\ how = "done" /\ ~Forked => tables' = tables \o TablesOf[s] /\ saving' = "tables" /\ UNCHANGED <<failure, outcome>>
        /\ how = "failed" => /\ UNCHANGED <<tables, saving>>
                             /\ Forked => failure' = FirstFailure(s) /\ outcome' = outcome
                             /\ ~Forked => outcome' = Error(s) /\ failure' = failure
    BY <1>3 DEF EndStage
  <1>5. \A t \in Tables : StageOf[t] = s <=> t \in ToSet(TablesOf[s])
    BY TableStage, StageTable
  <1>6. \A p \in DOMAIN Phases : \A r \in StagesOf(p) :
           (p < phase => stage'[r] = "done") /\ (p > phase => stage'[r] = "todo")
    <2> SUFFICES ASSUME NEW p \in DOMAIN Phases, NEW r \in StagesOf(p)
                 PROVE  (p < phase => stage'[r] = "done") /\ (p > phase => stage'[r] = "todo")
      OBVIOUS
    <2>1. r \in Stages
      BY OnePlace
    <2>2. CASE r = s
      <3>1. p = phase
        BY <1>2, <2>2, OnePlace
      <3>2. phase \in Nat
        BY OrderShape DEF ReadInv, PhasesOrdered
      <3> QED BY <3>1, <3>2
    <2>3. CASE r # s
      BY <1>3, <2>1, <2>3 DEF ReadInv, PhasesOrdered
    <2> QED BY <2>2, <2>3
  <1>7. \A c \in DOMAIN Phases[phase] : \A n \in DOMAIN Phases[phase][c] : \A m \in 1..n-1 :
           stage'[Phases[phase][c][n]] # "todo" => stage'[Phases[phase][c][m]] = "done"
    <2> SUFFICES ASSUME NEW c \in DOMAIN Phases[phase], NEW n \in DOMAIN Phases[phase][c], NEW m \in 1..n-1,
                        stage'[Phases[phase][c][n]] # "todo"
                 PROVE  stage'[Phases[phase][c][m]] = "done"
      OBVIOUS
    <2>1. m \in DOMAIN Phases[phase][c]
      <3>1. Phases[phase] \in Seq(Seq(Stages)) /\ Phases[phase][c] \in Seq(Stages)
        BY <1>2, PhaseShape
      <3> QED BY <3>1
    <2>2. Phases[phase][c][n] \in Stages /\ Phases[phase][c][m] \in Stages
      BY <1>2, <2>1, OnePlace
    <2>3. stage[Phases[phase][c][n]] # "todo"
      BY <1>1, <1>3, <2>2
    <2>4. stage[Phases[phase][c][m]] = "done"
      BY <1>2, <2>3 DEF ReadInv, PhasesOrdered
    <2> QED BY <1>1, <1>3, <2>2, <2>4
  <1>8. TablesWorked'
    <2>1. ASSUME NEW t \in Tables, table[t] \in {"preparing", "asking"} PROVE stage'[StageOf[t]] = "running"
      <3>1. stage[StageOf[t]] = "running" /\ StageOf[t] # s /\ StageOf[t] \in Stages
        BY <1>1, <1>5, <2>1, TableStage DEF ReadInv, TablesWorked
      <3> QED BY <1>3, <3>1
    <2>2. ASSUME NEW t \in Tables, stage'[StageOf[t]] = "done" PROVE table[t] = "done"
      <3>1. CASE StageOf[t] = s
        BY <1>3, <1>5, <2>2, <3>1
      <3>2. CASE StageOf[t] # s
        BY <1>3, <2>2, <3>2, TableStage DEF ReadInv, TablesWorked
      <3> QED BY <3>1, <3>2
    <2> QED BY <1>1, <2>1, <2>2 DEF ReadInv, TablesWorked
  <1>9. \A r \in Stages : stage'[r] = "failed" => failure' # Nobody \/ outcome' # "running"
    <2>1. ASSUME how = "failed" PROVE failure' # Nobody \/ outcome' # "running"
      <3>1. Error(s) \in {s, "interrupted"} /\ Error(s) # Nobody /\ Error(s) # "running"
        BY StageNames DEF Error, Nobody
      <3> QED BY <1>4, <2>1, <3>1 DEF FirstFailure
    <2>2. ASSUME how = "done" PROVE UNCHANGED <<failure, outcome>>
      BY <1>4, <2>2
    <2> QED BY <1>3, <2>1, <2>2 DEF ReadInv, PhasesOrdered
  <1>10. CASE how = "failed" \/ Forked
    <2>1. UNCHANGED <<tables, saving>>
      BY <1>3, <1>4, <1>10
    <2>2. PhasesOrdered'
      BY <1>1, <1>6, <1>7, <1>9, <2>1 DEF ReadInv, PhasesOrdered
    <2>3. FilesKept'
      BY <1>1, <2>1 DEF ReadInv, FilesKept
    <2>4. CASE how = "failed"
      <3>1. \A r \in Stages : stage'[r] = "done" <=> stage[r] = "done"
        BY <1>1, <1>3, <2>4
      <3> QED BY <1>1, <1>8, <2>1, <2>2, <2>3, <3>1, SameDone DEF ReadInv
    <2>5. CASE how = "done" /\ Forked
      <3>1. Forked' /\ Len(Phases[phase]) # 1 /\ Len(Phases[phase]) # 0
        <4>1. Len(Phases[phase]) \in Nat
          BY <1>2, PhaseShape
        <4>2. Len(Phases[phase]) > 1
          BY <2>5 DEF Forked
        <4>3. Forked'
          BY <1>1, <2>5 DEF Forked
        <4>4. \A k \in Nat : k > 1 => k # 1 /\ k # 0
          OBVIOUS
        <4> QED BY <4>1, <4>2, <4>3, <4>4
      <3>2. TablesPlaced'
        BY <1>1, <1>2, <2>1, <2>5, <3>1 DEF ReadInv, TablesPlaced
      <3>3. ASSUME NEW t \in ToSet(tables) PROVE stage'[StageOf[t]] = "done"
        <4>1. t \in Tables /\ stage[StageOf[t]] = "done"
          BY <3>3 DEF ReadInv, FilesKept, TablesShown, ToSet
        <4> QED BY <1>3, <2>5, <4>1, TableStage
      <3>4. ASSUME NEW t \in Tables, stage'[StageOf[t]] = "done"
            PROVE  t \in ToSet(tables) \/ StageOf[t] \in StagesOf(phase)
        BY <1>2, <1>3, <3>4, TableStage DEF ReadInv, TablesShown
      <3>5. TablesShown'
        BY <1>1, <2>1, <3>1, <3>3, <3>4 DEF TablesShown
      <3> QED BY <1>8, <2>2, <2>3, <3>2, <3>5 DEF ReadInv
    <2> QED BY <1>3, <1>10, <2>4, <2>5
  <1>11. CASE how = "done" /\ ~Forked
    <2> DEFINE chain == Phases[phase][1]
    <2>1. tables' = tables \o TablesOf[s] /\ saving' = "tables" /\ UNCHANGED <<failure, outcome>> /\ Forked' = Forked
      BY <1>1, <1>4, <1>11 DEF Forked
    <2>2. Phases[phase] \in Seq(Seq(Stages)) /\ Len(Phases[phase]) = 1 /\ DOMAIN Phases[phase] = {1}
      <3>1. Phases[phase] \in Seq(Seq(Stages)) /\ DOMAIN Phases[phase] # {}
        BY <1>2, PhaseShape, OnePlace
      <3>2. Len(Phases[phase]) \in Nat /\ DOMAIN Phases[phase] = 1..Len(Phases[phase]) /\ Len(Phases[phase]) <= 1
        BY <1>2, <1>11, <3>1 DEF Forked
      <3>3. Len(Phases[phase]) # 0
        BY <3>1, <3>2
      <3>4. Len(Phases[phase]) = 1
        <4>1. \A k \in Nat : k <= 1 /\ k # 0 => k = 1
          OBVIOUS
        <4> QED BY <3>2, <3>3, <4>1
      <3>5. 1..1 = {1}
        OBVIOUS
      <3> QED BY <3>1, <3>2, <3>4, <3>5
    <2>3. chain \in Seq(Stages) /\ Len(chain) \in Nat /\ DOMAIN chain = 1..Len(chain)
      BY <2>2
    <2>4. PICK n \in 1..Len(chain) : s = chain[n]
      BY <1>2, <2>2, <2>3, OnePlace
    <2>5. /\ \A k \in 1..Len(chain) : chain[k] \in Stages /\ chain[k] \in StagesOf(phase)
          /\ \A k \in 1..Len(chain) : chain[k] = s => k = n
          /\ \A r \in StagesOf(phase) : \E k \in 1..Len(chain) : r = chain[k]
      BY <1>2, <2>2, <2>3, <2>4, OnePlace
    <2>6. \A k \in 1..Len(chain) : \A m \in 1..k-1 : stage[chain[k]] # "todo" => stage[chain[m]] = "done"
      BY <1>2, <2>2, <2>3 DEF ReadInv, PhasesOrdered
    <2> HIDE DEF chain
    <2>7. ASSUME NEW k \in 1..Len(chain), k # n
          PROVE  stage'[chain[k]] = stage[chain[k]] /\ (k < n => stage[chain[k]] = "done") /\ (k > n => stage[chain[k]] = "todo")
      <3>1. k < n => k \in 1..n-1
        BY <2>3
      <3>2. k > n => n \in 1..k-1
        BY <2>3
      <3>3. chain[k] # s /\ chain[k] \in Stages
        BY <2>5, <2>7
      <3> QED BY <1>1, <1>3, <2>4, <2>6, <3>1, <3>2, <3>3
    <2>8. stage'[chain[n]] = "done"
      BY <1>3, <1>11, <2>4
    <2>9. PhasesOrdered'
      <3>1. ASSUME NEW r \in StagesOf(phase) PROVE stage'[r] \in {"todo", "done"}
        <4>1. PICK k \in 1..Len(chain) : r = chain[k]
          BY <2>5
        <4>2. k # n => k < n \/ k > n
          BY <2>3
        <4> QED BY <2>7, <2>8, <4>1, <4>2
      <3> QED BY <1>1, <1>2, <1>6, <1>7, <1>9, <1>11, <2>1, <2>2, <3>1 DEF ReadInv, PhasesOrdered
    <2>10. TablesOf[s] \in Seq(Tables) /\ tables \in Seq(Tables) /\ printed \in Seq(Tables)
      BY WalkAssumption DEF ReadInv, FilesKept
    <2>11. TablesPlaced'
      <3>1. PICK d \in 0..Len(chain) :
               /\ \A k \in 1..Len(chain) : stage[chain[k]] = "done" <=> k <= d
               /\ tables = Before(phase) \o Upto(chain, d)
        BY <1>2, <2>2, <2>3 DEF chain, ReadInv, TablesPlaced
      <3>2. d = n - 1
        <4>1. ~(n <= d)
          BY <1>1, <2>4, <3>1
        <4>2. n - 1 \in 1..Len(chain) => n - 1 <= d
          <5> SUFFICES ASSUME n - 1 \in 1..Len(chain) PROVE n - 1 <= d
            OBVIOUS
          <5>1. n - 1 # n /\ n - 1 < n
            BY <2>3
          <5> QED BY <2>7, <3>1, <5>1
        <4>3. n \in Nat /\ d \in Nat /\ n - 1 \in 0..Len(chain)
          BY <2>3
        <4> QED BY <4>1, <4>2, <4>3
      <3>3. \A k \in 1..Len(chain) : stage'[chain[k]] = "done" <=> k <= n
        <4> SUFFICES ASSUME NEW k \in 1..Len(chain) PROVE stage'[chain[k]] = "done" <=> k <= n
          OBVIOUS
        <4>1. CASE k = n
          BY <2>3, <2>8, <4>1
        <4>2. CASE k # n
          <5>1. (k < n \/ k > n) /\ k \in Nat /\ n \in Nat
            BY <2>3, <4>2
          <5>2. k < n => k <= n
            BY <5>1
          <5>3. k > n => ~(k <= n)
            BY <5>1
          <5> QED BY <2>7, <4>2, <5>1, <5>2, <5>3
        <4> QED BY <4>1, <4>2
      <3>4. tables' = Before(phase) \o Upto(chain, n)
        <4>1. Upto(chain, n) = Upto(chain, n-1) \o TablesOf[s]
          BY <2>3, <2>4, ChainShape
        <4>2. Before(phase) \in Seq(Tables)
          BY OrderShape DEF ReadInv, PhasesOrdered
        <4>3. Upto(chain, n-1) \in Seq(Tables)
          <5>1. n - 1 \in 0..Len(chain)
            BY <2>3
          <5> QED BY <2>3, <5>1, ChainShape
        <4>4. (Before(phase) \o Upto(chain, n-1)) \o TablesOf[s] = Before(phase) \o (Upto(chain, n-1) \o TablesOf[s])
          <5>1. \A a, b, c \in Seq(Tables) : (c \o a) \o b = c \o (a \o b)
            BY BeginsOn
          <5> QED BY <2>10, <4>2, <4>3, <5>1
        <4> QED BY <2>1, <3>1, <3>2, <4>1, <4>4
      <3>5. n \in 0..Len(chain)
        BY <2>3
      <3>6. \E e \in 0..Len(chain) :
               /\ \A k \in DOMAIN chain : stage'[chain[k]] = "done" <=> k <= e
               /\ tables' = Before(phase) \o Upto(chain, e)
        BY <2>3, <3>3, <3>4, <3>5
      <3>7. phase' = phase /\ ~(phase > Len(Phases)) /\ Len(Phases[phase]) # 0 /\ ~Forked'
        <4>1. phase \in 1..Len(Phases)+1 /\ Len(Phases) \in Nat
          BY OrderShape DEF ReadInv, PhasesOrdered
        <4> QED BY <1>1, <1>2, <1>11, <2>1, <2>2, <4>1
      <3>8. \E e \in 0..Len(Phases[phase][1]) :
               /\ \A k \in DOMAIN Phases[phase][1] : stage'[Phases[phase][1][k]] = "done" <=> k <= e
               /\ tables' = Before(phase) \o Upto(Phases[phase][1], e)
        BY <3>6 DEF chain
      <3> QED BY <3>7, <3>8 DEF TablesPlaced
    <2>12. ToSet(tables') = ToSet(tables) \cup ToSet(TablesOf[s]) /\ tables' \in Seq(Tables) /\ Begins(tables, tables')
      BY <2>1, <2>10, ConcatMembers
    <2>13. TablesShown'
      <3>1. ASSUME NEW t \in ToSet(tables') PROVE stage'[StageOf[t]] = "done"
        <4>1. CASE t \in ToSet(TablesOf[s])
          BY <1>3, <1>11, <4>1, StageTable
        <4>2. CASE t \in ToSet(tables)
          <5>1. t \in Tables /\ stage[StageOf[t]] = "done"
            BY <2>10, <4>2 DEF ReadInv, TablesShown, ToSet
          <5> QED BY <1>3, <1>11, <5>1, TableStage
        <4> QED BY <2>12, <3>1, <4>1, <4>2
      <3>2. ASSUME NEW t \in Tables, stage'[StageOf[t]] = "done" PROVE t \in ToSet(tables')
        <4>1. CASE StageOf[t] = s
          BY <1>5, <2>12, <4>1
        <4>2. CASE StageOf[t] # s
          BY <1>3, <1>11, <2>12, <3>2, <4>2, TableStage DEF ReadInv, TablesShown
        <4> QED BY <4>1, <4>2
      <3> QED BY <3>1, <3>2 DEF TablesShown
    <2>14. FilesKept'
      BY <1>1, <2>1, <2>10, <2>12 DEF ReadInv, FilesKept
    <2> QED BY <1>8, <2>9, <2>11, <2>13, <2>14 DEF ReadInv
  <1> QED BY <1>3, <1>10, <1>11

\* A fork that succeeded has finished every stage, and joins the phase as it stands
\* in the order; one that failed ends the walk.
LEMMA JoinReads ==
  ASSUME ReadInv, WalkInv', Join PROVE ReadInv'
  <1>1. /\ UNCHANGED <<table, known, phase, stage, failure, moved, printed, saved>>
        /\ saving = "nothing" /\ outcome = "running" /\ Forked
        /\ \A c \in DOMAIN Phases[phase] : ChainEnded(Phases[phase][c])
    BY DEF Join, recall
  <1>2. phase \in DOMAIN Phases /\ Phases[phase] \in Seq(Seq(Stages)) /\ phase <= Len(Phases)
    <2>1. phase \in DOMAIN Phases
      BY <1>1, OrderShape DEF Forked, ReadInv, PhasesOrdered
    <2> QED BY <1>1, <2>1, PhaseShape DEF Forked
  <1>3. Len(Phases[phase]) > 1 /\ Len(Phases[phase]) # 1 /\ Len(Phases[phase]) # 0 /\ Forked'
    <2>1. \A k \in Nat : k > 1 => k # 1 /\ k # 0
      OBVIOUS
    <2>2. Len(Phases[phase]) \in Nat /\ Len(Phases[phase]) > 1
      BY <1>1, <1>2 DEF Forked
    <2>3. Forked'
      BY <1>1 DEF Forked
    <2> QED BY <2>1, <2>2, <2>3
  <1>4. TablesWorked'
    BY <1>1 DEF ReadInv, TablesWorked
  <1>5. CASE failure # Nobody
    <2>1. UNCHANGED <<tables, saving>>
      BY <1>5 DEF Join
    <2>2. PhasesOrdered'
      BY <1>1, <1>5, <2>1 DEF ReadInv, PhasesOrdered, Forked
    <2>3. TablesPlaced' /\ TablesShown'
      BY <1>1, <2>1, SameDone
    <2>4. FilesKept'
      BY <1>1, <2>1 DEF ReadInv, FilesKept
    <2> QED BY <1>4, <2>2, <2>3, <2>4 DEF ReadInv
  <1>6. CASE failure = Nobody
    <2>1. tables' = tables \o Phase(phase) /\ saving' = "tables" /\ outcome' = outcome
      BY <1>6 DEF Join, Joined
    <2>2. \A r \in StagesOf(phase) : stage[r] = "done"
      <3> SUFFICES ASSUME NEW r \in StagesOf(phase) PROVE stage[r] = "done"
        OBVIOUS
      <3>1. PICK c \in DOMAIN Phases[phase] : \E n \in DOMAIN Phases[phase][c] : r = Phases[phase][c][n]
        BY <1>2, OnePlace
      <3>2. \A n \in DOMAIN Phases[phase][c] : stage[Phases[phase][c][n]] # "failed"
        BY <1>1, <1>2, <1>6, OnePlace DEF ReadInv, PhasesOrdered
      <3> QED BY <1>1, <3>1, <3>2 DEF ChainEnded
    <2>3. PhasesOrdered'
      BY <1>1, <1>2, <1>3, <2>1, <2>2 DEF ReadInv, PhasesOrdered
    <2>4. tables = Before(phase) /\ tables' = Before(phase + 1)
      <3>1. tables = Before(phase)
        BY <1>1 DEF ReadInv, TablesPlaced
      <3> QED BY <1>2, <2>1, <3>1, OrderShape
    <2>5. TablesPlaced'
      <3>1. phase' = phase /\ ~(phase > Len(Phases)) /\ saving' # "nothing"
        <4>1. phase \in 1..Len(Phases)+1 /\ Len(Phases) \in Nat
          BY OrderShape DEF ReadInv, PhasesOrdered
        <4> QED BY <1>1, <1>2, <2>1, <4>1
      <3> QED BY <1>3, <2>4, <3>1 DEF TablesPlaced
    <2>6. /\ tables \in Seq(Tables) /\ Phase(phase) \in Seq(Tables)
          /\ ToSet(tables') = ToSet(tables) \cup ToSet(Phase(phase))
          /\ tables' \in Seq(Tables) /\ Begins(tables, tables')
      <3>1. tables \in Seq(Tables) /\ Phase(phase) \in Seq(Tables)
        BY <1>2, PhaseShape DEF ReadInv, FilesKept
      <3> QED BY <2>1, <3>1, ConcatMembers
    <2>7. ToSet(Phase(phase)) = {t \in Tables : StageOf[t] \in StagesOf(phase)}
      BY <1>2, PhaseShape
    <2>8. TablesShown'
      BY <1>1, <2>2, <2>6, <2>7 DEF ReadInv, TablesShown
    <2>9. FilesKept'
      BY <1>1, <2>1, <2>6 DEF ReadInv, FilesKept
    <2> QED BY <1>4, <2>3, <2>5, <2>8, <2>9 DEF ReadInv
  <1> QED BY <1>5, <1>6

\* saveProgress prints what was joined.
LEMMA PrintReads ==
  ASSUME ReadInv, WalkInv', SaveTables PROVE ReadInv'
  <1>1. /\ UNCHANGED <<table, known, phase, stage, failure, tables, moved, saved>>
        /\ saving = "tables" /\ outcome = "running"
    BY DEF SaveTables, recall
  <1>2. \/ printed' = tables /\ saving' = "knowledge" /\ outcome' = outcome
        \/ outcome' = "unsaved" /\ UNCHANGED <<printed, saving>>
    BY DEF SaveTables
  <1>3. Forked' = Forked
    BY <1>1 DEF Forked
  <1>4. PhasesOrdered'
    BY <1>1, <1>2, <1>3 DEF ReadInv, PhasesOrdered
  <1>5. TablesWorked' /\ TablesPlaced' /\ TablesShown'
    BY <1>1, <1>2, <1>3 DEF ReadInv, TablesWorked, TablesPlaced, TablesShown
  <1>6. FilesKept'
    BY <1>1, <1>2 DEF ReadInv, FilesKept, Begins
  <1> QED BY <1>4, <1>5, <1>6 DEF ReadInv

\* When a file is saved every known row is of a table that is shown.
LEMMA AllShown ==
  ASSUME ReadInv, saving # "nothing", NEW x \in known PROVE x[1] \in ToSet(tables)
  <1>1. x[1] \in Tables /\ table[x[1]] = "done"
    BY RowParts DEF ReadInv, WalkInv, TypeOK, RecallTypeOK, TablesWorked
  <1>2. stage[StageOf[x[1]]] # "todo" /\ StageOf[x[1]] \in Stages
    BY <1>1, TableStage DEF ReadInv, WalkInv, StopsExplained
  <1>3. stage[StageOf[x[1]]] = "done"
    <2>1. CASE stage[StageOf[x[1]]] = "done"
      BY <2>1
    <2>2. CASE stage[StageOf[x[1]]] # "done"
      <3>1. StageOf[x[1]] \in StagesOf(phase)
        BY <1>2, <2>2, RunningHere DEF ReadInv
      <3> QED BY <1>2, <3>1 DEF ReadInv, PhasesOrdered
    <2> QED BY <2>1, <2>2
  <1> QED BY <1>1, <1>3 DEF ReadInv, TablesShown

\* saveProgress writes what is known, and the walk goes on behind a whole phase.
LEMMA PersistReads ==
  ASSUME ReadInv, WalkInv', PersistKnowledge PROVE ReadInv'
  <1>1. /\ UNCHANGED <<table, known, stage, failure, tables, printed>>
        /\ saving = "knowledge" /\ outcome = "running"
    BY DEF PersistKnowledge, recall
  <1>2. /\ phase <= Len(Phases) /\ phase \in DOMAIN Phases /\ Len(Phases[phase]) # 0
        /\ Len(Phases) \in Nat /\ phase \in Nat
        /\ \A s \in StagesOf(phase) : stage[s] \in {"todo", "done"} /\ (Forked => stage[s] = "done")
    BY <1>1, OrderShape DEF ReadInv, PhasesOrdered
  <1>3. TablesWorked'
    BY <1>1 DEF ReadInv, TablesWorked
  <1>4. CASE outcome' = "unsaved" /\ UNCHANGED <<saved, moved, saving, phase>>
    <2>1. Forked' = Forked
      BY <1>4 DEF Forked
    <2>2. PhasesOrdered'
      BY <1>1, <1>4, <2>1 DEF ReadInv, PhasesOrdered
    <2>3. TablesPlaced' /\ TablesShown'
      BY <1>1, <1>4, SameDone
    <2>4. FilesKept'
      BY <1>1, <1>4 DEF ReadInv, FilesKept
    <2> QED BY <1>3, <2>2, <2>3, <2>4 DEF ReadInv
  <1>5. CASE /\ saved' = IF moved THEN known ELSE saved
             /\ moved' = FALSE /\ saving' = "nothing"
             /\ phase' = NextPhase /\ UNCHANGED outcome
    <2>1. saved' = known /\ printed = tables
      BY <1>1, <1>5 DEF ReadInv, FilesKept
    <2>2. known = {x \in known : x[1] \in ToSet(printed)}
      BY <1>1, <2>1, AllShown
    <2>3. FilesKept'
      BY <1>1, <1>5, <2>1, <2>2 DEF ReadInv, FilesKept
    <2>4. TablesShown'
      BY <1>1, <1>5 DEF ReadInv, TablesShown
    <2>5. CASE \A s \in StagesOf(phase) : stage[s] = "done"
      <3>1. phase' = phase + 1
        BY <1>5, <2>5 DEF NextPhase
      <3>2. \A p \in DOMAIN Phases : \A s \in StagesOf(p) :
               (p < phase + 1 => stage[s] = "done") /\ (p > phase + 1 => stage[s] = "todo")
        <4> SUFFICES ASSUME NEW p \in DOMAIN Phases, NEW s \in StagesOf(p)
                     PROVE  (p < phase + 1 => stage[s] = "done") /\ (p > phase + 1 => stage[s] = "todo")
          OBVIOUS
        <4>1. p \in Nat
          BY OrderShape
        <4>2. p < phase + 1 => p < phase \/ p = phase
          BY <1>2, <4>1
        <4>3. p > phase + 1 => p > phase
          BY <1>2, <4>1
        <4> QED BY <2>5, <4>2, <4>3 DEF ReadInv, PhasesOrdered
      <3>3. phase + 1 <= Len(Phases) =>
               /\ phase + 1 \in DOMAIN Phases
               /\ \A s \in StagesOf(phase + 1) : stage[s] = "todo"
        <4> SUFFICES ASSUME phase + 1 <= Len(Phases)
                     PROVE  /\ phase + 1 \in DOMAIN Phases
                            /\ \A s \in StagesOf(phase + 1) : stage[s] = "todo"
          OBVIOUS
        <4>1. phase + 1 \in DOMAIN Phases /\ phase + 1 > phase
          BY <1>2, OrderShape
        <4> QED BY <4>1 DEF ReadInv, PhasesOrdered
      <3>4. PhasesOrdered'
        <4>1. phase + 1 \in 1..Len(Phases)+1
          BY <1>2
        <4>2. phase + 1 <= Len(Phases) =>
                 \A c \in DOMAIN Phases[phase+1] : \A n \in DOMAIN Phases[phase+1][c] :
                    stage[Phases[phase+1][c][n]] = "todo"
          BY <3>3, OnePlace
        <4> QED BY <1>1, <1>5, <3>1, <3>2, <4>1, <4>2 DEF ReadInv, PhasesOrdered
      <3>5. tables = Before(phase + 1) /\ Before(phase + 1) \in Seq(Tables)
        <4>1. phase + 1 \in 1..Len(Phases)+1 /\ phase \in 1..Len(Phases)
          BY <1>2, OrderShape
        <4>2. CASE Forked
          BY <1>1, <4>1, <4>2, OrderShape DEF ReadInv, TablesPlaced
        <4>3. CASE ~Forked
          <5> DEFINE chain == Phases[phase][1]
          <5>1. Phases[phase] \in Seq(Seq(Stages)) /\ Len(Phases[phase]) = 1 /\ 1 \in DOMAIN Phases[phase]
            <6>1. Phases[phase] \in Seq(Seq(Stages))
              BY <1>2, PhaseShape
            <6>2. Len(Phases[phase]) \in Nat /\ ~(Len(Phases[phase]) > 1)
              BY <1>2, <4>3, <6>1 DEF Forked
            <6>3. \A k \in Nat : ~(k > 1) /\ k # 0 => k = 1
              OBVIOUS
            <6>4. Len(Phases[phase]) = 1
              BY <1>2, <6>2, <6>3
            <6> QED BY <6>1, <6>4
          <5>2. chain \in Seq(Stages) /\ Len(chain) \in Nat /\ DOMAIN chain = 1..Len(chain)
            BY <5>1
          <5>3. \A n \in 1..Len(chain) : stage[chain[n]] = "done"
            BY <1>2, <2>5, <5>1, <5>2, OnePlace
          <5>4. PICK d \in 0..Len(chain) :
                   /\ \A n \in 1..Len(chain) : stage[chain[n]] = "done" <=> n <= d
                   /\ tables = Before(phase) \o Upto(chain, d)
            BY <1>2, <5>1, <5>2 DEF ReadInv, TablesPlaced
          <5>5. Chain(chain) = Phase(phase)
            BY <1>2, <5>1, PhaseShape
          <5> HIDE DEF chain
          <5>6. d = Len(chain)
            <6>1. Len(chain) \in 1..Len(chain) => Len(chain) <= d
              BY <5>3, <5>4
            <6>2. \A k \in Nat : \A e \in 0..k : (k \in 1..k => k <= e) => e = k
              OBVIOUS
            <6> QED BY <5>2, <6>1, <6>2
          <5>7. Upto(chain, Len(chain)) = Phase(phase)
            BY <5>2, <5>5, ChainShape
          <5> QED BY <4>1, <5>4, <5>6, <5>7, OrderShape
        <4> QED BY <4>2, <4>3
      <3>6. TablesPlaced'
        <4> SUFFICES ASSUME phase + 1 <= Len(Phases), Len(Phases[phase+1]) = 1
                     PROVE  \E d \in 0..Len(Phases[phase+1][1]) :
                               /\ \A n \in DOMAIN Phases[phase+1][1] : stage[Phases[phase+1][1][n]] = "done" <=> n <= d
                               /\ tables = Before(phase+1) \o Upto(Phases[phase+1][1], d)
          BY <1>1, <1>5, <3>1, <3>5 DEF TablesPlaced
        <4> DEFINE chain == Phases[phase+1][1]
        <4>1. Phases[phase+1] \in Seq(Seq(Stages)) /\ 1 \in DOMAIN Phases[phase+1]
          BY <3>3, PhaseShape
        <4>2. chain \in Seq(Stages) /\ Len(chain) \in Nat /\ DOMAIN chain = 1..Len(chain)
          BY <4>1
        <4>3. \A n \in 1..Len(chain) : stage[chain[n]] = "todo"
          BY <3>3, <4>1, <4>2, OnePlace
        <4> HIDE DEF chain
        <4>4. \A n \in 1..Len(chain) : ~(n <= 0)
          BY <4>2
        <4>5. Upto(chain, 0) = <<>> /\ Before(phase+1) \o <<>> = Before(phase+1)
          <5>1. Upto(chain, 0) = <<>>
            BY <4>2, ChainShape
          <5>2. \A u \in Seq(Tables) : u \o <<>> = u
            OBVIOUS
          <5> QED BY <3>5, <5>1, <5>2
        <4>6. 0 \in 0..Len(chain)
          BY <4>2
        <4>7. \E d \in 0..Len(chain) :
                 /\ \A n \in DOMAIN chain : stage[chain[n]] = "done" <=> n <= d
                 /\ tables = Before(phase+1) \o Upto(chain, d)
          BY <3>5, <4>2, <4>3, <4>4, <4>5, <4>6
        <4> QED BY <4>7 DEF chain
      <3> QED BY <1>3, <2>3, <2>4, <3>4, <3>6 DEF ReadInv
    <2>6. CASE \E s \in StagesOf(phase) : stage[s] # "done"
      <3>1. phase' = phase /\ ~Forked
        BY <1>2, <1>5, <2>6 DEF NextPhase
      <3>2. ~Forked'
        BY <3>1 DEF Forked
      <3>3. PhasesOrdered'
        BY <1>1, <1>5, <3>1, <3>2 DEF ReadInv, PhasesOrdered
      <3>4. TablesPlaced'
        BY <1>1, <3>1, <3>2 DEF ReadInv, TablesPlaced
      <3> QED BY <1>3, <2>3, <2>4, <3>3, <3>4 DEF ReadInv
    <2> QED BY <2>5, <2>6
  <1> QED BY <1>4, <1>5 DEF PersistKnowledge

LEMMA ReadStart == Init => ReadInv
  <1> SUFFICES ASSUME Init PROVE ReadInv
    OBVIOUS
  <1>1. WalkInv
    BY WalkStart
  <1>2. /\ phase = 1 /\ tables = <<>> /\ printed = <<>> /\ saved = {} /\ known = {}
        /\ saving = "nothing" /\ moved = TRUE
        /\ \A s \in Stages : stage[s] = "todo"
        /\ \A t \in Tables : table[t] = "todo"
    BY DEF Init, RecallInit
  <1>3. Len(Phases) \in Nat /\ DOMAIN Phases = 1..Len(Phases) /\ Before(1) = <<>>
    BY OrderShape
  <1>4. PhasesOrdered
    <2>1. 1 \in 1..Len(Phases)+1
      BY <1>3
    <2>2. \A p \in DOMAIN Phases : ~(p < 1)
      BY <1>3
    <2>3. ASSUME 1 <= Len(Phases), NEW c \in DOMAIN Phases[1], NEW n \in DOMAIN Phases[1][c]
          PROVE  stage[Phases[1][c][n]] = "todo"
      BY <1>2, <1>3, <2>3, OnePlace
    <2> QED BY <1>2, <2>1, <2>2, <2>3, OnePlace DEF PhasesOrdered
  <1>5. TablesWorked
    BY <1>2, TableStage DEF TablesWorked
  <1>6. TablesPlaced
    <2> SUFFICES ASSUME 1 <= Len(Phases), Len(Phases[1]) = 1
                 PROVE  \E d \in 0..Len(Phases[1][1]) :
                           /\ \A n \in DOMAIN Phases[1][1] : stage[Phases[1][1][n]] = "done" <=> n <= d
                           /\ tables = Before(1) \o Upto(Phases[1][1], d)
      BY <1>2, <1>3 DEF TablesPlaced, Forked
    <2> DEFINE chain == Phases[1][1]
    <2>1. 1 \in DOMAIN Phases /\ Phases[1] \in Seq(Seq(Stages)) /\ 1 \in DOMAIN Phases[1]
      <3>1. 1 \in DOMAIN Phases
        BY <1>3
      <3>2. Phases[1] \in Seq(Seq(Stages))
        BY <3>1, PhaseShape
      <3> QED BY <3>1, <3>2
    <2>2. chain \in Seq(Stages) /\ Len(chain) \in Nat /\ DOMAIN chain = 1..Len(chain)
      BY <2>1
    <2>3. \A n \in 1..Len(chain) : stage[chain[n]] = "todo"
      BY <1>2, <2>1, <2>2, OnePlace
    <2> HIDE DEF chain
    <2>4. (\A n \in 1..Len(chain) : ~(n <= 0)) /\ 0 \in 0..Len(chain)
      BY <2>2
    <2>5. Upto(chain, 0) = <<>> /\ Before(1) \o Upto(chain, 0) = <<>>
      <3>1. Upto(chain, 0) = <<>>
        BY <2>2, ChainShape
      <3>2. <<>> \o <<>> = <<>>
        OBVIOUS
      <3> QED BY <1>3, <3>1, <3>2
    <2>6. \E d \in 0..Len(chain) :
             /\ \A n \in DOMAIN chain : stage[chain[n]] = "done" <=> n <= d
             /\ tables = Before(1) \o Upto(chain, d)
      BY <1>2, <2>2, <2>3, <2>4, <2>5
    <2> QED BY <2>6 DEF chain
  <1>7. TablesShown
    <2>1. ToSet(tables) = {}
      BY <1>2 DEF ToSet
    <2> QED BY <1>2, <2>1, TableStage DEF TablesShown
  <1>8. FilesKept
    <2>1. tables \in Seq(Tables) /\ printed \in Seq(Tables) /\ Begins(printed, tables)
      BY <1>2 DEF Begins
    <2> QED BY <1>2, <2>1 DEF FilesKept
  <1> QED BY <1>1, <1>4, <1>5, <1>6, <1>7, <1>8 DEF ReadInv

\* What a step does to the tables, when it is none of the walk's own.
LEMMA ReadNext == ReadInv /\ WalkInv' /\ [Next]_vars => ReadInv'
  <1> SUFFICES ASSUME ReadInv, WalkInv', [Next]_vars PROVE ReadInv'
    OBVIOUS
  <1>0. moved' \in BOOLEAN
    BY DEF WalkInv, TypeOK
  <1>1. ASSUME NEW x \in Rows, PrepareRow(x) PROVE ReadInv'
    <2>1. UNCHANGED <<table, known, walk, files>>
      BY <1>1 DEF PrepareRow, Prepare, Take, Load, Wait, Wake, Read, Store, Recall
    <2> QED BY <1>0, <2>1, TableSteps DEF walk
  <1>2. ASSUME NEW t \in Tables, Ask(t) PROVE ReadInv'
    <2>1. table[t] = "preparing" /\ table' = [table EXCEPT ![t] = "asking"] /\ UNCHANGED <<known, walk, files>>
      BY <1>2 DEF Ask, AskMissing, Prepared
    <2>2. \A u \in Tables : table'[u] = IF u = t THEN "asking" ELSE table[u]
      BY <2>1 DEF ReadInv, WalkInv, TypeOK, RecallTypeOK
    <2> QED BY <1>0, <2>1, <2>2, TableSteps DEF walk
  <1>3. ASSUME NEW t \in Tables, Answered(t) PROVE ReadInv'
    <2>1. table[t] \in {"preparing", "asking"} /\ table' = [table EXCEPT ![t] = "done"]
      BY <1>3 DEF Answered, Answer, Bind, Prepared
    <2>2. \A u \in Tables : table'[u] = IF u = t THEN "done" ELSE table[u]
      BY <2>1 DEF ReadInv, WalkInv, TypeOK, RecallTypeOK
    <2>3. known \subseteq known' /\ \A x \in known' \ known : x[1] = t
      BY <1>3 DEF Answered, Answer, Bind, RowsIn
    <2>4. UNCHANGED <<phase, stage, failure, tables, saving, files>> /\ (~moved' => ~moved /\ known' = known)
      BY <1>3 DEF Answered
    <2> QED BY <1>0, <2>1, <2>2, <2>3, <2>4, TableSteps
  <1>4. ASSUME NEW t \in Tables, Stopped(t) PROVE ReadInv'
    <2>1. table[t] \in {"preparing", "asking"}
      BY <1>4 DEF Stopped, Break, Cut, Prepared
    <2>2. table' = [table EXCEPT ![t] = "failed"] \/ table' = [table EXCEPT ![t] = "canceled"]
      BY <1>4 DEF Stopped, Break, Cut
    <2>3. \A u \in Tables : table'[u] = table[u] \/ (u = t /\ table'[u] \in {"failed", "canceled"})
      BY <2>2 DEF ReadInv, WalkInv, TypeOK, RecallTypeOK
    <2>4. UNCHANGED <<known, phase, stage, failure, tables, saving, moved, files>>
      BY <1>4 DEF Stopped, Break, Cut
    <2> QED BY <1>0, <2>1, <2>3, <2>4, TableSteps
  <1>5. ASSUME Interrupt \/ Elsewhere \/ UNCHANGED vars PROVE ReadInv'
    <2>1. UNCHANGED <<table, known, walk, files>>
      BY <1>5 DEF Interrupt, Elsewhere, Others, recall, vars
    <2> QED BY <1>0, <2>1, TableSteps DEF walk
  <1>6. ASSUME Return PROVE ReadInv'
    <2>1. UNCHANGED <<table, known, walk, printed, saved>> /\ outcome' = "complete"
      BY <1>6 DEF Return, recall
    <2>2. UNCHANGED <<phase, stage, failure, tables, saving, moved>>
      BY <2>1 DEF walk
    <2>3. PhasesOrdered'
      BY <2>1, <2>2 DEF ReadInv, PhasesOrdered, Forked
    <2>4. TablesPlaced' /\ TablesShown'
      BY <2>2, SameDone
    <2>5. TablesWorked' /\ FilesKept'
      BY <2>1, <2>2 DEF ReadInv, TablesWorked, FilesKept
    <2> QED BY <2>3, <2>4, <2>5 DEF ReadInv
  <1> QED BY <1>1, <1>2, <1>3, <1>4, <1>5, <1>6, BeginReads, EndReads, JoinReads, PrintReads, PersistReads
          DEF Next, Step

\* At every moment the tables joined are where the step order begins, and the two
\* files hold what was joined when they were saved.  (walk, fork, saveProgress)
THEOREM ReadingInvariance == Spec => []ReadInv
  BY ReadStart, ReadNext, WalkInvariance, PTL DEF Spec

-----------------------------------------------------------------------------
(* The serial walk.                                                          *)

LEMMA TablesBegin ==
  ASSUME ReadInv PROVE Begins(tables, Order)
  <1>1. Len(Phases) \in Nat /\ DOMAIN Phases = 1..Len(Phases) /\ phase \in 1..Len(Phases)+1 /\ phase \in Nat
    BY OrderShape DEF ReadInv, PhasesOrdered
  <1>2. Before(phase) \in Seq(Tables) /\ Begins(Before(phase), Order)
    BY <1>1, OrderShape
  <1>3. CASE phase > Len(Phases)
    BY <1>2, <1>3 DEF ReadInv, TablesPlaced
  <1>4. CASE phase <= Len(Phases)
    <2>1. phase \in DOMAIN Phases /\ phase \in 1..Len(Phases) /\ phase + 1 \in 1..Len(Phases)+1
      BY <1>1, <1>4
    <2>2. /\ Before(phase+1) \in Seq(Tables) /\ Begins(Before(phase+1), Order)
          /\ Before(phase+1) = Before(phase) \o Phase(phase)
      BY <2>1, OrderShape
    <2>3. Phases[phase] \in Seq(Seq(Stages)) /\ Len(Phases[phase]) \in Nat
      BY <2>1, PhaseShape
    <2>4. \A k \in Nat : k = 0 \/ k = 1 \/ k > 1
      OBVIOUS
    <2>5. CASE Len(Phases[phase]) = 0
      BY <1>2, <1>4, <2>5 DEF ReadInv, TablesPlaced
    <2>6. CASE Len(Phases[phase]) > 1
      <3>1. tables = Before(phase) \/ tables = Before(phase+1)
        BY <1>4, <2>6 DEF Forked, ReadInv, TablesPlaced
      <3> QED BY <1>2, <2>2, <3>1
    <2>7. CASE Len(Phases[phase]) = 1
      <3> DEFINE chain == Phases[phase][1]
      <3>1. PICK d \in 0..Len(chain) : tables = Before(phase) \o Upto(chain, d)
        BY <1>4, <2>7 DEF ReadInv, TablesPlaced
      <3>2. chain \in Seq(Stages) /\ Chain(chain) = Phase(phase)
        BY <2>1, <2>3, <2>7, PhaseShape
      <3> HIDE DEF chain
      <3>3. Upto(chain, d) \in Seq(Tables) /\ Begins(Upto(chain, d), Phase(phase)) /\ Phase(phase) \in Seq(Tables)
        BY <3>2, ChainShape
      <3>4. Begins(tables, Before(phase+1))
        <4>1. \A a, b, c \in Seq(Tables) : Begins(a, b) => Begins(c \o a, c \o b)
          BY BeginsOn
        <4> QED BY <1>2, <2>2, <3>1, <3>3, <4>1
      <3>5. tables \in Seq(Tables) /\ Order \in Seq(Tables)
        BY OrderShape DEF ReadInv, FilesKept
      <3> QED BY <2>2, <3>4, <3>5, BeginsOn
    <2> QED BY <2>3, <2>4, <2>5, <2>6, <2>7
  <1> QED BY <1>1, <1>3, <1>4

Failed == {StageOf[t] : t \in {u \in Tables : table[u] = "failed"}}

\* The order that the abstract walk is instantiated with, and its members.
LEMMA OrderGiven ==
  /\ FlattenSeq([p \in DOMAIN Phases |-> Phase(p)]) = Order
  /\ {Order[n] : n \in DOMAIN Order} = Tables
  /\ {StageOf[Order[n]] : n \in DOMAIN Order} = {StageOf[t] : t \in Tables}
  <1>1. {Order[n] : n \in DOMAIN Order} = Tables
    BY OrderShape DEF ToSet
  <1> QED BY <1>1 DEF Order, Outline

\* What changes nothing of the files, the answers or the failures is a stutter.
LEMMA Stutters ==
  ASSUME UNCHANGED <<printed, known, saved, interrupted, outcome>>,
         \A t \in Tables : table'[t] = "failed" <=> table[t] = "failed"
  PROVE  [Serial!Next]_Serial!walk
  <1>1. Failed' = Failed
    BY DEF Failed
  <1> QED BY <1>1 DEF Serial!walk, Failed

LEMMA EndsSerially ==
  ASSUME ReadInv, outcome = "running", UNCHANGED <<printed, known, saved, interrupted, table>>,
         \/ outcome' \in Failed
         \/ outcome' = "interrupted" /\ interrupted
         \/ outcome' = "unsaved"
         \/ outcome' = "complete" /\ Failed = {} /\ printed = Order /\ saved = known
  PROVE  Serial!Next
  <1>1. Failed' = Failed
    BY DEF Failed
  <1>2. outcome' \in {StageOf[t] : t \in Tables} \cup {"complete", "interrupted", "unsaved"}
    BY DEF Failed
  <1>3. Serial!End(outcome')
    BY <1>1, OrderGiven DEF Serial!End, Failed
  <1> QED BY <1>2, <1>3, OrderGiven DEF Serial!Next

LEMMA StepsSerially ==
  ASSUME ReadInv, Next \/ UNCHANGED vars PROVE [Serial!Next]_Serial!walk
  <1> USE OrderGiven
  <1>a. table \in [Tables -> {"todo", "preparing", "asking", "done", "failed", "canceled"}]
    BY DEF ReadInv, WalkInv, TypeOK, RecallTypeOK
  <1>b. ASSUME NEW t \in Tables, table[t] \in {"preparing", "asking"}
        PROVE  t \notin {printed[n] : n \in DOMAIN printed}
    <2>1. stage[StageOf[t]] = "running"
      BY <1>b DEF ReadInv, TablesWorked
    <2> QED BY <2>1, PrintedDone DEF ToSet
  <1>1. ASSUME NEW s \in Stages, BeginStage(s) PROVE [Serial!Next]_Serial!walk
    <2>1. stage[s] = "todo" /\ UNCHANGED <<known, files, interrupted>>
      BY <1>1 DEF BeginStage
    <2>2. \A t \in ToSet(TablesOf[s]) : table[t] = "todo"
      BY <2>1, StageTable DEF ReadInv, WalkInv, StopsExplained
    <2>3. \A t \in Tables : table'[t] = "failed" <=> table[t] = "failed"
      BY <1>1, <2>2 DEF BeginStage, StartTables
    <2> QED BY <2>1, <2>3, Stutters DEF files
  <1>2. ASSUME NEW s \in Stages, EndStage(s) PROVE [Serial!Next]_Serial!walk
    <2>1. UNCHANGED <<table, known, printed, saved, interrupted>> /\ outcome = "running"
      BY <1>2 DEF EndStage, recall
    <2>2. CASE outcome' = outcome
      BY <2>1, <2>2, Stutters
    <2>3. CASE outcome' # outcome
      <3>1. /\ ~Forked /\ outcome' = Error(s)
            /\ \A t \in ToSet(TablesOf[s]) : table[t] \in {"done", "failed", "canceled"}
            /\ \E t \in ToSet(TablesOf[s]) : table[t] # "done"
        BY <1>2, <2>3 DEF EndStage
      <3>2. \/ Error(s) = s /\ \E t \in Tables : table[t] = "failed" /\ StageOf[t] = s
            \/ Error(s) = "interrupted" /\ (interrupted \/ failure # Nobody)
        BY <3>1, ErrorKinds DEF ReadInv, WalkInv
      <3>3. failure = Nobody
        BY <3>1 DEF ReadInv, WalkInv, StopsExplained
      <3>4. outcome' \in Failed \/ (outcome' = "interrupted" /\ interrupted)
        BY <3>1, <3>2, <3>3 DEF Failed
      <3> QED BY <2>1, <3>4, EndsSerially
    <2> QED BY <2>2, <2>3
  <1>3. ASSUME NEW x \in Rows, PrepareRow(x) PROVE [Serial!Next]_Serial!walk
    <2>1. UNCHANGED <<table, known, walk, files, interrupted>>
      BY <1>3 DEF PrepareRow, Prepare, Take, Load, Wait, Wake, Read, Store, Recall
    <2> QED BY <2>1, Stutters DEF files
  <1>4. ASSUME NEW t \in Tables, Ask(t) PROVE [Serial!Next]_Serial!walk
    <2>1. table[t] = "preparing" /\ table' = [table EXCEPT ![t] = "asking"] /\ UNCHANGED <<known, files, interrupted>>
      BY <1>4 DEF Ask, AskMissing, Prepared
    <2>2. \A u \in Tables : table'[u] = "failed" <=> table[u] = "failed"
      BY <1>a, <2>1
    <2> QED BY <2>1, <2>2, Stutters DEF files
  <1>5. ASSUME NEW t \in Tables, Answered(t) PROVE Serial!Next
    <2>1. /\ table[t] \in {"preparing", "asking"} /\ table' = [table EXCEPT ![t] = "done"]
          /\ UNCHANGED <<files, interrupted>>
      BY <1>5 DEF Answered, Answer, Bind, Prepared
    <2>2. PICK own : own \subseteq RowsIn(t) /\ known' = known \cup own
      BY <1>5 DEF Answered, Answer, Bind
    <2>3. Failed' = Failed
      <3>1. \A u \in Tables : table'[u] = "failed" <=> table[u] = "failed"
        BY <1>a, <2>1
      <3> QED BY <3>1 DEF Failed
    <2>4. Serial!Answer(t)
      BY <1>b, <2>1, <2>2, <2>3 DEF Serial!Answer, Serial!Printed, Failed, RowsIn, files
    <2> QED BY <2>4 DEF Serial!Next
  <1>6. ASSUME NEW t \in Tables, Stopped(t) PROVE [Serial!Next]_Serial!walk
    <2>1. table[t] \in {"preparing", "asking"} /\ UNCHANGED <<known, files, interrupted>>
      BY <1>6 DEF Stopped, Break, Cut, Prepared
    <2>2. CASE table' = [table EXCEPT ![t] = "failed"]
      <3>1. \A u \in Tables : table'[u] = "failed" <=> table[u] = "failed" \/ u = t
        BY <1>a, <2>2
      <3>2. Failed' = Failed \cup {StageOf[t]}
        BY <3>1 DEF Failed
      <3>3. Serial!Break(t)
        BY <1>b, <2>1, <3>2 DEF Serial!Break, Serial!Printed, Failed, files
      <3> QED BY <3>3 DEF Serial!Next
    <2>3. CASE table' = [table EXCEPT ![t] = "canceled"]
      <3>1. \A u \in Tables : table'[u] = "failed" <=> table[u] = "failed"
        BY <1>a, <2>1, <2>3
      <3> QED BY <2>1, <3>1, Stutters DEF files
    <2> QED BY <1>6, <2>2, <2>3 DEF Stopped, Break, Cut
  <1>7. ASSUME Join PROVE [Serial!Next]_Serial!walk
    <2>1. UNCHANGED <<table, known, printed, saved, interrupted>> /\ outcome = "running"
      BY <1>7 DEF Join, recall
    <2>2. CASE outcome' = outcome
      BY <2>1, <2>2, Stutters
    <2>3. CASE outcome' # outcome
      <3>1. outcome' = failure /\ failure # Nobody
        BY <1>7, <2>3 DEF Join
      <3>2. outcome' \in Failed \/ (outcome' = "interrupted" /\ interrupted)
        BY <3>1 DEF ReadInv, WalkInv, TypeOK, StopsExplained, Failed
      <3> QED BY <2>1, <3>2, EndsSerially
    <2> QED BY <2>2, <2>3
  <1>8. ASSUME SaveTables PROVE [Serial!Next]_Serial!walk
    <2>1. UNCHANGED <<table, known, saved, interrupted>> /\ outcome = "running"
      BY <1>8 DEF SaveTables, recall
    <2>2. CASE outcome' = "unsaved" /\ printed' = printed
      BY <2>1, <2>2, EndsSerially
    <2>3. CASE printed' = tables /\ outcome' = outcome
      <3>1. tables \in Seq(Tables) /\ printed \in Seq(Tables) /\ Order \in Seq(Tables)
            /\ Begins(printed, tables) /\ Begins(tables, Order)
        BY TablesBegin, OrderShape DEF ReadInv, FilesKept
      <3>2. Failed' = Failed
        BY <2>1 DEF Failed
      <3>3. CASE Len(tables) = Len(printed)
        <4>1. \A n \in 1..Len(printed) : tables[n] = printed[n]
          BY <3>1, <3>3 DEF Begins
        <4>2. printed = [n \in 1..Len(printed) |-> printed[n]]
          BY <3>1
        <4>3. tables = [n \in 1..Len(printed) |-> tables[n]]
          BY <3>1, <3>3
        <4>4. printed = tables
          <5> DEFINE L == Len(printed)
          <5>1. /\ printed = [n \in 1..L |-> printed[n]]
                /\ tables = [n \in 1..L |-> tables[n]]
                /\ \A n \in 1..L : tables[n] = printed[n]
            BY <4>1, <4>2, <4>3
          <5> HIDE DEF L
          <5>2. [n \in 1..L |-> tables[n]] = [n \in 1..L |-> printed[n]]
            BY <5>1
          <5> QED BY <5>1, <5>2
        <4> QED BY <2>1, <2>3, <4>4, Stutters
      <3>4. CASE Len(tables) # Len(printed)
        <4>1. Len(tables) > Len(printed) /\ Len(tables) \in DOMAIN Order
          BY <3>1, <3>4 DEF Begins
        <4>2. tables = SubSeq(Order, 1, Len(tables))
          <5> DEFINE L == Len(tables)
          <5>1. L \in Nat /\ L - 1 + 1 = L /\ \A i \in 1..L : 1 + i - 1 = i /\ Order[i] = tables[i]
            BY <3>1 DEF Begins
          <5>2. SubSeq(Order, 1, L) = [i \in 1..(L - 1 + 1) |-> Order[1 + i - 1]]
            BY DEF SubSeq
          <5>3. tables = [i \in 1..L |-> tables[i]]
            BY <3>1
          <5> HIDE DEF L
          <5>4. SubSeq(Order, 1, L) = [i \in 1..L |-> tables[i]]
            BY <5>1, <5>2
          <5> QED BY <5>3, <5>4 DEF L
        <4>3. Serial!Join(Len(tables))
          BY <2>1, <2>3, <3>2, <4>1, <4>2 DEF Serial!Join, Failed
        <4> QED BY <4>1, <4>3 DEF Serial!Next
      <3> QED BY <3>3, <3>4
    <2> QED BY <1>8, <2>2, <2>3 DEF SaveTables
  <1>9. ASSUME PersistKnowledge PROVE [Serial!Next]_Serial!walk
    <2>1. UNCHANGED <<table, known, printed, interrupted>> /\ outcome = "running" /\ saving = "knowledge"
      BY <1>9 DEF PersistKnowledge, recall
    <2>2. CASE outcome' = "unsaved" /\ saved' = saved
      BY <2>1, <2>2, EndsSerially
    <2>3. CASE saved' = (IF moved THEN known ELSE saved) /\ outcome' = outcome
      <3>1. saved' = known /\ printed = tables
        BY <2>1, <2>3 DEF ReadInv, FilesKept
      <3>2. known = {x \in known : x[1] \in {printed[n] : n \in DOMAIN printed}}
        BY <2>1, <3>1, AllShown DEF ToSet
      <3>3. Failed' = Failed
        BY <2>1 DEF Failed
      <3>4. Serial!Save
        BY <2>1, <2>3, <3>1, <3>2, <3>3 DEF Serial!Save, Serial!Printed, Failed
      <3> QED BY <3>4 DEF Serial!Next
    <2> QED BY <1>9, <2>2, <2>3 DEF PersistKnowledge
  <1>10. ASSUME Return PROVE [Serial!Next]_Serial!walk
    <2>1. /\ UNCHANGED <<table, known, printed, saved, interrupted>> /\ outcome = "running"
          /\ outcome' = "complete" /\ phase > Len(Phases)
      BY <1>10 DEF Return, recall
    <2>2. Len(Phases) \in Nat /\ phase = Len(Phases) + 1 /\ ~Forked /\ saving = "nothing"
      BY <2>1, OrderShape DEF Forked, ReadInv, PhasesOrdered
    <2>3. \A t \in Tables : stage[StageOf[t]] = "done"
      <3> SUFFICES ASSUME NEW t \in Tables PROVE stage[StageOf[t]] = "done"
        OBVIOUS
      <3>1. PICK p \in DOMAIN Phases : StageOf[t] \in StagesOf(p)
        BY TableStage, OnePlace
      <3>2. p < phase
        BY <2>2, OrderShape
      <3> QED BY <3>1, <3>2 DEF ReadInv, PhasesOrdered
    <2>4. Failed = {}
      BY <2>3 DEF Failed, ReadInv, TablesWorked
    <2>5. printed = tables /\ tables = Order
      BY <2>1, <2>2, OrderShape DEF ReadInv, FilesKept, TablesPlaced
    <2>6. saved = known
      <3>1. \A x \in known : x[1] \in ToSet(printed)
        BY <2>5, OrderShape, RowParts DEF ReadInv, WalkInv, TypeOK, RecallTypeOK
      <3> QED BY <2>2, <3>1 DEF ReadInv, FilesKept
    <2> QED BY <2>1, <2>4, <2>5, <2>6, EndsSerially
  <1>11. ASSUME Interrupt PROVE Serial!Next
    <2>1. UNCHANGED <<known, files, table>> /\ interrupted' = TRUE
      BY <1>11 DEF Interrupt, recall
    <2>2. Serial!Interrupt
      BY <2>1 DEF Serial!Interrupt, files
    <2> QED BY <2>2 DEF Serial!Next
  <1>12. ASSUME Elsewhere \/ UNCHANGED vars PROVE [Serial!Next]_Serial!walk
    <2>1. UNCHANGED <<table, known, files, interrupted>>
      BY <1>12 DEF Elsewhere, Others, recall, vars
    <2> QED BY <2>1, Stutters DEF files
  <1> QED BY <1>1, <1>2, <1>3, <1>4, <1>5, <1>6, <1>7, <1>8, <1>9, <1>10, <1>11, <1>12 DEF Next, Step

\* However the stages of a walk ran, its files and its end are those of the walk that
\* takes one table after another.  (fork, view, join, saveProgress)
THEOREM WalkIsSerial == Spec => SerialOrder
  <1>1. Init => Serial!Init
    BY DEF Init, RecallInit, Serial!Init
  <1>2. ReadInv /\ [Next]_vars => [Serial!Next]_Serial!walk
    BY StepsSerially
  <1> QED BY <1>1, <1>2, ReadingInvariance, PTL DEF Spec, SerialOrder, Serial!Spec


-----------------------------------------------------------------------------
(* Nobody waits for nobody.                                                  *)

\* A response that is being loaded is in the hands of a row.
LoadersRead ==
    \A k \in loading : \E x \in Rows : at[x] \in {"reading", "storing"} /\ bound[x] = k

\* A serial phase is left when its last stage is saved, and a running stage has
\* begun its tables.
PhasesLeft ==
    /\ outcome = "running" /\ saving = "nothing" /\ phase <= Len(Phases) /\ ~Forked =>
          \E s \in StagesOf(phase) : stage[s] # "done"
    /\ \A t \in Tables : stage[StageOf[t]] = "running" => table[t] # "todo"

\* A row, a table, a stage or the fork need wait for nobody: the guards of Step.
RowGoesOn(x) ==
    \/ at[x] \in {"recalling", "reading", "storing"}
    \/ at[x] = "waiting" /\ bound[x] \notin loading
    \/ /\ at[x] = "todo" /\ table[x[1]] = "preparing"
       /\ \A y \in RowsIn(x[1]) : y[2] < x[2] => at[y] # "todo"
       /\ Cardinality(Preparing(x[1])) < Processors

TableGoesOn(t) == Prepared(t) \/ table[t] = "asking"

StageGoesOn(s) ==
    \/ stage[s] = "todo" /\ Turn(s)
    \/ stage[s] = "running" /\ \A t \in ToSet(TablesOf[s]) : table[t] \in {"done", "failed", "canceled"}

ForkGoesOn == Forked /\ \A c \in DOMAIN Phases[phase] : ChainEnded(Phases[phase][c])

\* While a walk runs somebody can go on: no row waits for a response that nobody
\* loads, no stage for a table that nobody works on, no fork for a chain that stands still.
SomeoneGoesOn ==
    outcome = "running" =>
        \/ saving # "nothing" \/ phase > Len(Phases) \/ ForkGoesOn
        \/ \E x \in Rows : RowGoesOn(x)
        \/ \E t \in Tables : TableGoesOn(t)
        \/ \E s \in Stages : StageGoesOn(s)

\* A row that reads a response was loading it, and stores it before anyone forgets.
LEMMA LoadersStart == Init => LoadersRead
  BY DEF Init, RecallInit, LoadersRead

LEMMA LoadersNext == RecallInv /\ LoadersRead /\ [Next]_vars => LoadersRead'
  <1> SUFFICES ASSUME RecallInv, LoadersRead, [Next]_vars PROVE LoadersRead'
    OBVIOUS
  <1>0. at \in [Rows -> {"todo", "recalling", "reading", "storing", "waiting", "ready"}]
        /\ bound \in [Rows -> Keys \cup {Unknown}]
    BY DEF RecallInv, RecallTypeOK
  <1>1. ASSUME loading' \subseteq loading,
               \A y \in Rows : at[y] \in {"reading", "storing"} =>
                  /\ at'[y] \in {"reading", "storing"} /\ bound'[y] = bound[y]
        PROVE  LoadersRead'
    <2> SUFFICES ASSUME NEW k \in loading'
                 PROVE  \E y \in Rows : at'[y] \in {"reading", "storing"} /\ bound'[y] = k
      BY DEF LoadersRead
    <2>1. PICK y \in Rows : at[y] \in {"reading", "storing"} /\ bound[y] = k
      BY <1>1 DEF LoadersRead
    <2> QED BY <1>1, <2>1
  <1>2. ASSUME NEW x \in Rows, PrepareRow(x) PROVE LoadersRead'
    <2>1. CASE Take(x) \/ Wait(x) \/ Wake(x) \/ Read(x) \/ Recall(x)
      <3>1. loading' = loading
        BY <2>1 DEF Take, Wait, Wake, Read, Recall
      <3>2. ASSUME NEW y \in Rows, at[y] \in {"reading", "storing"}
            PROVE  at'[y] \in {"reading", "storing"} /\ bound'[y] = bound[y]
        BY <1>0, <2>1, <3>2 DEF Take, Wait, Wake, Read, Recall
      <3> QED BY <1>1, <3>1, <3>2
    <2>2. CASE Load(x)
      <3>1. /\ loading' = loading \cup {bound[x]} /\ bound' = bound
            /\ \A y \in Rows : at'[y] = IF y = x THEN "reading" ELSE at[y]
        BY <1>0, <2>2 DEF Load
      <3> QED BY <3>1 DEF LoadersRead
    <2>3. CASE Store(x)
      <3>1. /\ loading' = loading \ {bound[x]} /\ bound' = bound
            /\ \A y \in Rows : at'[y] = IF y = x THEN "ready" ELSE at[y]
        BY <1>0, <2>3 DEF Store, NoLonger
      <3> SUFFICES ASSUME NEW k \in loading, k # bound[x]
                   PROVE  \E y \in Rows : at'[y] \in {"reading", "storing"} /\ bound'[y] = k
        BY <3>1 DEF LoadersRead
      <3>2. PICK y \in Rows : at[y] \in {"reading", "storing"} /\ bound[y] = k
        BY DEF LoadersRead
      <3> QED BY <3>1, <3>2
    <2> QED BY <1>2, <2>1, <2>2, <2>3 DEF PrepareRow, Prepare
  <1>3. ASSUME UNCHANGED rows PROVE LoadersRead'
    BY <1>1, <1>3 DEF rows
  <1>4. (\A x \in Rows : ~PrepareRow(x)) => UNCHANGED rows
    BY DEF Next, Step, BeginStage, EndStage, Ask, AskMissing, Answered, Answer, Stopped, Break, Cut, Join,
       SaveTables, PersistKnowledge, Return, Interrupt, Elsewhere, Others, recall, rows, vars
  <1> QED BY <1>2, <1>3, <1>4

\* A row that waits waits for a row that reads.
\* (loadOnce's condition variable)
THEOREM LoadersSafety == Spec => []LoadersRead
  BY LoadersStart, LoadersNext, RecallInvariance, PTL DEF Spec

LEMMA LeftStart == Init /\ (\A p \in DOMAIN Phases : StagesOf(p) # {}) => PhasesLeft
  <1> SUFFICES ASSUME Init, \A p \in DOMAIN Phases : StagesOf(p) # {} PROVE PhasesLeft
    OBVIOUS
  <1>1. phase = 1 /\ \A s \in Stages : stage[s] = "todo"
    BY DEF Init
  <1>2. phase <= Len(Phases) => \E s \in StagesOf(phase) : stage[s] # "done"
    <2> SUFFICES ASSUME phase <= Len(Phases) PROVE \E s \in StagesOf(phase) : stage[s] # "done"
      OBVIOUS
    <2>1. phase \in DOMAIN Phases
      BY <1>1, OrderShape
    <2> QED BY <1>1, <2>1, OnePlace
  <1> QED BY <1>1, <1>2, TableStage DEF PhasesLeft

LEMMA LeftNext ==
  ASSUME ReadInv, ReadInv', PhasesLeft, [Next]_vars, \A p \in DOMAIN Phases : StagesOf(p) # {}
  PROVE  PhasesLeft'
  <1>0. /\ table \in [Tables -> {"todo", "preparing", "asking", "done", "failed", "canceled"}]
        /\ stage \in [Stages -> {"todo", "running", "done", "failed"}]
        /\ Len(Phases) \in Nat /\ DOMAIN Phases = 1..Len(Phases) /\ phase \in 1..Len(Phases)+1
    BY OrderShape DEF ReadInv, WalkInv, TypeOK, RecallTypeOK, PhasesOrdered
  <1>1. ASSUME UNCHANGED <<phase, saving>>, stage' = stage, outcome' = outcome \/ outcome' # "running",
               \A t \in Tables : table[t] # "todo" => table'[t] # "todo"
        PROVE  PhasesLeft'
    BY <1>1, TableStage DEF PhasesLeft, Forked
  <1>2. ASSUME NEW s \in Stages, BeginStage(s) PROVE PhasesLeft'
    <2>1. /\ UNCHANGED <<phase, saving, outcome>> /\ stage[s] = "todo"
          /\ \A r \in Stages : stage'[r] = IF r = s THEN "running" ELSE stage[r]
          /\ \A t \in Tables : table'[t] = IF t \in ToSet(TablesOf[s]) THEN "preparing" ELSE table[t]
      BY <1>0, <1>2 DEF BeginStage, StartTables, files
    <2>2. \A t \in Tables : stage'[StageOf[t]] = "running" => table'[t] # "todo"
      BY <2>1, TableStage DEF PhasesLeft
    <2>3. /\ outcome = "running" /\ saving = "nothing" /\ phase <= Len(Phases) /\ ~Forked =>
             \E r \in StagesOf(phase) : stage'[r] # "done"
      <3> SUFFICES ASSUME outcome = "running", saving = "nothing", phase <= Len(Phases), ~Forked
                   PROVE  \E r \in StagesOf(phase) : stage'[r] # "done"
        OBVIOUS
      <3>1. PICK r \in StagesOf(phase) : stage[r] # "done"
        BY DEF PhasesLeft
      <3>2. r \in Stages
        BY <1>0, OnePlace
      <3> QED BY <2>1, <3>1, <3>2
    <2> QED BY <2>1, <2>2, <2>3 DEF PhasesLeft, Forked
  <1>3. ASSUME NEW s \in Stages, EndStage(s) PROVE PhasesLeft'
    <2>1. /\ UNCHANGED <<phase, table>>
          /\ \E how \in {"done", "failed"} : stage' = [stage EXCEPT ![s] = how]
          /\ Forked \/ saving' = "tables" \/ outcome' = Error(s)
      BY <1>3 DEF EndStage, recall
    <2>2. ASSUME stage'[s] = "failed", ~Forked PROVE outcome' # "running"
      <3>1. failure' = Nobody
        BY <2>1, <2>2 DEF ReadInv, WalkInv, StopsExplained, Forked
      <3> QED BY <2>2, <3>1 DEF ReadInv, PhasesOrdered
    <2>3. ASSUME stage'[s] # "failed", ~Forked PROVE saving' = "tables"
      BY <1>0, <1>3, <2>3 DEF EndStage
    <2>4. \A t \in Tables : stage'[StageOf[t]] = "running" => table'[t] # "todo"
      BY <1>0, <2>1, TableStage DEF PhasesLeft
    <2> QED BY <2>1, <2>2, <2>3, <2>4 DEF PhasesLeft, Forked
  <1>4. CASE PersistKnowledge
    <2>1. UNCHANGED <<stage, table>>
      BY <1>4 DEF PersistKnowledge, recall
    <2>2. CASE outcome' = "unsaved"
      BY <2>1, <2>2 DEF PhasesLeft
    <2>3. CASE phase' = NextPhase /\ outcome' = outcome
      <3>1. phase' \in {phase, phase + 1} /\ (phase' = phase => \E s \in StagesOf(phase) : stage[s] # "done")
        <4>1. phase # phase + 1
          BY <1>0
        <4> QED BY <2>3, <4>1 DEF NextPhase
      <3>2. ASSUME phase' = phase + 1, phase' <= Len(Phases)
            PROVE  \E s \in StagesOf(phase') : stage'[s] # "done"
        <4>1. phase' \in DOMAIN Phases /\ phase' > phase
          BY <1>0, <3>2
        <4>2. PICK s : s \in StagesOf(phase')
          BY <4>1
        <4>3. stage[s] = "todo"
          BY <4>1, <4>2 DEF ReadInv, PhasesOrdered
        <4> QED BY <2>1, <4>2, <4>3
      <3> QED BY <2>1, <3>1, <3>2 DEF PhasesLeft
    <2> QED BY <1>4, <2>2, <2>3 DEF PersistKnowledge
  <1>5. CASE Join \/ SaveTables
    <2>1. /\ UNCHANGED <<stage, table, phase>>
          /\ saving' # "nothing" \/ outcome' # "running" \/ Forked
      BY <1>5 DEF Join, SaveTables, recall
    <2> QED BY <2>1 DEF PhasesLeft, Forked
  <1>6. ASSUME NEW t \in Tables, Ask(t) \/ Answered(t) \/ Stopped(t) PROVE PhasesLeft'
    <2>1. /\ UNCHANGED <<phase, saving, stage, outcome>>
          /\ \E how \in {"asking", "done", "failed", "canceled"} : table' = [table EXCEPT ![t] = how]
      BY <1>6 DEF Ask, AskMissing, Answered, Answer, Bind, Stopped, Break, Cut, walk, files
    <2>2. \A u \in Tables : table[u] # "todo" => table'[u] # "todo"
      BY <1>0, <2>1
    <2> QED BY <1>1, <2>1, <2>2
  <1>7. ASSUME NEW x \in Rows, PrepareRow(x) PROVE PhasesLeft'
    <2>1. UNCHANGED <<phase, saving, stage, outcome, table>>
      BY <1>7 DEF PrepareRow, Prepare, Take, Load, Wait, Wake, Read, Store, Recall, walk, files
    <2> QED BY <1>1, <2>1
  <1>8. CASE Return \/ Interrupt \/ Elsewhere \/ UNCHANGED vars
    <2>1. UNCHANGED <<phase, saving, stage, table>> /\ (outcome' = outcome \/ outcome' # "running")
      BY <1>8 DEF Return, Interrupt, Elsewhere, Others, walk, files, recall, vars
    <2> QED BY <1>1, <2>1
  <1> QED BY <1>2, <1>3, <1>4, <1>5, <1>6, <1>7, <1>8 DEF Next, Step

\* Of the rows of a table that is being prepared all are ready or one, of this or of
\* another table, goes on.
LEMMA RowsGoOn ==
  ASSUME RecallInv, LoadersRead, NEW t \in Tables, table[t] = "preparing", ~Prepared(t)
  PROVE  \E x \in Rows : RowGoesOn(x)
  <1>1. /\ at \in [Rows -> {"todo", "recalling", "reading", "storing", "waiting", "ready"}]
        /\ Processors \in Nat \ {0}
    BY RecallAssumption DEF RecallInv, RecallTypeOK
  <1>2. CASE \E x \in Rows : at[x] \in {"recalling", "reading", "storing"}
    BY <1>2 DEF RowGoesOn
  <1>3. CASE \A x \in Rows : at[x] \notin {"recalling", "reading", "storing"}
    <2>1. loading = {}
      BY <1>3 DEF LoadersRead
    <2>2. CASE \E x \in Rows : at[x] = "waiting"
      BY <2>1, <2>2 DEF RowGoesOn
    <2>3. CASE \A x \in Rows : at[x] # "waiting"
      <3>1. Preparing(t) = {}
        BY <1>1, <1>3, <2>3 DEF Preparing, RowsIn
      <3>2. Cardinality(Preparing(t)) < Processors
        BY <1>1, <3>1, FS_EmptySet
      <3> DEFINE open == {i \in Nat : \E x \in RowsIn(t) : x[2] = i /\ at[x] = "todo"}
      <3>3. PICK y \in RowsIn(t) : at[y] # "ready"
        BY DEF Prepared
      <3>4. y \in Rows /\ at[y] = "todo" /\ y[2] \in DOMAIN BasisOf[t] /\ BasisOf[t] \in Seq(Bases)
        BY <1>1, <1>3, <2>3, <3>3, RowParts, RecallAssumption DEF RowsIn
      <3>5. open # {} /\ open \in SUBSET Nat
        <4>1. y[2] \in Nat
          BY <3>4
        <4>2. y[2] \in open
          BY <3>3, <3>4, <4>1
        <4> QED BY <4>2
      <3> HIDE DEF open
      <3>6. PICK i \in open : \A j \in open : i <= j
        BY <3>5, FirstExists
      <3>7. PICK x \in RowsIn(t) : x[2] = i /\ at[x] = "todo"
        BY <3>6 DEF open
      <3>8. ASSUME NEW z \in RowsIn(t), z[2] < x[2] PROVE at[z] # "todo"
        <4>1. z[2] \in Nat /\ i \in Nat
          <5>1. z \in Rows /\ z[1] = t
            BY DEF RowsIn
          <5>2. z[2] \in DOMAIN BasisOf[t] /\ BasisOf[t] \in Seq(Bases)
            BY <5>1, RowParts, RecallAssumption
          <5> QED BY <3>5, <5>2
        <4>2. ~(i <= z[2])
          BY <3>7, <3>8, <4>1
        <4> QED BY <3>6, <4>1, <4>2 DEF open
      <3>9. x \in Rows /\ x[1] = t
        BY <3>7 DEF RowsIn
      <3> QED BY <3>2, <3>7, <3>8, <3>9 DEF RowGoesOn
    <2> QED BY <2>2, <2>3
  <1> QED BY <1>2, <1>3

\* Of a chain that has not ended the first stage that is not done runs or may begin.
LEMMA ChainGoesOn ==
  ASSUME ReadInv, phase <= Len(Phases), NEW c \in DOMAIN Phases[phase], ~ChainEnded(Phases[phase][c])
  PROVE  \E s \in Stages : stage[s] = "running" \/ StageGoesOn(s)
  <1> DEFINE chain == Phases[phase][c]
             open == {n \in DOMAIN chain : stage[chain[n]] # "done"}
  <1>1. phase \in DOMAIN Phases
    BY OrderShape DEF ReadInv, PhasesOrdered
  <1>2. chain \in Seq(Stages) /\ \A n \in DOMAIN chain : chain[n] \in Stages
    BY <1>1, PhaseShape, OnePlace
  <1>3. open # {} /\ open \in SUBSET Nat /\ \A n \in DOMAIN chain : stage[chain[n]] # "failed"
    BY <1>2 DEF ChainEnded
  <1> HIDE DEF open
  <1>4. PICK n \in open : \A m \in open : n <= m
    BY <1>3, FirstExists
  <1>5. n \in DOMAIN chain /\ n \in Nat /\ stage[chain[n]] # "done"
    BY <1>2, <1>4 DEF open
  <1>6. \A m \in 1..n-1 : stage[chain[m]] = "done"
    <2> SUFFICES ASSUME NEW m \in 1..n-1, stage[chain[m]] # "done" PROVE FALSE
      OBVIOUS
    <2>1. m \in DOMAIN chain /\ ~(n <= m)
      BY <1>2, <1>5
    <2> QED BY <1>4, <2>1 DEF open
  <1>7. chain[n] \in Stages /\ stage[chain[n]] \in {"todo", "running"}
    <2>1. chain[n] \in Stages
      BY <1>2, <1>5
    <2>2. stage[chain[n]] \in {"todo", "running", "done", "failed"}
      BY <2>1 DEF ReadInv, WalkInv, TypeOK
    <2> QED BY <1>3, <1>5, <2>1, <2>2
  <1>8. Turn(chain[n])
    BY <1>5, <1>6 DEF Turn
  <1> QED BY <1>7, <1>8 DEF StageGoesOn

\* Nobody in a walk waits for nobody: whatever failed, was cancelled or was loaded by
\* another row, somebody goes on until the walk returns.  A phase has a stage, as every
\* one of readingPhases does.  (loadOnce, fork, describeDeclarations, readAPI)
THEOREM WalkGoesOn ==
    ASSUME \A p \in DOMAIN Phases : StagesOf(p) # {}
    PROVE  Spec => []SomeoneGoesOn
  <1>1. ASSUME RecallInv, ReadInv, LoadersRead, PhasesLeft, outcome = "running", saving = "nothing",
               phase <= Len(Phases), ~ForkGoesOn
        PROVE  \/ \E x \in Rows : RowGoesOn(x)
               \/ \E t \in Tables : TableGoesOn(t)
               \/ \E s \in Stages : StageGoesOn(s)
    <2>1. phase \in DOMAIN Phases /\ Phases[phase] \in Seq(Seq(Stages))
      BY <1>1, OrderShape, PhaseShape DEF ReadInv, PhasesOrdered
    <2>2. CASE \E s \in Stages : stage[s] = "running"
      <3>1. PICK s \in Stages : stage[s] = "running"
        BY <2>2
      <3>2. CASE \A t \in ToSet(TablesOf[s]) : table[t] \in {"done", "failed", "canceled"}
        BY <3>1, <3>2 DEF StageGoesOn
      <3>3. ASSUME NEW t \in ToSet(TablesOf[s]), table[t] \notin {"done", "failed", "canceled"}
            PROVE  (\E x \in Rows : RowGoesOn(x)) \/ (\E u \in Tables : TableGoesOn(u))
        <4>1. t \in Tables /\ table[t] # "todo"
          BY <1>1, <3>1, StageTable DEF PhasesLeft
        <4>2. table[t] \in {"preparing", "asking"}
          BY <1>1, <3>3, <4>1 DEF RecallInv, RecallTypeOK
        <4> QED BY <1>1, <4>1, <4>2, RowsGoOn DEF TableGoesOn
      <3> QED BY <3>2, <3>3
    <2>3. CASE \A s \in Stages : stage[s] # "running"
      <3>1. CASE \E c \in DOMAIN Phases[phase] : ~ChainEnded(Phases[phase][c])
        BY <1>1, <2>3, <3>1, ChainGoesOn
      <3>2. CASE \A c \in DOMAIN Phases[phase] : ChainEnded(Phases[phase][c])
        <4>1. ~Forked
          BY <1>1, <3>2 DEF ForkGoesOn
        <4>2. PICK s \in StagesOf(phase) : stage[s] # "done"
          BY <1>1, <4>1 DEF PhasesLeft
        <4>3. PICK c \in DOMAIN Phases[phase] : \E n \in DOMAIN Phases[phase][c] : s = Phases[phase][c][n]
          BY <2>1, OnePlace
        <4>4. PICK n \in DOMAIN Phases[phase][c] : stage[Phases[phase][c][n]] = "failed"
          BY <3>2, <4>2, <4>3 DEF ChainEnded
        <4>5. Phases[phase][c][n] \in Stages
          BY <2>1, OnePlace
        <4>6. failure # Nobody
          BY <1>1, <4>4, <4>5 DEF ReadInv, PhasesOrdered
        <4> QED BY <1>1, <4>1, <4>6 DEF ReadInv, WalkInv, StopsExplained
      <3> QED BY <3>1, <3>2
    <2> QED BY <2>2, <2>3
  <1>2. ReadInv => phase \in Nat /\ Len(Phases) \in Nat
    BY OrderShape DEF ReadInv, PhasesOrdered
  <1>3. RecallInv /\ ReadInv /\ LoadersRead /\ PhasesLeft => SomeoneGoesOn
    BY <1>1, <1>2 DEF SomeoneGoesOn
  <1>4. Spec => []PhasesLeft
    <2>1. Init => PhasesLeft
      BY LeftStart
    <2>2. ReadInv /\ ReadInv' /\ PhasesLeft /\ [Next]_vars => PhasesLeft'
      BY LeftNext
    <2> QED BY <2>1, <2>2, ReadingInvariance, PTL DEF Spec
  <1> QED BY <1>3, <1>4, RecallInvariance, ReadingInvariance, LoadersSafety, PTL
=============================================================================
