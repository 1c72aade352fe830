----------------------------- MODULE RowRecall -----------------------------
(***************************************************************************)
(* internal/atlas/reading/knowledge.go and shared.go: one table of            *)
(* independent rows.  Its rows are prepared side by side: each looks up the   *)
(* memo of its basis and recalls its answer from the remembered response,     *)
(* which the reading loads once, whichever row comes first.  What is missing  *)
(* is asked once per basis; every answered row is bound to its knowledge and  *)
(* each basis remembers the request that answered it.                         *)
(*                                                                           *)
(* A response is its version.  A request of this reading asks one row and is  *)
(* named by it: the windows that ask several are those of QuestionBatch, and  *)
(* the provider that of the llm modules.                                      *)
(***************************************************************************)
EXTENDS Naturals, Sequences, FiniteSets

CONSTANTS
    Tables,     \* tables asked in this reading
    BasisOf,    \* the exact input of each row of a table, a sequence
    Requests,   \* the requests of earlier runs
    Remembered, \* the memos that they left: the request of a basis, or Unknown
    Closed,     \* the tables of closed questions, which may be answered uncertainly
    Unsaved,    \* the bases whose memo the disk does not take
    Processors, \* GOMAXPROCS
    MaxOthers,  \* bound: what other processes do to the cache meanwhile
    Touched     \* bound: the requests whose responses and memos those are of

Bases == UNION {{BasisOf[t][i] : i \in DOMAIN BasisOf[t]} : t \in Tables}
Rows == UNION {{t} \X DOMAIN BasisOf[t] : t \in Tables}

\* Each request there may be, of an earlier run or of this reading.
Keys == Requests \cup Rows

Unknown == << >>        \* no request is remembered
Unread == "unread"
Responses == {"first", "replayed", "unsure"}
NoResponse == {"none", "broken"}

ASSUME RecallAssumption ==
    /\ \A t \in Tables : BasisOf[t] \in Seq(Bases)
    /\ Remembered \in [Bases -> Requests \cup {Unknown}]
    /\ Closed \subseteq Tables /\ Unsaved \subseteq Bases
    /\ Requests \cap Rows = {} /\ Unknown \notin Keys
    /\ Processors \in Nat \ {0} /\ MaxOthers \in Nat /\ Touched \subseteq Keys

VARIABLES
    memo,    \* the request remembered for each basis
    record,  \* the recorded response of each request, "none" before it is asked
    cache,   \* reader.responseTables: what this reading read for a request
    loading, \* readerShared.loading
    at,      \* where each row's preparation is
    bound,   \* the request each row's memo named
    seen,    \* the response each row was recalled from
    table,   \* where each table is
    known,   \* reader.knowledgeRecords: the rows with an answer
    others

disk == <<memo, record, others>>
rows == <<cache, loading, at, bound, seen>>
recall == <<disk, rows, table, known>>

RecallInit ==
    /\ memo = Remembered
    /\ record = [k \in Keys |-> IF k \in Requests THEN "first" ELSE "none"]
    /\ cache = [k \in Keys |-> Unread]
    /\ loading = {}
    /\ at = [x \in Rows |-> "todo"]
    /\ bound = [x \in Rows |-> Unknown]
    /\ seen = [x \in Rows |-> Unread]
    /\ table = [t \in Tables |-> "todo"]
    /\ known = {}
    /\ others = 0

RowsIn(t) == {x \in Rows : x[1] = t}
Basis(x) == BasisOf[x[1]][x[2]]

-----------------------------------------------------------------------------
(* prepareRows: eachIndex hands the rows out in order to the processors.     *)

Preparing(t) == {x \in RowsIn(t) : at[x] \notin {"todo", "ready"}}

\* LoadMemo: the row's basis names a request, of an earlier run or one that this
\* reading made for another table, or nothing is known of it.
Take(x) ==
    /\ table[x[1]] = "preparing" /\ at[x] = "todo"
    /\ \A y \in RowsIn(x[1]) : y[2] < x[2] => at[y] # "todo"
    /\ Cardinality(Preparing(x[1])) < Processors
    /\ bound' = [bound EXCEPT ![x] = memo[Basis(x)]]
    /\ at' = [at EXCEPT ![x] = IF memo[Basis(x)] = Unknown THEN "ready" ELSE "recalling"]
    /\ UNCHANGED <<disk, cache, loading, seen, table, known>>

\* Mutant: a row loads what another is loading.
LoadedTwice(x) == at[x] = "recalling" /\ cache[bound[x]] = Unread

\* loadOnce, under the lock: nobody has read the response or is reading it.
Loads(x) ==
    at[x] = "recalling" /\ cache[bound[x]] = Unread /\ bound[x] \notin loading

Load(x) ==
    /\ Loads(x)
    /\ loading' = loading \cup {bound[x]}
    /\ at' = [at EXCEPT ![x] = "reading"]
    /\ UNCHANGED <<disk, cache, bound, seen, table, known>>

\* Somebody is reading it: the row waits and looks again.
Wait(x) ==
    /\ at[x] = "recalling" /\ cache[bound[x]] = Unread /\ bound[x] \in loading
    /\ at' = [at EXCEPT ![x] = "waiting"]
    /\ UNCHANGED <<disk, cache, loading, bound, seen, table, known>>

Wake(x) ==
    /\ at[x] = "waiting" /\ bound[x] \notin loading
    /\ at' = [at EXCEPT ![x] = "recalling"]
    /\ UNCHANGED <<disk, cache, loading, bound, seen, table, known>>

\* CachedExchange, outside the lock.
Read(x) ==
    /\ at[x] = "reading"
    /\ seen' = [seen EXCEPT ![x] = record[bound[x]]]
    /\ at' = [at EXCEPT ![x] = "storing"]
    /\ UNCHANGED <<disk, cache, loading, bound, table, known>>

\* Mutant: the load in progress is not taken back.
StillLoading(x) == loading

NoLonger(x) == loading \ {bound[x]}

Store(x) ==
    /\ at[x] = "storing"
    /\ cache' = [cache EXCEPT ![bound[x]] = seen[x]]
    /\ loading' = NoLonger(x)
    /\ at' = [at EXCEPT ![x] = "ready"]
    /\ UNCHANGED <<disk, bound, seen, table, known>>

Recall(x) ==
    /\ at[x] = "recalling" /\ cache[bound[x]] # Unread
    /\ seen' = [seen EXCEPT ![x] = cache[bound[x]]]
    /\ at' = [at EXCEPT ![x] = "ready"]
    /\ UNCHANGED <<disk, cache, loading, bound, table, known>>

Prepare(x) ==
    Take(x) \/ Load(x) \/ Wait(x) \/ Wake(x) \/ Read(x) \/ Store(x) \/ Recall(x)

-----------------------------------------------------------------------------
(* runIndependent: what was not recalled is asked, once per basis.           *)

Prepared(t) == table[t] = "preparing" /\ \A x \in RowsIn(t) : at[x] = "ready"

Missing(t) == {x \in RowsIn(t) : seen[x] \notin Responses}

\* The first missing row of a basis is asked for all of them.
Asker(x) ==
    CHOOSE y \in Missing(x[1]) :
        /\ Basis(y) = Basis(x)
        /\ \A z \in Missing(x[1]) : Basis(z) = Basis(x) => y[2] <= z[2]

Asked(t) == {Asker(x) : x \in Missing(t)}

\* A row without an answer keeps no knowledge; what was answered, also
\* uncertainly, is remembered unless the memo could not be saved.
Bind(t, fresh) ==
    LET answered == {x \in RowsIn(t) : IF x \in Missing(t) THEN fresh[Asker(x)] = "first"
                                                          ELSE seen[x] # "unsure"}
        remembered == {x \in Asked(t) : fresh[x] \in Responses /\ Basis(x) \notin Unsaved} IN
    /\ known' = known \cup answered
    /\ record' = [k \in Keys |-> IF k \in Asked(t) THEN fresh[k] ELSE record[k]]
    /\ memo' = [b \in Bases |-> IF \E x \in remembered : Basis(x) = b
                               THEN CHOOSE x \in remembered : Basis(x) = b ELSE memo[b]]
    /\ table' = [table EXCEPT ![t] = "done"]

\* How a row may be answered; "none" leaves it to a fallback.
Kinds(t) == IF t \in Closed THEN {"first", "unsure", "none"} ELSE {"first", "none"}

StartTables(ts) ==
    table' = [t \in Tables |-> IF t \in ts THEN "preparing" ELSE table[t]]

AskMissing(t) ==
    /\ Prepared(t) /\ Missing(t) # {}
    /\ table' = [table EXCEPT ![t] = "asking"]
    /\ UNCHANGED <<disk, rows, known>>

\* Everything was recalled, or the windows were answered, row by row.
Answer(t) ==
    /\ \/ Prepared(t) /\ Missing(t) = {} /\ Bind(t, << >>)
       \/ /\ table[t] = "asking"
          /\ \E fresh \in [Asked(t) -> Kinds(t)] : Bind(t, fresh)
    /\ UNCHANGED <<others, rows>>

\* A row without an input, a window that cannot be built or journaled.
Break(t) ==
    /\ Prepared(t) \/ table[t] = "asking"
    /\ table' = [table EXCEPT ![t] = "failed"]
    /\ UNCHANGED <<disk, rows, known>>

\* The context of the calls ended.
Cut(t) ==
    /\ table[t] = "asking"
    /\ table' = [table EXCEPT ![t] = "canceled"]
    /\ UNCHANGED <<disk, rows, known>>

-----------------------------------------------------------------------------
\* Another process replays a request there is, removes or damages a file.
Others ==
    /\ others < MaxOthers /\ others' = others + 1
    /\ \/ \E k \in Touched \cap (Requests \cup {memo[b] : b \in Bases}), r \in Responses \cup NoResponse :
             r # record[k] /\ record' = [record EXCEPT ![k] = r] /\ UNCHANGED memo
       \/ \E b \in Bases :
             memo[b] \in Touched /\ memo' = [memo EXCEPT ![b] = Unknown] /\ UNCHANGED record
    /\ UNCHANGED <<rows, table, known>>
-----------------------------------------------------------------------------
\* Types of the variables.
RecallTypeOK ==
    /\ memo \in [Bases -> Keys \cup {Unknown}]
    /\ record \in [Keys -> Responses \cup NoResponse]
    /\ cache \in [Keys -> Responses \cup NoResponse \cup {Unread}]
    /\ loading \subseteq Keys
    /\ at \in [Rows -> {"todo", "recalling", "reading", "storing", "waiting", "ready"}]
    /\ bound \in [Rows -> Keys \cup {Unknown}]
    /\ seen \in [Rows -> Responses \cup NoResponse \cup {Unread}]
    /\ table \in [Tables -> {"todo", "preparing", "asking", "done", "failed", "canceled"}]
    /\ known \subseteq Rows

\* Of the rows bound to one request at most one is reading its response, and the
\* others see what it stored.
OneReader ==
    /\ \A x \in Rows : at[x] \notin {"todo", "ready"} => bound[x] \in Keys
    /\ \A x \in Rows : at[x] \in {"reading", "storing"} => bound[x] \in loading /\ cache[bound[x]] = Unread
    /\ \A x, y \in Rows : at[x] \in {"reading", "storing"} /\ at[y] \in {"reading", "storing"} =>
          (bound[x] = bound[y] => x = y)
    /\ \A x \in Rows : at[x] = "storing" => seen[x] # Unread
    /\ \A x \in Rows : at[x] = "ready" /\ bound[x] \in Keys =>
          seen[x] = cache[bound[x]] /\ cache[bound[x]] # Unread
=============================================================================
