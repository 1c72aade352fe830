----------------------------- MODULE AtlasWalk -----------------------------
(***************************************************************************)
(* internal/atlas/reading/walk.go: the stages of atlas reading.  A phase is   *)
(* one chain of stages, or several that run at once, each on its own view of  *)
(* the reader; a stage asks one or several tables at once, again on views of  *)
(* their own (describeDeclarations in boxes.go, readAPI in api.go).  The      *)
(* first failure cancels the others.  What a view printed is joined in a      *)
(* fixed order; the knowledge records are shared by all views as they come.   *)
(***************************************************************************)
EXTENDS RowRecall, SequencesExt

CONSTANTS
    Phases,       \* readingPhases: phases of chains of stages
    TablesOf,     \* the tables of each stage, in the order they are joined
    FirstReported \* the stages that report the first of their tables to fail

VARIABLES
    phase,       \* the phase the walk is in
    stage,       \* where each stage is
    first,       \* the first table of each stage to fail
    failure,     \* fork's failure: a stage, or "interrupted"
    tables,      \* reader.tables: the tables joined so far
    moved,       \* the knowledge moved past the version last written, or none was
    saving,      \* the file saveProgress writes next
    printed,     \* tables.md
    saved,       \* knowledge.json
    interrupted, \* the user's context ended
    outcome      \* what the walk returned

files == <<printed, saved, outcome>>
walk == <<phase, stage, first, failure, tables, moved, saving>>
vars == <<recall, walk, files, interrupted>>

Nobody == "nobody"

StagesOf(p) == UNION {ToSet(Phases[p][c]) : c \in DOMAIN Phases[p]}
Stages == UNION {StagesOf(p) : p \in DOMAIN Phases}
StageOf == [t \in Tables |-> CHOOSE s \in Stages : t \in ToSet(TablesOf[s])]

\* The tables of a chain, and of a whole phase, in step order.
Chain(stages) == FlattenSeq([n \in DOMAIN stages |-> TablesOf[stages[n]]])
Phase(p) == FlattenSeq([c \in DOMAIN Phases[p] |-> Chain(Phases[p][c])])

ASSUME WalkAssumption ==
    /\ Phases \in Seq(Seq(Seq(Stages)))
    \* A stage has one place in the walk.
    /\ \A p, q \in DOMAIN Phases : \A c \in DOMAIN Phases[p], d \in DOMAIN Phases[q] :
          \A m \in DOMAIN Phases[p][c], n \in DOMAIN Phases[q][d] :
             Phases[p][c][m] = Phases[q][d][n] => p = q /\ c = d /\ m = n
    /\ TablesOf \in [Stages -> Seq(Tables)]
    /\ \A t \in Tables : \E s \in Stages : t \in ToSet(TablesOf[s])
    /\ \A r, s \in Stages : r # s => ToSet(TablesOf[r]) \cap ToSet(TablesOf[s]) = {}
    /\ {"running", "complete", "interrupted", "unsaved", Nobody} \cap Stages = {}
    /\ Nobody \notin Tables
    /\ FirstReported \subseteq Stages

Init ==
    /\ RecallInit
    /\ phase = 1
    /\ stage = [s \in Stages |-> "todo"]
    /\ first = [s \in Stages |-> Nobody]
    /\ failure = Nobody
    /\ tables = << >>
    /\ moved = TRUE
    /\ saving = "nothing"
    /\ printed = << >> /\ saved = {}
    /\ interrupted = FALSE
    /\ outcome = "running"

Forked == phase <= Len(Phases) /\ Len(Phases[phase]) > 1

-----------------------------------------------------------------------------
(* A stage runs when those before it in its chain are done.                  *)

Turn(s) ==
    /\ phase <= Len(Phases)
    /\ \E c \in DOMAIN Phases[phase] : \E n \in DOMAIN Phases[phase][c] :
          /\ Phases[phase][c][n] = s
          /\ \A m \in 1..n-1 : stage[Phases[phase][c][m]] = "done"

BeginStage(s) ==
    /\ outcome = "running" /\ saving = "nothing"
    /\ stage[s] = "todo" /\ Turn(s)
    /\ stage' = [stage EXCEPT ![s] = "running"]
    /\ StartTables(ToSet(TablesOf[s]))
    /\ UNCHANGED <<disk, rows, known, phase, first, failure, tables, moved, saving, files, interrupted>>

PrepareRow(x) == Prepare(x) /\ UNCHANGED <<walk, files, interrupted>>

Ask(t) == AskMissing(t) /\ UNCHANGED <<walk, files, interrupted>>

\* Every record written moves the version.
Answered(t) ==
    /\ Answer(t)
    /\ moved' = (moved \/ known' # known)
    /\ UNCHANGED <<phase, stage, first, failure, tables, saving, files, interrupted>>

\* A stage's context ends with the user's, with its fork's or with the first of its tables to fail.
ContextEnded(s) == interrupted \/ failure # Nobody \/ first[s] # Nobody

Stopped(t) ==
    /\ Break(t) \/ (ContextEnded(StageOf[t]) /\ Cut(t))
    /\ first' = IF first[StageOf[t]] = Nobody THEN [first EXCEPT ![StageOf[t]] = t] ELSE first
    /\ UNCHANGED <<phase, stage, failure, tables, moved, saving, files, interrupted>>

\* The table whose error the stage returns: the first to fail, or the first in
\* order, a failure before a cancellation.
Reported(s) ==
    LET own == TablesOf[s]
        failed == {n \in DOMAIN own : table[own[n]] = "failed"}
        stopped == {n \in DOMAIN own : table[own[n]] \in {"failed", "canceled"}}
        among == IF failed # {} THEN failed ELSE stopped IN
    IF s \in FirstReported THEN first[s]
    ELSE own[CHOOSE n \in among : \A m \in among : n <= m]

Error(s) == IF table[Reported(s)] = "failed" THEN s ELSE "interrupted"

\* Mutant: the last failure of a fork is the one returned.
LastFailure(s) == Error(s)

FirstFailure(s) == IF failure = Nobody THEN Error(s) ELSE failure

EndStage(s) ==
    /\ outcome = "running" /\ saving = "nothing"
    /\ stage[s] = "running"
    /\ \A t \in ToSet(TablesOf[s]) : table[t] \in {"done", "failed", "canceled"}
    /\ IF \A t \in ToSet(TablesOf[s]) : table[t] = "done"
       THEN /\ stage' = [stage EXCEPT ![s] = "done"]
            /\ IF Forked THEN UNCHANGED <<tables, saving>>
               ELSE tables' = tables \o TablesOf[s] /\ saving' = "tables"
            /\ UNCHANGED <<failure, outcome>>
       ELSE /\ stage' = [stage EXCEPT ![s] = "failed"]
            /\ IF Forked THEN failure' = FirstFailure(s) /\ UNCHANGED outcome
               ELSE outcome' = Error(s) /\ UNCHANGED failure
            /\ UNCHANGED <<tables, saving>>
    /\ UNCHANGED <<recall, phase, first, moved, printed, saved, interrupted>>

-----------------------------------------------------------------------------
(* fork waits for every chain, and joins them only when all succeeded.       *)

ChainEnded(stages) ==
    \/ \E n \in DOMAIN stages : stage[stages[n]] = "failed"
    \/ \A n \in DOMAIN stages : stage[stages[n]] = "done"

\* Mutant: the views are joined last chain first.
LastChainFirst(p) == FlattenSeq(Reverse([c \in DOMAIN Phases[p] |-> Chain(Phases[p][c])]))

Joined(p) == Phase(p)

Join ==
    /\ outcome = "running" /\ saving = "nothing" /\ Forked
    /\ \A c \in DOMAIN Phases[phase] : ChainEnded(Phases[phase][c])
    /\ IF failure # Nobody THEN outcome' = failure /\ UNCHANGED <<tables, saving>>
       ELSE tables' = tables \o Joined(phase) /\ saving' = "tables" /\ UNCHANGED outcome
    /\ UNCHANGED <<recall, phase, stage, first, failure, moved, printed, saved, interrupted>>

\* saveProgress: tables.md, then knowledge.json; the walk ends where one fails.
SaveTables ==
    /\ outcome = "running" /\ saving = "tables"
    /\ \/ printed' = tables /\ saving' = "knowledge" /\ UNCHANGED outcome
       \/ outcome' = "unsaved" /\ UNCHANGED <<printed, saving>>
    /\ UNCHANGED <<recall, phase, stage, first, failure, tables, moved, saved, interrupted>>

\* The phase is over when every stage of it is done.
NextPhase == IF \A s \in StagesOf(phase) : stage[s] = "done" THEN phase + 1 ELSE phase

PersistKnowledge ==
    /\ outcome = "running" /\ saving = "knowledge"
    /\ \/ /\ saved' = IF moved THEN known ELSE saved
          /\ moved' = FALSE /\ saving' = "nothing"
          /\ phase' = NextPhase /\ UNCHANGED outcome
       \/ moved /\ outcome' = "unsaved" /\ UNCHANGED <<saved, moved, saving, phase>>
    /\ UNCHANGED <<recall, stage, first, failure, tables, printed, interrupted>>

Return ==
    /\ outcome = "running" /\ phase > Len(Phases)
    /\ outcome' = "complete"
    /\ UNCHANGED <<recall, walk, printed, saved, interrupted>>

-----------------------------------------------------------------------------
Interrupt ==
    /\ ~interrupted /\ interrupted' = TRUE
    /\ UNCHANGED <<recall, walk, files>>

Elsewhere == Others /\ UNCHANGED <<walk, files, interrupted>>

Step ==
    \/ \E s \in Stages : BeginStage(s) \/ EndStage(s)
    \/ \E x \in Rows : PrepareRow(x)
    \/ \E t \in Tables : Ask(t) \/ Answered(t) \/ Stopped(t)
    \/ Join \/ SaveTables \/ PersistKnowledge \/ Return

Next == Step \/ Interrupt \/ Elsewhere

Spec == Init /\ [][Next]_vars

\* Goroutines are scheduled and every call to the provider or the disk returns.
FairSpec == Spec /\ WF_vars(Step)

-----------------------------------------------------------------------------
\* Types of the variables.
TypeOK ==
    /\ RecallTypeOK
    /\ phase \in Nat \ {0}
    /\ stage \in [Stages -> {"todo", "running", "done", "failed"}]
    /\ first \in [Stages -> Tables \cup {Nobody}]
    /\ failure \in Stages \cup {"interrupted", Nobody}
    /\ moved \in BOOLEAN /\ interrupted \in BOOLEAN
    /\ saving \in {"nothing", "tables", "knowledge"}
    /\ saved \subseteq Rows
    /\ outcome \in Stages \cup {"running", "complete", "interrupted", "unsaved"}

\* The walk returns a stage's own failure, or the interruption there was, and no
\* cancellation that a failure caused.  (fork, describeDeclarations, readAPI)
ErrorExplained ==
    /\ outcome \in Stages => \E t \in Tables : table[t] = "failed" /\ StageOf[t] = outcome
    /\ outcome = "interrupted" => interrupted

\* Why a table or a fork stopped, and what of the fork is over when it is saved;
\* with ErrorExplained, inductive.  (describeDeclarations, readAPI, fork)
StopsExplained ==
    /\ \A s \in Stages : first[s] # Nobody =>
          /\ StageOf[first[s]] = s
          /\ \/ table[first[s]] = "failed"
             \/ table[first[s]] = "canceled" /\ (interrupted \/ failure # Nobody)
    /\ \A t \in Tables : table[t] \in {"failed", "canceled"} => first[StageOf[t]] # Nobody
    /\ \A t \in Tables : table[t] # "todo" => stage[StageOf[t]] # "todo"
    /\ failure \in Stages => \E t \in Tables : table[t] = "failed" /\ StageOf[t] = failure
    /\ failure = "interrupted" => interrupted
    /\ failure # Nobody => Forked
    /\ saving # "nothing" => failure = Nobody

\* However the stages ran, the reading is the one a serial walk would have left:
\* tables.md in step order, knowledge.json with exactly the answers of the tables
\* it shows, and an error that is a stage's own failure or the user's interruption.
\* (fork, view, join, saveProgress, and the comment on readingPhases)
Serial == INSTANCE SerialWalk WITH
    Order <- FlattenSeq([p \in DOMAIN Phases |-> Phase(p)]),
    answered <- known,
    broken <- {StageOf[t] : t \in {u \in Tables : table[u] = "failed"}}

SerialOrder == Serial!Spec

\* The rows of a reading recalled from one request show one response of it, also
\* when others replay or remove it meanwhile.  (loadOnce, recallAnswer)
RowsOfOneResponse ==
    \A x, y \in Rows :
        at[x] = "ready" /\ at[y] = "ready" /\ bound[x] = bound[y] /\ bound[x] # Unknown
            => seen[x] = seen[y] /\ seen[x] # Unread

\* Every walk returns, whoever waits for whom when a stage fails.
\* (loadOnce, fork's and readAPI's WaitGroups)
EveryWalkReturns == outcome = "running" ~> outcome # "running"
=============================================================================
