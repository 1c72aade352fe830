---------------------------- MODULE QuestionBatch ----------------------------
(***************************************************************************)
(* Run of internal/atlas/questionbatch: every question is asked over every   *)
(* row of one evidence catalogue, in windows of some questions over some     *)
(* rows.  A refused window leaves its cells undecided, a resource refusal is *)
(* divided, and a question that an accepted response left out is asked once  *)
(* more.  What was decided is remembered by question, as the windows that    *)
(* decided it, whose answers the cache of exact requests keeps.              *)
(*                                                                          *)
(* Runs follow each other over one cache; each may be killed or lose its     *)
(* context anywhere, which leaves only what it had saved.  A response is     *)
(* what its decoder reads in it: the questions it decides, those it says     *)
(* nothing of, and cells it refuses; any other question is malformed.        *)
(***************************************************************************)
EXTENDS Naturals, FiniteSets, SequencesExt

CONSTANTS Questions,     \* in their order, as numbers
          Rows,          \* likewise
          Catalogues,    \* the sets of questions that runs are given
          MaxRows,       \* Options.MaxRows
          MaxQuestions,  \* maxQuestionsPerWindow, 8
          MaxInputBytes, \* Options.MaxInputBytes, where a row weighs
          RowBytes,      \*   so much
          QuestionBytes, \*   and a question so much
          RefusedCells,  \* the sets of rows whose cells a decision may refuse
          MaxRuns,       \* how many runs there are
          MaxFaults      \* how often calls fail, answers are defective, files are
                         \* not written or lost, and runs are killed

Windows == {w \in [rows : (SUBSET Rows) \ {{}}, questions : (SUBSET Questions) \ {{}},
                   catalogue : Catalogues, reask : BOOLEAN] : w.questions \subseteq w.catalogue}

\* The keys q1, q2, ... number a question within its own catalogue, and the
\* request is of rows and keyed questions only.
Request(w) == [rows |-> w.rows,
               keyed |-> {<<q, Cardinality({p \in w.catalogue : p <= q})>> : q \in w.questions}]
Requests == {Request(w) : w \in Windows}
Nobody == [rows |-> {}, keyed |-> {}]

ASSUME QuestionAssumption ==
    /\ Questions \subseteq Nat /\ Rows \subseteq Nat
    /\ IsFiniteSet(Questions) /\ IsFiniteSet(Rows) /\ Rows # {}
    /\ Catalogues \subseteq SUBSET Questions /\ {} \notin Catalogues
    /\ MaxRows \in Nat \ {0} /\ MaxQuestions \in Nat \ {0}
    /\ RowBytes \in Nat /\ QuestionBytes \in Nat
    \* One question over one row fits; else every run fails before it asks.
    /\ MaxInputBytes \in Nat /\ RowBytes + QuestionBytes <= MaxInputBytes
    /\ RefusedCells \subseteq SUBSET Rows
    /\ MaxRuns \in Nat /\ MaxFaults \in Nat

VARIABLES
    phase,      \* "idle", "asking", "collected" or "returned"
    catalogue,  \* the questions of the run
    cells,      \* who decided each question for each row, Nobody when undecided
    wave,       \* the windows that are asked together
    outcome,    \* what came of each, Unknown while it is asked
    rest,       \* the windows of this round that are asked after them
    next,       \* the parts of divided windows, for the next round
    reasking,   \* this is the second round
    warm,       \* rows whose request prefix the provider has processed
    exchanges,  \* Result.Exchanges of this run's own windows
    decisive,   \* remembered: the windows that decided each question, in order
    record,     \* the accepted answer of each request, Unknown when there is none
    memo,       \* the windows each question's memo names
    asked,      \* history: requests of this run
    repeated,   \* history: requests made twice in this run
    kept,       \* history: cells that were decided and remembered, and not lost
    runs, faults \* counters

round == <<wave, outcome, rest, next, reasking, warm>>
cache == <<record, memo>>
history == <<asked, repeated, kept, runs, faults>>
vars == <<phase, catalogue, cells, round, exchanges, decisive, cache, history>>

Unknown == [kind |-> "unknown", decided |-> {}, omitted |-> {}, refused |-> {}, cached |-> FALSE]
Refusal(kind) == [Unknown EXCEPT !.kind = kind]

\* What a response may come to.  A question is decided when one of its cells is.
Answers(w) ==
    {o \in [kind : {"answer"}, decided : SUBSET w.questions, omitted : SUBSET w.questions,
            refused : {w.questions \X r : r \in RefusedCells}, cached : {FALSE}] :
        /\ o.decided \cap o.omitted = {}
        /\ \A q \in o.decided : \E r \in w.rows : <<q, r>> \notin o.refused
        /\ o.decided = {} => o.refused = {}}

\* decode accepts a response that decides one question at least.
Accepted(o) == o.kind = "answer" /\ o.decided # {}
Decides(o, w, q) == {r \in w.rows : Accepted(o) /\ q \in o.decided /\ <<q, r>> \notin o.refused}

Init ==
    /\ phase = "idle" /\ catalogue \in Catalogues
    /\ cells = [q \in Questions |-> [r \in Rows |-> Nobody]]
    /\ wave = << >> /\ outcome = << >> /\ rest = << >> /\ next = << >>
    /\ reasking = FALSE /\ warm = {}
    /\ exchanges = << >>
    /\ decisive = [q \in Questions |-> << >>]
    /\ record = [k \in Requests |-> Unknown]
    /\ memo = [q \in Questions |-> << >>]
    /\ asked = {} /\ repeated = {} /\ kept = {} /\ runs = 0 /\ faults = 0

Fault == faults < MaxFaults /\ faults' = faults + 1

\* The members of S as a sequence, by their ranks, which differ.
Ranked(S, rank) ==
    [k \in 1..Cardinality(S) |->
        CHOOSE x \in S : Cardinality({y \in S : rank[y] < rank[x]}) = k - 1]

-----------------------------------------------------------------------------
(* Planning: every window fits the input and the question ceilings.          *)

First(n, S) == {x \in S : Cardinality({y \in S : y < x}) < n}
RowsAt(w, n) == <<[w EXCEPT !.rows = First(n, @)], [w EXCEPT !.rows = @ \ First(n, @)]>>
QuestionsAt(w, n) ==
    <<[w EXCEPT !.questions = First(n, @)], [w EXCEPT !.questions = @ \ First(n, @)]>>

RowsOf(w) == Cardinality(w.rows)
QuestionsOf(w) == Cardinality(w.questions)
Single(w) == RowsOf(w) = 1 /\ QuestionsOf(w) = 1

\* split: the heavier of rows and questions is halved; balanced halves of equal
\* weights.
Split(w) ==
    IF RowsOf(w) > 1 /\ (QuestionsOf(w) <= 1
                         \/ RowsOf(w) * RowBytes >= QuestionsOf(w) * QuestionBytes)
    THEN RowsAt(w, RowsOf(w) \div 2)
    ELSE QuestionsAt(w, QuestionsOf(w) \div 2)

\* Mutant: a window that cannot be divided is asked again whole.
SplitResourceAnyway(w, kind) ==
    IF Single(w) THEN <<w>>
    ELSE IF kind = "output" /\ QuestionsOf(w) > 1 THEN QuestionsAt(w, QuestionsOf(w) \div 2)
    ELSE Split(w)

\* An output limit divides the questions first.  A single cell is not divided.
SplitResource(w, kind) ==
    IF Single(w) THEN << >>
    ELSE IF kind = "output" /\ QuestionsOf(w) > 1 THEN QuestionsAt(w, QuestionsOf(w) \div 2)
    ELSE Split(w)

TooLarge(w) == RowsOf(w) * RowBytes + QuestionsOf(w) * QuestionBytes > MaxInputBytes

Plan[w \in Windows] ==
    LET Both(pair) == Plan[pair[1]] \o Plan[pair[2]] IN
    IF RowsOf(w) > MaxRows THEN Both(RowsAt(w, MaxRows))
    ELSE IF QuestionsOf(w) > MaxQuestions THEN Both(QuestionsAt(w, MaxQuestions))
    ELSE IF TooLarge(w) THEN Both(Split(w))
    ELSE <<w>>

PlanAll(windows) == FlattenSeq([i \in DOMAIN windows |-> Plan[windows[i]]])

Undecided(now, q) == {r \in Rows : now[q][r] = Nobody}

\* missing: questions that lack the same rows are asked together.
Missing(of, now) ==
    LET groups == {[rows |-> Undecided(now, q), catalogue |-> of, reask |-> FALSE,
                    questions |-> {p \in of : Undecided(now, p) = Undecided(now, q)}] :
                   q \in {p \in of : Undecided(now, p) # {}}}
    IN Ranked(groups, [g \in groups |-> Min(g.questions)])

\* Mutant: what a response left out is asked again also when that is all it was asked.
OmittedAnyway(e) == IF e.outcome.kind = "answer" THEN e.outcome.omitted ELSE {}

\* Mutant: only accepted responses name the questions they left out.
OmittedOfAccepted(e) == IF Accepted(e.outcome) THEN e.outcome.omitted ELSE {}

\* The questions a response left out, unless it left out all it was asked.
Omitted(e) ==
    IF e.outcome.kind = "answer" /\ e.outcome.omitted # e.window.questions
    THEN e.outcome.omitted ELSE {}

\* omittedWindows: once more over the rows of their response, without the
\* questions it did answer; those of responses over the same rows together.
OmittedWindows ==
    LET over(rows) == {i \in DOMAIN exchanges : /\ Omitted(exchanges[i]) # {}
                                                 /\ exchanges[i].window.rows = rows}
        missed(rows) == UNION {Omitted(exchanges[i]) : i \in over(rows)}
        groups == {[rows |-> exchanges[i].window.rows, catalogue |-> catalogue, reask |-> TRUE,
                    questions |-> missed(exchanges[i].window.rows)] :
                   i \in {j \in DOMAIN exchanges : Omitted(exchanges[j]) # {}}}
    IN Ranked(groups, [g \in groups |-> Min(over(g.rows))])

-----------------------------------------------------------------------------
(* Asking: the windows of a round go in two waves.                           *)

\* Mutant: all windows of a round are asked together.
AllAtOnce(windows, known) == DOMAIN windows

\* The first window of each row set that the provider has not seen goes ahead of
\* its siblings, which share its prefix.
Leads(windows, known) ==
    {i \in DOMAIN windows : windows[i].rows \notin known
        /\ \A j \in 1..i-1 : windows[j].rows # windows[i].rows}

Picked(windows, chosen) ==
    LET order == Ranked(chosen, [i \in chosen |-> i]) IN [k \in DOMAIN order |-> windows[order[k]]]

Ask(windows) == wave' = windows /\ outcome' = [i \in DOMAIN windows |-> Unknown]

\* waves: one round of windows begins.
StartRound(windows, known) ==
    LET leads == Leads(windows, known)
        others == DOMAIN windows \ leads
    IN IF leads = {} THEN Ask(windows) /\ rest' = << >>
       ELSE Ask(Picked(windows, leads)) /\ rest' = Picked(windows, others)

\* apply: a window decides a question's cells unless one of them is decided; the
\* cells it refuses stay undecided.
Taken(s, w, o, q) ==
    IF /\ q \in w.questions /\ Decides(o, w, q) # {}
       /\ \A r \in Decides(o, w, q) : s.cells[r] = Nobody
    THEN [cells |-> [r \in Rows |-> IF r \in Decides(o, w, q) THEN Request(w) ELSE s.cells[r]],
          windows |-> Append(s.windows, w)]
    ELSE s

\* The outcomes of some windows, applied to a question one after another.
TakenAll(s, windows, outcomes, q) ==
    LET after[n \in 0..Len(windows)] ==
        IF n = 0 THEN s ELSE Taken(after[n-1], windows[n], outcomes[n], q)
    IN after[Len(windows)]

\* recall: the windows a memo names decide again, as far as the cache still has
\* their answers.
Recalled(q) ==
    TakenAll([cells |-> [r \in Rows |-> Nobody], windows |-> << >>],
             memo[q], [n \in DOMAIN memo[q] |-> record[Request(memo[q][n])]], q)

\* Run: what is remembered is recalled, and the rest is planned.
Begin(of) ==
    LET recalled == [q \in of |-> Recalled(q)]
        now == [q \in Questions |-> IF q \in of THEN recalled[q].cells ELSE [r \in Rows |-> Nobody]]
    IN
    /\ phase = "idle" /\ runs < MaxRuns
    /\ runs' = runs + 1
    /\ catalogue' = of
    /\ cells' = now
    /\ decisive' = [q \in Questions |-> IF q \in of THEN recalled[q].windows ELSE << >>]
    /\ StartRound(PlanAll(Missing(of, now)), {})
    /\ phase' = "asking"
    /\ UNCHANGED <<next, reasking, warm, exchanges, cache, asked, repeated, kept, faults>>

\* The exact request is answered by its accepted record.
Cached(i) ==
    /\ record[Request(wave[i])] # Unknown
    /\ outcome' = [outcome EXCEPT ![i] = [record[Request(wave[i])] EXCEPT !.cached = TRUE]]
    /\ UNCHANGED <<record, faults>>

\* The answer decides or leaves out every question, and refuses no cell.
Plain(o, w) == o.decided \cup o.omitted = w.questions /\ o.refused = {}

\* Or by the provider; an accepted answer is saved unless the disk fails.
Live(i) ==
    /\ record[Request(wave[i])] = Unknown
    /\ \/ \E o \in Answers(wave[i]), saved \in BOOLEAN :
            /\ outcome' = [outcome EXCEPT ![i] = o]
            /\ saved => Accepted(o)
            /\ record' = IF saved THEN [record EXCEPT ![Request(wave[i])] = o] ELSE record
            /\ IF Plain(o, wave[i]) /\ (saved \/ ~Accepted(o)) THEN UNCHANGED faults ELSE Fault
       \/ \E kind \in {"output", "context", "failed"} :
            /\ outcome' = [outcome EXCEPT ![i] = Refusal(kind)]
            /\ Fault
            /\ UNCHANGED record

Complete(i) ==
    /\ phase = "asking" /\ i \in DOMAIN wave /\ outcome[i] = Unknown
    /\ Cached(i) \/ Live(i)
    /\ asked' = asked \cup {Request(wave[i])}
    /\ repeated' = IF Request(wave[i]) \in asked THEN repeated \cup {Request(wave[i])} ELSE repeated
    /\ UNCHANGED <<phase, catalogue, cells, wave, rest, next, reasking, warm, exchanges, decisive,
                   memo, kept, runs>>

\* Mutant: only the first part of a divided window is asked for.
FirstPart(i) ==
    IF outcome[i].kind \in {"output", "context"} /\ ~Single(wave[i])
    THEN <<SplitResource(wave[i], outcome[i].kind)[1]>> ELSE << >>

\* The windows that replace a resource refusal.
Parts(i) ==
    IF outcome[i].kind \in {"output", "context"} THEN SplitResource(wave[i], outcome[i].kind) ELSE << >>

\* execute: the outcomes of the wave are applied in its order.
Collect ==
    LET applied == [q \in Questions |->
                       TakenAll([cells |-> cells[q], windows |-> decisive[q]], wave, outcome, q)]
    IN
    /\ phase = "asking" /\ \A i \in DOMAIN wave : outcome[i] # Unknown
    /\ cells' = [q \in Questions |-> applied[q].cells]
    /\ decisive' = [q \in Questions |-> applied[q].windows]
    /\ warm' = warm \cup {wave[i].rows : i \in {j \in DOMAIN wave : ~outcome[j].cached}}
    /\ next' = next \o FlattenSeq([i \in DOMAIN wave |-> PlanAll(Parts(i))])
    /\ exchanges' = exchanges \o [i \in DOMAIN wave |->
          [window |-> wave[i], outcome |-> outcome[i], superseded |-> Parts(i) # << >>]]
    /\ phase' = "collected"
    /\ UNCHANGED <<catalogue, wave, outcome, rest, reasking, cache, history>>

Rest ==
    /\ rest # << >>
    /\ Ask(rest) /\ rest' = << >>
    /\ phase' = "asking"
    /\ UNCHANGED <<next, reasking>>

NextRound ==
    /\ rest = << >> /\ next # << >>
    /\ StartRound(next, warm) /\ next' = << >>
    /\ phase' = "asking"
    /\ UNCHANGED reasking

\* An accepted response that named only some of its questions decided nothing
\* about the others.
Reask ==
    /\ rest = << >> /\ next = << >> /\ ~reasking /\ OmittedWindows # << >>
    /\ StartRound(PlanAll(OmittedWindows), warm)
    /\ reasking' = TRUE
    /\ phase' = "asking"
    /\ UNCHANGED next

Advance ==
    /\ phase = "collected"
    /\ Rest \/ NextRound \/ Reask
    /\ UNCHANGED <<catalogue, cells, warm, exchanges, decisive, cache, history>>

-----------------------------------------------------------------------------
\* Mutant: only questions that are decided for every row are remembered.
RememberWhole(saved) ==
    LET found(q) == {r \in Rows : cells[q][r] # Nobody /\ record[cells[q][r]] # Unknown} IN
    /\ memo' = [q \in Questions |-> IF q \in saved /\ Undecided(cells, q) = {} THEN decisive[q] ELSE memo[q]]
    /\ kept' = {c \in kept : c[1] \notin saved} \cup UNION {{q} \X found(q) : q \in saved}

\* remember: each question's windows become its memo, unless the disk fails.
\* What is written is kept as far as the cache has the answers.
Remember(saved) ==
    LET found(q) == {r \in Rows : cells[q][r] # Nobody /\ record[cells[q][r]] # Unknown} IN
    /\ memo' = [q \in Questions |-> IF q \in saved THEN decisive[q] ELSE memo[q]]
    /\ kept' = {c \in kept : c[1] \notin saved} \cup UNION {{q} \X found(q) : q \in saved}

Finish ==
    /\ phase = "collected"
    /\ rest = << >> /\ next = << >> /\ (reasking \/ OmittedWindows = << >>)
    /\ LET due == {q \in catalogue : decisive[q] # << >>} IN
       \/ Remember(due) /\ UNCHANGED faults
       \/ \E q \in due : Remember(due \ {q}) /\ Fault
    /\ phase' = "returned"
    /\ UNCHANGED <<catalogue, cells, round, exchanges, decisive, record, asked, repeated, runs>>

\* The run is over; what it knew is gone.
End ==
    /\ phase' = "idle"
    /\ cells' = [q \in Questions |-> [r \in Rows |-> Nobody]]
    /\ wave' = << >> /\ outcome' = << >> /\ rest' = << >> /\ next' = << >>
    /\ reasking' = FALSE /\ warm' = {} /\ exchanges' = << >>
    /\ decisive' = [q \in Questions |-> << >>]
    /\ asked' = {} /\ repeated' = {}
    /\ UNCHANGED <<catalogue, cache, kept, runs>>

Return == phase = "returned" /\ End /\ UNCHANGED faults

\* A run is killed, or its context ended and it returns an error.
Abandon == phase \in {"asking", "collected"} /\ End /\ Fault

\* Others clear the cache, or a file of it is damaged.
LoseRecord(k) ==
    /\ Fault
    /\ record[k] # Unknown
    /\ record' = [record EXCEPT ![k] = Unknown]
    /\ kept' = {c \in kept : c[2] \notin k.rows \/ \A x \in k.keyed : x[1] # c[1]}
    /\ UNCHANGED <<phase, catalogue, cells, round, exchanges, decisive, memo, asked, repeated, runs>>

LoseMemo(q) ==
    /\ Fault
    /\ memo[q] # << >>
    /\ memo' = [memo EXCEPT ![q] = << >>]
    /\ kept' = {c \in kept : c[1] # q}
    /\ UNCHANGED <<phase, catalogue, cells, round, exchanges, decisive, record, asked, repeated, runs>>

Step == (\E i \in DOMAIN wave : Complete(i)) \/ Collect \/ Advance \/ Finish \/ Return

Next ==
    \/ Step
    \/ \E of \in Catalogues : Begin(of)
    \/ Abandon
    \/ \E k \in Requests : LoseRecord(k)
    \/ \E q \in Questions : LoseMemo(q)
    \/ phase = "idle" /\ runs = MaxRuns /\ UNCHANGED vars

Spec == Init /\ [][Next]_vars

-----------------------------------------------------------------------------
\* Types of the variables.
TypeOK ==
    /\ phase \in {"idle", "asking", "collected", "returned"}
    /\ catalogue \in Catalogues
    /\ cells \in [Questions -> [Rows -> Requests \cup {Nobody}]]
    /\ \A i \in DOMAIN wave : wave[i] \in Windows
    /\ \A i \in DOMAIN rest : rest[i] \in Windows
    /\ \A i \in DOMAIN next : next[i] \in Windows
    /\ DOMAIN outcome = DOMAIN wave
    /\ reasking \in BOOLEAN /\ warm \subseteq SUBSET Rows
    /\ asked \subseteq Requests /\ repeated \subseteq asked
    /\ kept \subseteq Questions \X Rows

\* No exact request is made twice in a run, though omitted questions are asked
\* again and refused windows are divided.  (omittedWindows, splitResource)
NoRequestRepeated == repeated = {}

Covers(e, q, r) == q \in e.window.questions /\ r \in e.window.rows

\* Why a window's exchange leaves a cell undecided for good.
Excuses(e, q, r) ==
    \/ e.outcome.kind # "answer"
    \/ q \in e.outcome.decided /\ <<q, r>> \in e.outcome.refused
    \/ q \notin e.outcome.decided \cup e.outcome.omitted
    \/ q \in e.outcome.omitted /\ (e.window.reask \/ e.outcome.omitted = e.window.questions)

\* When a run returns, every cell is decided or was asked for in a window that was
\* not divided, and left undecided for good: its call failed, its answer was
\* malformed, or its question was left out twice.  No window, part of a window or
\* omitted question is lost.  (Run, execute, omittedWindows)
EveryCellAccounted ==
    phase = "returned" =>
        \A q \in catalogue, r \in Rows : cells[q][r] = Nobody =>
            \E i \in DOMAIN exchanges :
                LET e == exchanges[i] IN Covers(e, q, r) /\ ~e.superseded /\ Excuses(e, q, r)

\* Windows over the same rows are asked together only after one of them has been
\* asked, so that they share its prefix.  (waves)
SiblingsAfterFirst ==
    \A i, j \in DOMAIN wave : i # j /\ wave[i].rows = wave[j].rows =>
        \E k \in DOMAIN exchanges : exchanges[k].window.rows = wave[i].rows

\* What a run decided and remembered is not paid for again, however questions are
\* added before the ones it knew, and whatever runs were killed in between.
\* (recall, remember, missing)
DecidedOnce ==
    [][\A i \in DOMAIN wave :
          phase = "asking" /\ phase' = "asking" =>
             \/ outcome'[i] = outcome[i] \/ outcome'[i].cached
             \/ (wave[i].questions \X wave[i].rows) \cap kept = {}]_vars
=============================================================================
