# A verification development for repomap

repomap reads a repository, asks a language model many questions about it, and
publishes one report. The static analysis is sequential and deterministic. What
is hard lies around the model calls: they cost money, fail in many ways, run
side by side, are shared, cached and replayed, and the run that makes them may be
stopped at any point. This directory models that part in TLA+, checks it with
TLC on small instances and proves the main safety properties with TLAPS for every
value of the constants.

Paths below are relative to the repository's root.

## The system and its parts

| component | state it keeps | operations | what uses it | modelled in |
|---|---|---|---|---|
| **attempt gate** `internal/llm/attempt_gate.go` | size, leases out, cooldown, pace, recovery epoch and count, under one mutex; a channel closed at every change | `bind`, `acquire`, `release`, `backoff`, `collapse`, `completed` | every HTTP attempt of every goroutine | `AttemptGate` |
| **provider call** `internal/deepseek/llm_provider.go`, `internal/typesafe/client.go` | the attempt number, the flag of an empty answer, the deadline of an attempt | `Complete`: acquire, send, classify, back off, release, wait, retry | executors | `ProviderCall` |
| **exact requests** `internal/llm/execute.go`, `flight.go`, `replay.go` | flights by request key, each with a done channel and an answer | `ExecuteJSON`, `RecallJSON`, `ReplayJSON`, `joinFlight`, `land` | stages, commands | `ExactRequest` |
| **accepted-answer cache** `internal/llm/cache.go`, `payload.go` | a record file per request; payload files named by content hash | read, evict, save, file by file and without a lock | executors of several processes, `cache clear` | `AnswerCache` |
| **worker pool** `internal/llm/each.go` | a feed of calls, slots for results, buffered events | `ExecuteJSONEach` | every batch of calls | `WorkerPool` |
| **semantic journal** `internal/debugdump/semantic_observer.go` | ordinals of each stage, exchanges pending until there is a run directory | `ObserveStage`, `Flush` | pools and executors | `SemanticJournal`, in `WorkerPool` |
| **adaptive splitting** `internal/llm/adaptive_each.go`, `adaptive_memo.go`, `adaptive_split_memo.go` | the plan of nodes, refusal memos on disk | `ExecuteAdaptiveJSONEach...`, load and save of a split | translation, atlas stages | `AdaptiveSplit` |
| **question batches** `internal/atlas/questionbatch` | windows of questions by rows, cells with their deciders, memos by question | `Run`: plan, recall, waves, divide, ask the omitted once more, remember | atlas stages | `QuestionBatch` |
| **atlas reading** `internal/atlas/reading` | tables.md, knowledge records, responses read once, views of forked stages | `walk`, `fork`, `join`, `runIndependent`, `loadOnce`, `saveProgress` | the run | `AtlasWalk`, `RowRecall` |
| **target pages** `internal/run/repository_target_dispatch_runtime.go` | a slot per target, two cancellable contexts, background futures | plan, one lane per adapter, fold, publish, stop | the run | `TargetPages` |
| **semantic memos** `internal/llm/memo.go` | one file per memo | load, evict, save | splits, question batches, atlas rows | the memos of `AdaptiveSplit`, `QuestionBatch`, `RowRecall` |
| **documentation reduction** `internal/documentationreduce` | rounds of selected documents | adaptive rounds | the run | its effect on the run, in `TargetPages` |
| **report server** `internal/reportserver` | one slot for opening a report | HTTP handlers | the browser | no |
| **translation** `internal/reporttranslation` | batches | sequential around the pool | the run | no |
| **language adapters, facts and claims, report page** | none that is shared | functions of files | the run | no |

How they interact: `dispatchRepositoryTargetPlan` starts the lanes and the
background work, under contexts it can cancel. A page, the documentation
reduction and the atlas make requests, most of them in batches that a worker
pool spreads over executors. The executor joins the flight of an identical
request or leads one; a leader reads the cache, and on a miss calls the provider.
The provider's client takes a lease of the controller's one gate for each attempt
and tells the gate of a 429; the executor tells it how the call ended, and so does
the pool worker that ran it; a refusal of the credentials stops the run from there.
A batch that divides its items, or asks questions over rows, stands above the
pool and remembers beside the cache what was refused or decided. The atlas runs
several such tables at once, on views of one reader.

## What is hard, and what makes each part correct

* **Gate.** A lost wakeup between reading the channel and waiting on it; a lease
  leaked by a context that ends just after it was counted; overlapping 429s, where
  the later one asks for less; answers of requests that were in the air when the 429
  came, which must not reopen the gate; pacing after an idle time. Correct: leases are
  counted exactly, cooldowns and paces are kept, recovery is earned by calls that began
  after the last 429, nobody sleeps with a lease free.
* **Call.** Eight ways an attempt can fail, each with its own rule, in an order
  that matters: the gate must hear of the 429 before the lease is free. Correct:
  bounded and selective resending, no start inside a cooldown, every call returns.
* **Exact requests.** Followers of a leader that was cancelled; a caller that comes
  between the deletion of a flight and the closing of its channel; a recall that
  wakes before its answer is on disk; an eviction decided on a record that was
  replaced since. Correct: one answer per request is told and kept, one call in the
  air, cancellation stays with its owner.
* **Cache.** Files written one by one by several processes, with syncs for records
  and none for payloads. Correct: a record has its payloads behind it unless
  somebody harmed them, corruption is never imagined, and harm is repaired.
* **Pool and journal.** A stop while calls are fed, queued or in the air; several
  refusals at once; events that finish out of order; a flush while others observe.
  Correct: to its reader a batch is a sequential one, a call never asked says so,
  one stop is announced, the journal is numbered without a gap and loses nothing.
* **Splitting.** A plan edited while it is walked; a refusal remembered before or
  after its children are asked for; memos of owners that divide for different
  reasons. Correct: the parts cover the whole, nothing is asked for twice or paid
  for again, the rounds end.
* **Question batches.** Windows refused and divided, questions left out and asked
  again, memos that name windows of an earlier catalogue. Correct: no request twice in
  a run, no cell lost between parts, what was decided is not paid for again.
* **Atlas walk.** Stages that run at once over shared records and print into their
  own views; a failure that cancels its siblings; rows recalled while another process
  replaces their response. Correct: the files are those of the serial walk, the error
  is nobody's cancellation, and the walk returns.
* **Target pages.** One lane's failure cancels the others, whose errors are then
  not their targets'; background errors meet lane errors; deferred waits could
  wait for what nobody cancelled. Correct: a report is complete and built on a ready
  reduction, an outcome never hides a cut target, a stopped run returns.

`PROJECT.json` lists these hazards line by line with the properties that would
catch each.

## Modules

`AttemptGate` is used by `ProviderCall` (which `EXTENDS` it and conjoins its steps),
`SemanticJournal` by `WorkerPool`, and `RowRecall` by `AtlasWalk`, in the same way.
Three modules are abstract promises, each implemented by a detailed one through an
instance: `OneAnswer` by `ExactRequest`, `SequentialBatch` by `WorkerPool`, `SerialWalk`
by `AtlasWalk`. `AnswerCache`, `AdaptiveSplit`, `QuestionBatch` and `TargetPages` stand
alone: each abstracts its neighbours to what they may return. An `MC...` module names
the values for TLC and a `...Proofs` module holds theorems; neither defines anything
of the system.

### AttemptGate

An action is one section under `gate.mu`; between two of them any goroutine may
run. The channel `changed` is modelled as the set of calls parked on its current
generation: closing it empties the set. `acquire`'s loop is `Take`
(counts the lease), `Park` (reads the channel and sets a timer), `Wake`, then
`Start` or, if the context ended in the meantime, `AbandonLease`; `GiveUp` is the
check at its head. `RateLimited` is `BackoffProviderAttempts`, `Release` the lease's
return, `Collapse` and `Completed` what the executor tells the gate. `Bind` makes
the gate with the controller's size, or with that of the first batch. Time is a
clock of whole units that `Tick` moves. `fresh`, `earned`, `lastStart` and `promised` are
history variables that only the properties read. Here a call does whatever some
client might do; the next module says what the clients do.

### ProviderCall

`Answer` ends the exchange with one of nine kinds, among them a 429 whose body was
over the limit or cut by the attempt's deadline. `Report` backs the gate off,
`Settle` gives the lease back and judges the answer (`Judged`, `Final`), `Again` and
`StopWaiting` are the two ends of the wait between attempts, and `End` is what
`executeLive` and the pool worker do. `CancelWins` separates the two clients: the
typesafe client returns the context's error when a failure meets an ended context.
The short backoff after other failures is below the clock's resolution.

### ExactRequest and OneAnswer

One call per caller. A caller joins or leads (`Join`), follows (`Follow`,
`StopWaiting`), reads the record (`Hit`, `MissRecord`, `ReadCorrupt`, `Evict`), asks
(`Complete`), saves (`Save`, `SaveFails`) and lands in two steps, as the code does: the
flight is forgotten (`Clear`) and then its channel closes (`Land`). A caller of
`Recallers` only reads; one of `Replays` asks and saves outside any flight. A record is
an answer, nothing or `Corrupt`; the files are `AnswerCache`'s matter. `Accepts` is
what a caller's limits and decoder take. `OneAnswer` has one step: a caller
is told the answer its request keeps, or the one it keeps from now on.

### AnswerCache

The two payloads and the record of a request are read and written one file at a
time (`ReadRecord`, `ReadRequest`, `ReadResponse`; `SaveRequest`, `SaveResponse`,
`Publish`). A payload is whole, damaged or absent, which is what its hash tells.
`settled` and `synced` say what a power loss leaves. Harm is anything the code does
not do itself: power loss, damaged or removed files, `cache clear`, a killed run, an
unreadable file. A response payload is shared by all requests with that answer.

### WorkerPool, SemanticJournal and SequentialBatch

Batches run side by side through one gate, of which only the size is left here. The
feeder is `Offer` and, when the context has ended, `Skip`; a worker's way with a call is
`Accept`, `Prepare` (which may end without the provider: cached, unprepared,
interrupted), `Start` or `GiveUp` at the gate, `Answer`, and `Finish`. A `Denied` answer
is a 401, 402 or 403: the call claims the run's stop (`FirstClaim`) and then aborts the
run (`Abort`), between which others go on. When the last worker has ended the batch
`Close`s and `Replay` tells the calls' events in the caller's order, each of which the
journal numbers (`ObserveStage`) and writes (`Record`) or keeps until `Flush`.
`SequentialBatch` knows results and told events only: slots settle once, and events are
told in order when all have settled.

### AdaptiveSplit

One run after another over one cache, by owners that differ in the refusals they
divide for, in their decoders and in whether they use the cache. Items are intervals of rows,
divided in the middle as `translateWindows` does. A round expands the plan
(`Expand`: too big an item and a remembered one are divided without asking), asks
for every unfinished item (`Resolve`) and collects refusals in plan order (`Collect`:
remember, then divide; failing to remember fails the run). `Abandon` is a kill or an
ended context. An answer is "plain", which every owner takes, or "loose", which
only a lenient owner does: `ReplayJSON` keeps any JSON, so a
record may be one the owner refuses.

### QuestionBatch

Runs of `questionbatch.Run` over one cache, each for one of `Catalogues`. A question
is a number of its own and has another key in each catalogue, as the code numbers
q1, q2, ... `PlanAll` makes windows, `Recalled` fills the cells that memos name,
`StartRound` and `Picked` ask the windows over the same rows one first and the others after (the
waves), `Live` and `Cached` are what a call comes to, `Parts` divides what was refused for its
size, `OmittedWindows` asks questions that an accepted answer left out once more, `Remember` saves the
windows that decided a question. A response is the questions it decides, those it
omits and the cells it refuses. `asked`, `repeated` and `kept` are history.

### RowRecall, AtlasWalk and SerialWalk

`RowRecall` is one table of independent rows. `Take` hands the rows out in order
to as many workers as there are processors and looks up the row's memo, which names
a request of an earlier run or one this reading made for another table; `Load`, `Wait`,
`Wake`, `Read`, `Store` and `Recall` are `loadOnce`, whose load runs outside the lock;
`AskMissing`, `Answer`, `Break` and `Cut` are the four ways on of `runIndependent`.
Of the missing rows of one basis the first is asked, for all of them (`Asker`), and names
the request; the windows that ask several rows are those of `QuestionBatch`.
A response is its version, and others may replace, damage or remove it at any time.
The rounds of a stage are its tables, begun at once.
`AtlasWalk` runs stages in the order of `readingPhases`: `BeginStage` starts a stage's tables,
`Stopped` is a table that fails or whose context ended, `EndStage` returns the error the stage
reports (`Reported` has both rules: the first in time, as `describeDeclarations`, or the
first in order, a failure before a cancellation, as `readAPI`), `Join` is the end of `fork`,
`SaveTables` and `PersistKnowledge` are `saveProgress`. `SerialWalk` is what a reader of
the files may rely on.

### TargetPages

`Page(a)` is one step of adapter a's lane: start, native analysis, projection, wait for the
documentation, artifacts. A step goes on, records the failure as the target's outcome
(`NotAnalyzed`), or ends the publication (`Stop`). `Fold` is `foldTargetPageSlots`,
`FailPublication` cancels the background before it waits, `Join` and `Publish` are what
follows the lanes, `CancelBackground` and `Leave` are the deferred calls. The
reduction and the sources are futures that end by themselves or when cancelled.

## Runs

All runs expect TLC to find no error, but for the last two.

| run | bounds | what it shows |
|---|---|---|
| `gate_recovery` | 2 calls, size 1 or 3, pace 0 or 2, cooldowns 1 and 2, time to 4, 3 backoffs | leases, wakeups, recovery, cooldowns, single attempts while the gate is at one, paces |
| `call` | 2 calls, 3 attempts, six kinds of answer; one call timed, pooled and splitting on 500, the other cancelable | what is sent again and when, no start inside a cooldown; every call that began returns |
| `request_shared` | 3 executors and a recall, 2 answers and a refused one, sound disk, cancellation anywhere | refinement of `OneAnswer`, own cancellation, recalls read their leader |
| `request_flights` | 2 executors, one of which refuses the answer, a recall and a replay, failing disk, any first record | one live call, no accepted answer evicted but as stated, everyone returns |
| `cache_harm` | 2 runs, 2 requests sharing an answer, 2 harms | records stay backed, no imagined corruption, harm costs once |
| `target_pages` | 4 targets of 3 adapters, failures at every step, interruption | complete reports, contained failures, the reported cause; a stopped run returns |
| `split` | 3 rows in an envelope of 2, two owners, a replay or harm | cover, one question per item, nothing paid for twice, the rounds end |
| `pool` | a batch of two calls of the first layer and one of one call, 2 workers, a gate of 2, every answer, interruption, a flush at any time | refinement of `SequentialBatch`, unasked calls say so, one stop, the journal; every batch returns |
| `questions` | 3 questions, 2 rows, windows of 2 questions, 3 runs over two catalogues, 2 faults | no request twice, every cell accounted for, a first window before its siblings, nothing decided is paid for again |
| `atlas_walk` | a serial stage, then a chain of one stage and one of two; 5 tables, 7 rows, three calls of one remembered request, two of them written alike, 2 processors, one replacement, damage or loss of what an earlier run left | refinement of `SerialWalk`, one response per request, the walk returns |
| `target_reduction` | 3 targets in 2 lanes, no interruption | violated: see the findings |
| `pool_stop` | as `pool` | violated: see the findings |

Why these bounds are enough for what they are used for. The gate's hazards are of two calls:
one parked or counted while the other releases, backs off or completes; a call may
return and begin again, so two calls make the four successes of a recovery, and size
3 passes 1, 2 and 3, doubling onto a size that is no power of two. Time to 4 holds a cooldown of 2 and a shorter one
inside it. A third attempt is the first after which an empty answer may have come
twice. A flight with two members beside a leader has one that follows and one that
comes between `Clear` and `Land`. Two harms are one that happens before a repair
and one that meets it. Three rows give an item above the
envelope, one at it and one that cannot be divided. Three lanes of which one has two positions give every
order of a failure before, beside and after a lane. In `pool` one batch has a call to be fed while
another is in the air, and the other batch competes for the gate. In `questions` a third question does not fit the first
window; the second catalogue puts a question before the ones the first run remembered; a
third run finds the memos of both. The limits on rows and bytes are not reached there: a smaller
envelope makes the instance too large, and the proofs hold for any. In `atlas_walk` three rows
on two processors make one read the response, one wait for it and one come when it is there; two chains, of which one stage asks two tables,
give failures beside, before and after each other, at both levels of cancellation.
No two tables of today's stages can ask one input, so none of the instance do; the proofs
cover such tables too, whose rows recall what this reading was answered.
Safety on larger instances is what the proofs are for, where there are any.

`MaxTime`, `MaxEpoch`, `MaxAttempts` (the clients' 4 and 5), `MaxHarms`, `MaxOthers` with `Touched`,
`MaxRuns` and `MaxFaults` bound counters. The bounds on time and backoffs are guards of `Tick` and `BackOff`; in
the runs of `ProviderCall` time moves only while a call waits for it, and `MaxTime` and
`MaxEpoch` exceed what the attempts can use, so that liveness is not helped or hurt by them.
`atlas_walk` alone turns the deadlock check off: a walk that has returned stops.

### Fairness

Weak fairness, and only of steps the code takes without being asked:

* `FairCallSpec`: goroutines are scheduled; timers fire; an HTTP exchange ends, since
  client and attempt carry deadlines. No fairness between waiting calls is assumed:
  the bound on attempts ends the competition.
* `ExactRequest!FairSpec`: a goroutine that can go on does; `provider.Complete` returns
  (which is `EveryCallReturns`). Nobody has to be cancelled.
* `AnswerCache!FairSpec`: a run that began a request goes on. Nobody has to begin one.
* `AdaptiveSplit!FairSpec`: a run goes on; its calls end.
* `WorkerPool!FairSpec`: a batch that began goes on, each call's worker does, and a file
  is written or not. Nobody has to begin a batch, interrupt, or flush.
* `AtlasWalk!FairSpec`: some goroutine of the walk goes on while one can. Nobody has to
  interrupt or to touch the cache.
* `TargetPages!FairSpec`: the dispatcher and the lanes go on, and the reduction ends, as
  model calls do. An extractor ends *when its context has ended*: left alone
  it may run on, which is why cancelling before waiting matters. Failing to publish is possible and never owed.

`QuestionBatch` states no fairness: its runs are bounded by construction, and a run that
stops anywhere is the same as one that was killed.

## Proofs

TLAPS proves, for every value of the constants allowed by the modules' assumptions:

* **The gate** (`GateProofs`). `IInv` is inductive. The safety properties do not
  suffice by themselves: `GateShape` (a bound gate admits at least one lease) is why a
  waiting call without a timer has a lease holder to wake it; `EpochsRead` (a call that read
  the current epoch began since the last 429) is why counted successes are earned;
  `WaitsCover` ties the gate's two times to what was promised. Leases
  need cardinalities of sets that gain or lose one call. From `IInv` follow
  `LeaseSafety`, `WakeupSafety`, `RecoverySafety`, and the action properties
  `BackoffSafety`, `PaceSafety` and `ReopenSafety`.
* **The clients** (`GateProofs`). `CallInv` says what a call holds and has been promised
  at each of its steps. `CallsUseTheGate`: `CallSpec => Spec`, each step of a
  call is a step of the gate or leaves it alone, so all theorems about the gate hold
  of the clients; `CallLeaseSafety` draws that conclusion for one. `CallCooldownSafety` needs that a
  settled 429 is among the gate's promised waits, and `RetrySafety` that the attempts already
  made were all of a kind that is sent again.
* **Exact requests** (`ExactRequestProofs`). `RequestInv` is inductive: `FlightsLed` (a flight
  in the table is led by a caller that is flying, and only such a caller asks) gives
  `SingleFlight`; `StoppedLeaders` (a context's error is held as an answer only until the
  leader lands) gives `OwnCancellation`. `EvictionSafety` needs that only the leader of a flight,
  a recall, or a caller overtaken by a replay may be about to evict.
  `OneAnswerProved` is the refinement of `OneAnswer`, and `RecallSafety` follows the same argument. Both assume `Usable`:
  callers of a request decode alike, the disk does not
  fail, first records are usable and nobody replays; without any one of these two
  callers may rightly be told different answers. `StrandingSafety`: a flight somebody waits for has landed, or its leader
  is on the way to landing it and waits for no other caller, whatever stopped or failed it.
* **The cache** (`AnswerCacheProofs`). `CacheInv` is inductive with `SettledBacked`
  (what a power loss brings back is backed as well), `RunsBacked` (a writer about to publish
  has its payloads down) and `DoubtNeedsHarm`. `RecordSafety` and `EvictionNeedsHarm` follow.
* **Splitting** (`AdaptiveSplitProofs`). `SplitInv` is inductive: `Contiguous` (neighbours in the
  plan touch), the plan's types, and `AskedBefore` (an item is
  asked once at most, and what is still to do in the plan contains nothing already asked). `CoverSafety` and `AskedOnceSafety` follow.
  `PaidInv` says that the cache backs what is remembered, and that an item which was looked up and is still to be asked for, or was
  refused, has no memo its owner could have used. `PaidOnceSafety` follows under `Chained`: of any two owners one divides for all
  the other does. In the code translation sets both `SplitRejectedResponse` and `SplitHTTP500`, and all others set
  neither. Without it two owners whose refusals are incomparable would overwrite each other's memo of an item.
  `CallsBoundedSafety`: a run over n rows given as b items makes at most 2n - b calls (the nodes of b division trees), because
  a split leaves two items where one was and none is asked twice. `RunDwindles`: each step of a run ends it or
  lowers, in dictionary order, the splits still possible, the items still to do, the refusals still to divide, the
  stage of the round and the rest of its scan; `RemainingNatural` says that all five are natural numbers.
* **The pool** (`WorkerPoolProofs`). `PoolInv` ties the place of each call to its slot, its
  reply, the batch's phase and the stop's claims. `NeverAskedSafety`, `OneStopSafety` and the refinement
  `PoolIsSequential` follow, for any batches and any concurrency. `JournalInv` says that a recorded event of
  a batch that was replayed has exactly one exchange, and that an exchange is numbered
  and in one place: pending, written or warned of. `JournalOrderSafety` and `NothingLostSafety` follow, for any number of stages that
  observe side by side. `WaitsSafety`: a batch that was begun goes on, or a call of it waits for a lease while some call
  holds one. A batch never waits for an empty pool, for its own feeder, or for a call of another batch
  that waits itself; it rests on `Serving`, that no answer narrows the gate to nothing.
* **Question batches** (`QuestionBatchProofs`). `BatchInv`: the windows of a round
  that still wait are apart, and each asks about an open cell; of the windows
  asked in one run any two are apart or one is nested in the other; and a window asked once more for what was omitted makes
  another request than the one that omitted it. `NoRequestRepeatedSafety`, `EveryCellAccountedSafety`,
  `SiblingsAfterFirstSafety` and `BatchTypes` follow.
  `KeptInv` is about all runs over one cache: what is decided is what the deciding windows' answers say; the windows of a
  memo decide different cells, so that recalling them in order decides all of those; and what a memo tells is decided, or
  was answered in the wave that is not applied yet. The last is why an answer that is saved meanwhile cannot
  take a cell from another window of the memo. `DecidedOnceSafety` follows. `WindowsFitSafety` is about what `PlanAll` plans: every window is
  within the envelope or is one question over one row. Plans and divisions are recursive
  functions: the proofs show first that they exist, and then argue by the least number at
  which a claim would fail.
* **The atlas** (`AtlasWalkProofs`). `RecallInv`: a response that is being read is in `loading`
  and in no cache, and only one row reads it, so every row that is ready saw what was
  stored: `RowSafety`. `WalkInv`: the first table of a stage to stop failed by itself or was stopped from
  outside, and a fork's failure is a failed table's stage or the user's interruption; from this,
  `ErrorSafety`, whichever of the two rules a stage reports by. `ReadInv`: the tables that were joined begin the
  flattened step order, a stage's tables stand at one place of it, only stages of the current
  phase run, and each file holds what was joined when it was saved. `WalkIsSerial`: each step of the walk is a step of
  `SerialWalk` or leaves its view alone. A `Join` shows in the files only when `SaveTables` writes, so the
  proof maps that write to the serial `Join` of all tables up to there. It assumes that `Phases` names each stage once,
  as `readingPhases` does. `LoadersSafety` says that each response rows wait for is in the hands of a row.
  With it `WalkGoesOn`: until the walk returns, some row, table, stage or the fork goes on. It assumes that each
  phase has a stage, again as in `readingPhases`; the first stage of a chain that is not done, the first row of a table that
  is not asked and the reader of a response are the witnesses.
* **Target pages** (`TargetPagesProofs`). `PagesInv` is inductive for any number of targets and
  any adapters. `LanesOrdered` describes a lane's positions, `ContextsExplained` why a context
  ended, `DispatchOrdered` what the dispatcher may have returned. The lowest
  positions chosen by `NextOfLane`, `FirstOf` and `Lowest` exist because the natural numbers are well-ordered.
  `ReturnWaitsSafety`: until the run returns the dispatcher or a lane goes on, or the reduction is running, or an
  extractor is, which by then is cancelled or read by the report that is waiting for it.

Only model-checked: all liveness (the `Every...Returns` properties, `StoppedRunReturns` and `PaysNoMore`),
which needs fairness and is beyond the prover. For splitting, the pool, the atlas, exact requests and target pages the part of it that is safety is proved:
`RunDwindles`, `WaitsSafety`, `WalkGoesOn`, `StrandingSafety` and `ReturnWaitsSafety`. They say by the guards of the steps who can go on (`ENABLED` is
beyond the prover as well), and are stated beside their proofs, as properties of no run. What they leave to fairness
is that whoever can go on does, and that an exchange that holds a lease ends. Every safety invariant, action property and refinement that a
passing run checks is proved as well.

## Findings

* `target_reduction`: a lane waits for the reduction without its own context, and the
  dispatcher waits for every lane before it cancels the background. A failure in
  one lane therefore waits, with the other lane, until the reduction has finished, which
  `docs/contracts/SURFACE.md` says does not happen.
* `pool_stop`: a refusal of the credentials stops the run from the executing call, after the
  client has given the attempt's lease back. A call that waited for the lease may start
  in between; `docs/contracts/EXECUTION.md` and two comments say the stop comes before the next queued
  call starts.

## Not modelled, and why

* Request bodies, prompts, limits and decoding are abstracted to what a caller accepts; HTTP
  to the kinds of answer the retry loop tells apart.
* Diagnostics and progress messages: they record, and nothing here depends on them.
* Replacing a file during an eviction by another process: `docs/contracts/EXECUTION.md`
  states that the removal is by path and not atomic.
* Question batches: a single question over a single row that fits no request, failures before
  anything is asked, duplicates of a question, and the wording of a cell's answer.
* Atlas reading: what a stage computes from its answers, dry reading, the recall of
  descriptions before questions alone, and stages with loops of their own (design, learning,
  joints), which use the pool and the split memos directly. A stage is modelled by the tables
  it asks at once.
* Documentation reduction beyond its outcome: its rounds are those of `AdaptiveSplit`.
* The language adapters, facts, claims and the report page are functions of their input
  without steps to interleave: their properties are about data, not about steps. They are most of
  the repository's lines. Translation is sequential around the pool. The report server
  keeps one slot under one lock.

## Plan

Done, in this order: the gate, the calls, exact requests with their abstract promise, the
cache, the dispatcher, splitting, the worker pool with the journal, question batches, the
atlas walk, and proofs for each of them.

What remains, by what it would add:

1. An abstract store that `AnswerCache` implements, used in the place of records by `ExactRequest`.
2. The stages of the atlas with loops of their own, and the report server's slot.

## Running it

    tlc -config AttemptGate.cfg MCAttemptGate
    tlapm GateProofs.tla

and likewise for the others; `PROJECT.json` names the module and configuration of each run,
the lines of the source each definition models, and, for each property, a
variant of a definition (a "Mutant" in the module) under which the property fails.
