----------------------------- MODULE TargetPages -----------------------------
(***************************************************************************)
(* The dispatcher of internal/run/repository_target_dispatch_runtime.go: the *)
(* planned targets' pages run in one lane per adapter, beside the           *)
(* documentation reduction every page waits for and the sources the report   *)
(* waits for.  The lanes' results are folded in plan order; a failure that   *)
(* ends the publication cancels the other lanes, and then the background.   *)
(***************************************************************************)
EXTENDS Naturals, FiniteSets

CONSTANTS Count,          \* planned targets, at the positions 1..Count
          AdapterOf,      \* the adapter of each position
          Faulty,         \* positions that may fail beyond what an outcome records
          Interruptible   \* the run may be interrupted or aborted

Positions == 1..Count
Adapters == {AdapterOf[p] : p \in Positions}

ASSUME PagesAssumption ==
    /\ Count \in Nat \ {0}
    /\ DOMAIN AdapterOf = Positions
    /\ Faulty \subseteq Positions
    /\ Interruptible \in BOOLEAN

VARIABLES
    slot,          \* what each position came to, "none" until then
    at,            \* the position each lane works on, Count + 1 when it has none
    step,          \* where that position's page stands, "ended" when the lane returned
    documentation, \* the reduction: "running", "ready", "refused" or "canceled"
    sources,       \* extractors and tracked paths: "running" or "ended"
    interrupted,   \* the run's own context ended
    lanesCanceled, \* cancelLanes was called
    runCanceled,   \* cancelRun was called
    dispatcher,    \* where dispatchRepositoryTargetPlan stands
    cause,         \* the failure it is stopping for
    result,        \* what it returns
    cut            \* history: positions not analyzed once their context had ended

background == <<documentation, sources>>
lanes == <<slot, at, step, cut>>
dispatch == <<dispatcher, cause, result>>
vars == <<lanes, background, dispatch, interrupted, lanesCanceled, runCanceled>>

\* How a page ends the publication: by its own failure, by its context's end, or
\* with the reduction's error.
Stops == {"failed", "canceled", "refused", "reductionCanceled"}
Outcomes == {"analyzed", "notAnalyzed"}

LaneContextEnded == interrupted \/ lanesCanceled
RunContextEnded == interrupted \/ runCanceled

\* The next position of the same adapter, Count + 1 after the last.
NextOfLane(p) ==
    CHOOSE q \in p+1 .. Count+1 :
        /\ q = Count + 1 \/ AdapterOf[q] = AdapterOf[p]
        /\ \A r \in p+1 .. q-1 : AdapterOf[r] # AdapterOf[p]

FirstOf(a) == CHOOSE p \in Positions :
    AdapterOf[p] = a /\ \A q \in 1..p-1 : AdapterOf[q] # a

Init ==
    /\ slot = [p \in Positions |-> "none"]
    /\ at = [a \in Adapters |-> FirstOf(a)]
    /\ step = [a \in Adapters |-> "start"]
    /\ documentation = "running"
    /\ sources = "running"
    /\ interrupted = FALSE
    /\ lanesCanceled = FALSE
    /\ runCanceled = FALSE
    /\ dispatcher = "planning"
    /\ cause = "none"
    /\ result = "none"
    /\ cut = {}

-----------------------------------------------------------------------------
(* One lane.  A page ends with an outcome, and the lane goes on, or with a    *)
(* stop, which cancels the other lanes and ends this one.                   *)

Goto(a, place) ==
    /\ step' = [step EXCEPT ![a] = place]
    /\ UNCHANGED <<slot, at, lanesCanceled, cut>>

Finish(a, outcome) ==
    /\ slot' = [slot EXCEPT ![at[a]] = outcome]
    /\ at' = [at EXCEPT ![a] = NextOfLane(at[a])]
    /\ step' = [step EXCEPT ![a] = IF NextOfLane(at[a]) > Count THEN "ended" ELSE "start"]

Stop(a, kind) ==
    /\ slot' = [slot EXCEPT ![at[a]] = kind]
    /\ step' = [step EXCEPT ![a] = "ended"]
    /\ lanesCanceled' = TRUE
    /\ UNCHANGED <<at, cut>>

\* Mutant: a target that is not analyzed cancels its siblings.
NotAnalyzedCancels(a) ==
    /\ Finish(a, "notAnalyzed")
    /\ cut' = IF LaneContextEnded THEN cut \cup {at[a]} ELSE cut
    /\ lanesCanceled' = TRUE

\* notAnalyzed: the failure is this target's outcome.
NotAnalyzed(a) ==
    /\ Finish(a, "notAnalyzed")
    /\ cut' = IF LaneContextEnded THEN cut \cup {at[a]} ELSE cut
    /\ UNCHANGED lanesCanceled

\* The outcome's own validation refused it, or the plan's adapter is unknown.
Unrecordable(a) == at[a] \in Faulty /\ Stop(a, "failed")

\* A failure under an ended context is taken for its cancellation.
Failed(a) == IF LaneContextEnded THEN Stop(a, "canceled") ELSE NotAnalyzed(a) \/ Unrecordable(a)

\* A page looks at its context first, then at its adapter.
StartPage(a) ==
    /\ step[a] = "start"
    /\ IF LaneContextEnded THEN Stop(a, "canceled") ELSE Goto(a, "native") \/ Unrecordable(a)

\* PrepareDispatchTarget, and the check that it kept the planned identity.
Prepare(a) ==
    /\ step[a] = "native"
    /\ Goto(a, "projection") \/ Failed(a) \/ NotAnalyzed(a)

\* The projection's failure is the target's own whatever its context.
Project(a) ==
    /\ step[a] = "projection"
    /\ Goto(a, "documentation") \/ NotAnalyzed(a) \/ Unrecordable(a)

\* The page waits for the reduction, and takes its error for a stop of its own.
JoinDocumentation(a) ==
    /\ step[a] = "documentation"
    /\ \/ documentation = "ready" /\ (Goto(a, "artifacts") \/ Unrecordable(a))
       \/ documentation = "refused" /\ Stop(a, "refused")
       \/ documentation = "canceled" /\ Stop(a, "reductionCanceled")

\* The ordinary single-page run and the checks of what it published.
Artifacts(a) ==
    /\ step[a] = "artifacts"
    /\ \/ Finish(a, "analyzed") /\ UNCHANGED <<lanesCanceled, cut>>
       \/ Failed(a) \/ NotAnalyzed(a) \/ Unrecordable(a)

Page(a) ==
    /\ dispatcher = "pages"
    /\ StartPage(a) \/ Prepare(a) \/ Project(a) \/ JoinDocumentation(a) \/ Artifacts(a)
    /\ UNCHANGED <<background, dispatch, interrupted, runCanceled>>

-----------------------------------------------------------------------------
(* The background work.                                                     *)

EndDocumentation(kind) ==
    /\ documentation = "running"
    /\ kind = "canceled" => RunContextEnded
    /\ documentation' = kind
    /\ UNCHANGED <<lanes, sources, dispatch, interrupted, lanesCanceled, runCanceled>>

EndSources ==
    /\ sources = "running"
    /\ sources' = "ended"
    /\ UNCHANGED <<lanes, documentation, dispatch, interrupted, lanesCanceled, runCanceled>>

Interrupt ==
    /\ Interruptible /\ ~interrupted /\ dispatcher # "returned"
    /\ interrupted' = TRUE
    /\ UNCHANGED <<lanes, background, dispatch, lanesCanceled, runCanceled>>

-----------------------------------------------------------------------------
(* dispatchRepositoryTargetPlan.                                            *)

Return(r) == dispatcher' = "leaving" /\ result' = r /\ UNCHANGED <<cause, runCanceled>>

\* failPublication cancels the background before it waits for it.
FailPublication(why) ==
    /\ dispatcher' = "stopping"
    /\ cause' = why
    /\ runCanceled' = TRUE
    /\ UNCHANGED result

Plan ==
    /\ dispatcher = "planning"
    /\ \/ dispatcher' = "pages" /\ UNCHANGED <<cause, result, runCanceled>>
       \/ Return("unplanned")
    /\ UNCHANGED <<lanes, background, interrupted, lanesCanceled>>

StopsOf(kinds) == {p \in Positions : slot[p] \in kinds}
Lowest(ps) == CHOOSE p \in ps : \A q \in ps : p <= q

\* Mutant: some finished pages are enough for a report.
StopUnlessSomeRuns ==
    LET stopped == StopsOf(Stops) IN
    IF stopped = {} \/ StopsOf({"analyzed"}) # {} THEN "none" ELSE slot[Lowest(stopped)]

\* foldTargetPageSlots: the lowest stop that is not marked canceled, or else
\* the lowest.  A cancelled reduction's error is not marked.
FoldStop ==
    LET own == StopsOf(Stops \ {"canceled"})
        stopped == StopsOf(Stops) IN
    IF stopped = {} THEN "none" ELSE slot[Lowest(IF own # {} THEN own ELSE stopped)]

\* Every lane has returned: stop for their failure, or join the reduction.
Fold ==
    /\ dispatcher = "pages"
    /\ \A a \in Adapters : step[a] = "ended"
    /\ IF FoldStop # "none"
       THEN FailPublication(FoldStop)
       ELSE dispatcher' = "joining" /\ UNCHANGED <<cause, result, runCanceled>>
    /\ UNCHANGED <<lanes, background, interrupted, lanesCanceled>>

\* Mutant: the stop's cause hides the reduction's refusal.
CauseAlone == cause

\* The reduction's refusal stays the reported cause; its cancellation is none.
ReportedCause == IF documentation = "refused" THEN "refused" ELSE cause

Stopped ==
    /\ dispatcher = "stopping" /\ documentation # "running"
    /\ Return(ReportedCause)
    /\ UNCHANGED <<lanes, background, interrupted, lanesCanceled>>

\* The reduction's error ends the run; so does a plan of which nothing was
\* analyzed.  The outcomes' own portfolio may refuse them.
Join ==
    /\ dispatcher = "joining" /\ documentation # "running"
    /\ IF documentation # "ready" THEN Return(documentation)
       ELSE \/ FailPublication("failed")
            \/ IF StopsOf({"analyzed"}) = {} THEN Return("nothingAnalyzed")
               ELSE dispatcher' = "publishing" /\ UNCHANGED <<cause, result, runCanceled>>
    /\ UNCHANGED <<lanes, background, interrupted, lanesCanceled>>

\* Mutant: the report is assembled without looking at the context.
PublishAnyway ==
    /\ dispatcher = "publishing" /\ sources = "ended"
    /\ Return("report")
    /\ UNCHANGED <<lanes, background, interrupted, lanesCanceled>>

\* The atlas waits for the sources; the report is assembled and published only
\* under a live context.
Publish ==
    /\ dispatcher = "publishing" /\ sources = "ended"
    /\ IF interrupted THEN FailPublication("canceled") ELSE Return("report")
    /\ UNCHANGED <<lanes, background, interrupted, lanesCanceled>>

\* An artifact, the atlas or the report may fail first, the sources read or not.
FailToPublish ==
    /\ dispatcher = "publishing"
    /\ FailPublication("failed")
    /\ UNCHANGED <<lanes, background, interrupted, lanesCanceled>>

\* Mutant: the deferred calls run in the opposite order.
WaitThenCancel ==
    /\ dispatcher = "leaving" /\ documentation # "running" /\ sources # "running"
    /\ dispatcher' = "waiting" /\ runCanceled' = TRUE
    /\ UNCHANGED <<lanes, background, cause, result, interrupted, lanesCanceled>>

\* The deferred calls: cancelRun first, then the waits.
CancelBackground ==
    /\ dispatcher = "leaving"
    /\ dispatcher' = "waiting" /\ runCanceled' = TRUE
    /\ UNCHANGED <<lanes, background, cause, result, interrupted, lanesCanceled>>

Leave ==
    /\ dispatcher = "waiting" /\ documentation # "running" /\ sources # "running"
    /\ dispatcher' = "returned"
    /\ UNCHANGED <<lanes, background, cause, result, interrupted, lanesCanceled, runCanceled>>

Dispatch == Plan \/ Fold \/ Stopped \/ Join \/ Publish \/ CancelBackground \/ Leave

Returned == dispatcher = "returned" /\ UNCHANGED vars

Next ==
    \/ Dispatch
    \/ FailToPublish
    \/ \E a \in Adapters : Page(a)
    \/ \E kind \in {"ready", "refused", "canceled"} : EndDocumentation(kind)
    \/ EndSources
    \/ Interrupt
    \/ Returned

Spec == Init /\ [][Next]_vars

\* Compilers, parsers and model calls end.  An extractor ends when its context
\* does; left alone it may run on.
FairSpec ==
    /\ Spec
    /\ WF_vars(Dispatch)
    /\ \A a \in Adapters : WF_vars(Page(a))
    /\ WF_vars(\E kind \in {"ready", "refused", "canceled"} : EndDocumentation(kind))
    /\ WF_vars(RunContextEnded /\ EndSources)

-----------------------------------------------------------------------------
\* Types of the variables; a lane works on its own adapter's positions.
TypeOK ==
    /\ slot \in [Positions -> {"none"} \cup Outcomes \cup Stops]
    /\ at \in [Adapters -> 1..Count+1]
    /\ \A a \in Adapters : at[a] \in Positions => AdapterOf[at[a]] = a
    /\ step \in [Adapters -> {"start", "native", "projection", "documentation", "artifacts", "ended"}]
    /\ documentation \in {"running", "ready", "refused", "canceled"}
    /\ sources \in {"running", "ended"}
    /\ interrupted \in BOOLEAN /\ lanesCanceled \in BOOLEAN /\ runCanceled \in BOOLEAN
    /\ dispatcher \in {"planning", "pages", "joining", "publishing", "stopping", "leaving",
                       "waiting", "returned"}
    /\ cause \in {"none"} \cup Stops
    /\ result \in {"none", "report", "unplanned", "nothingAnalyzed"} \cup Stops
    /\ cut \subseteq Positions

\* A lane's own positions: outcomes behind it, nothing ahead of it, and where it
\* stands nothing yet or the stop that ended it.
LanesOrdered ==
    \A a \in Adapters :
        /\ at[a] = Count + 1 => step[a] = "ended"
        /\ at[a] \in Positions =>
              IF step[a] = "ended" THEN slot[at[a]] \in Stops ELSE slot[at[a]] = "none"
        /\ \A p \in Positions : AdapterOf[p] = a =>
              (p < at[a] => slot[p] \in Outcomes) /\ (p > at[a] => slot[p] = "none")

\* A context that ended has its reason, and nothing ends the background while
\* the lanes run.
ContextsExplained ==
    /\ lanesCanceled \/ cut # {} => interrupted \/ StopsOf({"failed", "refused"}) # {}
    /\ documentation = "canceled" /\ dispatcher \in {"planning", "pages"} => interrupted
    /\ dispatcher \in {"planning", "pages"} => ~runCanceled

\* The dispatcher goes on from the lanes only when they have all ended without a
\* stop, and leaves with a result that the reduction allows.
DispatchOrdered ==
    /\ dispatcher \in {"joining", "publishing"} =>
          StopsOf(Stops) = {} /\ \A a \in Adapters : step[a] = "ended"
    /\ dispatcher = "publishing" => documentation = "ready"
    /\ dispatcher = "stopping" => cause # "none"
    /\ result # "none" <=> dispatcher \in {"leaving", "waiting", "returned"}
    /\ result \notin {"none", "unplanned"} => documentation # "running"

\* A refused reduction is the reported cause ahead of whatever the targets came
\* to, on every path after the plan.  (failPublication)
RefusalReported ==
    documentation = "refused" /\ dispatcher # "planning" =>
        result \in {"none", "unplanned", "refused"}

\* A report accounts for every planned target: each one has its outcome, and the
\* reduction every page was built from was ready.  (foldTargetPageSlots)
ReportComplete ==
    result = "report" =>
        documentation = "ready" /\ \A p \in Positions : slot[p] \in Outcomes

\* A report never shows as "not analyzed" a target whose page was cut by the
\* end of its context.  (page, assembleRepositoryReport, publishRepositoryReport)
CutTargetsUnreported == result = "report" => cut = {}

\* A target sees its context's end only when the run was interrupted or a
\* failure ended the publication: one that is not analyzed disturbs no sibling.
\* (runTargetPageLanes)
FailuresContained ==
    StopsOf({"canceled"}) # {} \/ cut # {} =>
        interrupted \/ StopsOf({"failed", "refused"}) # {}

\* The inductive invariant behind the four.
PagesInv ==
    /\ TypeOK /\ LanesOrdered /\ ContextsExplained /\ DispatchOrdered
    /\ RefusalReported /\ ReportComplete /\ CutTargetsUnreported /\ FailuresContained

\* A run that is interrupted, that a target stopped or that has its result
\* returns, although an extractor would run on: the extractor is cancelled
\* before anybody waits for it.  (failPublication, the deferred calls)
StoppedRunReturns ==
    interrupted \/ StopsOf(Stops) # {} \/ result # "none" ~> dispatcher = "returned"

-----------------------------------------------------------------------------
(* What docs/contracts/SURFACE.md says of a stopped run.                     *)

\* Once a failure ended the publication, nothing waits for a reduction that is
\* still running and was not cancelled.
NothingAwaitsAStoppedReduction ==
    documentation = "running" /\ StopsOf({"failed"}) # {} /\ ~RunContextEnded
        => \A a \in Adapters : step[a] # "documentation"
=============================================================================
