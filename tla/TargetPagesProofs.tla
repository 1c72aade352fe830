-------------------------- MODULE TargetPagesProofs --------------------------
(***************************************************************************)
(* For every plan, every choice of adapters and every place a page may fail: *)
(* what the dispatcher reports is complete and has the right cause.          *)
(***************************************************************************)
EXTENDS TargetPages, Integers, WellFoundedInduction, TLAPS

Below == {ss \in Nat \X Nat : ss[1] < ss[2]}

\* Every set of positions has a lowest one.
LEMMA LeastExists ==
    ASSUME NEW S \in SUBSET Nat, S # {}
    PROVE  \E x \in S : \A y \in S : x <= y
<1>1. IsWellFoundedOn(Below, Nat)
  BY NatLessThanWellFounded, Zenon DEF OpToRel, Below
<1>2. \A x, y \in Nat : x < y => <<x, y>> \in Below
  BY DEF Below
<1>3. PICK x \in S : \A y \in S : ~(<<y, x>> \in Below)
  BY <1>1, WFMin, Zenon
<1>4. \A y \in S : y \in Nat /\ x \in Nat
  OBVIOUS
<1>5. \A y \in S : ~(y < x)
  BY <1>2, <1>3, <1>4
<1>. QED
  BY <1>4, <1>5

LEMMA LowestIn ==
    ASSUME NEW S \in SUBSET Positions, S # {}
    PROVE  Lowest(S) \in S /\ \A q \in S : Lowest(S) <= q
<1>1. S \in SUBSET Nat
  BY PagesAssumption DEF Positions
<1>2. \E x \in S : \A y \in S : x <= y
  BY <1>1, LeastExists
<1>. QED
  BY <1>2 DEF Lowest

\* A lane starts at its adapter's lowest position.
LEMMA FirstOfLane ==
    ASSUME NEW a \in Adapters
    PROVE  /\ FirstOf(a) \in Positions
           /\ AdapterOf[FirstOf(a)] = a
           /\ \A q \in Positions : q < FirstOf(a) => AdapterOf[q] # a
<1>. DEFINE S == {p \in Positions : AdapterOf[p] = a}
<1>1. S \in SUBSET Nat /\ S # {}
  BY PagesAssumption DEF Positions, Adapters
<1>2. PICK x \in S : \A y \in S : x <= y
  BY <1>1, LeastExists
<1>3. x \in Positions /\ AdapterOf[x] = a /\ \A q \in 1..x-1 : AdapterOf[q] # a
  BY <1>2, PagesAssumption DEF Positions
<1>4. /\ FirstOf(a) \in Positions
      /\ AdapterOf[FirstOf(a)] = a /\ \A q \in 1..FirstOf(a)-1 : AdapterOf[q] # a
  <2>. DEFINE Is(p) == AdapterOf[p] = a /\ \A q \in 1..p-1 : AdapterOf[q] # a
  <2>1. \E p \in Positions : Is(p)
    BY <1>3
  <2>2. FirstOf(a) = CHOOSE p \in Positions : Is(p)
    BY DEF FirstOf
  <2>. HIDE DEF Is
  <2>3. FirstOf(a) \in Positions /\ Is(FirstOf(a))
    BY <2>1, <2>2
  <2>. QED
    BY <2>3 DEF Is
<1>. QED
  BY <1>4, PagesAssumption DEF Positions

\* A lane skips no position of its adapter.
LEMMA NextOfLaneIs ==
    ASSUME NEW p \in Positions
    PROVE  /\ NextOfLane(p) \in p+1 .. Count+1
           /\ NextOfLane(p) # Count + 1 => AdapterOf[NextOfLane(p)] = AdapterOf[p]
           /\ \A r \in Positions : p < r /\ r < NextOfLane(p) => AdapterOf[r] # AdapterOf[p]
<1>. DEFINE Is(q) == /\ q = Count + 1 \/ AdapterOf[q] = AdapterOf[p]
                     /\ \A r \in p+1 .. q-1 : AdapterOf[r] # AdapterOf[p]
            S == {q \in p+1 .. Count+1 : q = Count + 1 \/ AdapterOf[q] = AdapterOf[p]}
<1>0. p \in Nat /\ Count \in Nat /\ p <= Count
  BY PagesAssumption DEF Positions
<1>1. S \in SUBSET Nat /\ Count + 1 \in S
  BY <1>0
<1>2. PICK x \in S : \A y \in S : x <= y
  BY <1>1, LeastExists
<1>3. x \in p+1 .. Count+1 /\ Is(x)
  BY <1>0, <1>2
<1>4. NextOfLane(p) = CHOOSE q \in p+1 .. Count+1 : Is(q)
  BY DEF NextOfLane
<1>. HIDE DEF Is
<1>5. NextOfLane(p) \in p+1 .. Count+1 /\ Is(NextOfLane(p))
  BY <1>3, <1>4
<1>. QED
  BY <1>0, <1>5 DEF Is, Positions

-----------------------------------------------------------------------------
(* The lanes.                                                               *)

Places == {"start", "native", "projection", "documentation", "artifacts", "ended"}

\* Whatever a page does, it moves on, finishes its target or stops its lane, and
\* it stops as cancelled or for the reduction only with a reason.
LEMMA StepsOfPage ==
    ASSUME NEW a \in Adapters, TypeOK, Page(a)
    PROVE  /\ dispatcher = "pages" /\ step[a] # "ended"
           /\ UNCHANGED <<background, dispatch, interrupted, runCanceled>>
           /\ \/ \E place \in Places \ {"start", "ended"} : Goto(a, place)
              \/ Finish(a, "analyzed") /\ UNCHANGED <<lanesCanceled, cut>>
              \/ NotAnalyzed(a)
              \/ Stop(a, "failed")
              \/ LaneContextEnded /\ Stop(a, "canceled")
              \/ documentation = "refused" /\ Stop(a, "refused")
              \/ documentation = "canceled" /\ Stop(a, "reductionCanceled")
<1>1. CASE StartPage(a)
  BY <1>1 DEF Page, StartPage, Unrecordable, Places
<1>2. CASE Prepare(a)
  BY <1>2 DEF Page, Prepare, Failed, Unrecordable, Places
<1>3. CASE Project(a)
  BY <1>3 DEF Page, Project, Unrecordable, Places
<1>4. CASE JoinDocumentation(a)
  BY <1>4 DEF Page, JoinDocumentation, Unrecordable, Places
<1>5. CASE Artifacts(a)
  BY <1>5 DEF Page, Artifacts, Failed, Unrecordable
<1>. QED
  BY <1>1, <1>2, <1>3, <1>4, <1>5 DEF Page

\* A lane that has not ended works on a position of its own that has nothing yet.
LEMMA LaneStands ==
    ASSUME NEW a \in Adapters, TypeOK, LanesOrdered, step[a] # "ended"
    PROVE  at[a] \in Positions /\ AdapterOf[at[a]] = a /\ slot[at[a]] = "none"
  BY PagesAssumption DEF TypeOK, LanesOrdered, Positions

\* A stop once recorded stays recorded.
LEMMA StopsKept ==
    ASSUME TypeOK, NEW p \in Positions, slot[p] = "none", NEW o,
           slot' = [slot EXCEPT ![p] = o], NEW K \in SUBSET Stops
    PROVE  StopsOf(K) \subseteq StopsOf(K)'
  BY DEF StopsOf, TypeOK, Stops

LEMMA GotoKeepsOrder ==
    ASSUME TypeOK, LanesOrdered, NEW a \in Adapters, step[a] # "ended",
           NEW place \in Places \ {"ended"}, Goto(a, place)
    PROVE  LanesOrdered'
  BY LaneStands DEF Goto, TypeOK, LanesOrdered

\* A lane that records an outcome leaves a filled position behind and nothing
\* ahead of the next.
LEMMA FinishKeepsOrder ==
    ASSUME TypeOK, LanesOrdered, NEW a \in Adapters, step[a] # "ended",
           NEW o \in Outcomes, Finish(a, o)
    PROVE  LanesOrdered'
<1>. DEFINE p == at[a]
            next == NextOfLane(at[a])
<1>1. p \in Positions /\ AdapterOf[p] = a /\ slot[p] = "none"
  BY LaneStands
<1>2. /\ next \in p+1 .. Count+1
      /\ next # Count + 1 => AdapterOf[next] = a
      /\ \A r \in Positions : p < r /\ r < next => AdapterOf[r] # a
  BY <1>1, NextOfLaneIs
<1>3. /\ slot' = [slot EXCEPT ![p] = o]
      /\ at' = [at EXCEPT ![a] = next]
      /\ step' = [step EXCEPT ![a] = IF next > Count THEN "ended" ELSE "start"]
  BY DEF Finish
<1>4. p \in Nat /\ Count \in Nat /\ Positions = 1..Count
  BY <1>1, PagesAssumption DEF Positions
<1>. HIDE DEF next
<1>5. SUFFICES ASSUME NEW b \in Adapters
               PROVE  /\ at'[b] = Count + 1 => step'[b] = "ended"
                      /\ at'[b] \in Positions =>
                           IF step'[b] = "ended" THEN slot'[at'[b]] \in Stops
                                                 ELSE slot'[at'[b]] = "none"
                      /\ \A q \in Positions : AdapterOf[q] = b =>
                           (q < at'[b] => slot'[q] \in Outcomes) /\ (q > at'[b] => slot'[q] = "none")
  BY DEF LanesOrdered
<1>6. CASE b # a
  <2>1. at'[b] = at[b] /\ step'[b] = step[b]
    BY <1>3, <1>6 DEF TypeOK
  <2>2. \A q \in Positions : AdapterOf[q] = b => slot'[q] = slot[q]
    BY <1>1, <1>3, <1>6 DEF TypeOK
  <2>3. at[b] \in Positions => slot'[at[b]] = slot[at[b]]
    BY <2>2 DEF TypeOK
  <2>. QED
    BY <2>1, <2>2, <2>3 DEF LanesOrdered
<1>7. CASE b = a
  <2>1. at'[a] = next /\ step'[a] = IF next > Count THEN "ended" ELSE "start"
    BY <1>3 DEF TypeOK
  <2>2. \A q \in Positions : q # p => slot'[q] = slot[q]
    BY <1>3 DEF TypeOK
  <2>3. slot'[p] \in Outcomes
    BY <1>1, <1>3 DEF TypeOK
  <2>4. \A q \in Positions : AdapterOf[q] = a =>
           /\ q < p => slot[q] \in Outcomes
           /\ q > p => slot[q] = "none"
    BY DEF LanesOrdered
  <2>5. next = Count + 1 => step'[a] = "ended"
    BY <1>4, <2>1
  <2>6. next \in Positions => step'[a] = "start" /\ slot'[next] = "none"
    BY <1>2, <1>4, <2>1, <2>2, <2>4
  <2>7. \A q \in Positions : AdapterOf[q] = a =>
           (q < next => slot'[q] \in Outcomes) /\ (q > next => slot'[q] = "none")
    BY <1>2, <1>4, <2>2, <2>3, <2>4
  <2>. QED
    BY <1>7, <2>1, <2>5, <2>6, <2>7
<1>. QED
  BY <1>6, <1>7

LEMMA StopKeepsOrder ==
    ASSUME TypeOK, LanesOrdered, NEW a \in Adapters, step[a] # "ended",
           NEW k \in Stops, Stop(a, k)
    PROVE  LanesOrdered'
<1>1. at[a] \in Positions /\ AdapterOf[at[a]] = a
  BY LaneStands
<1>2. /\ slot' = [slot EXCEPT ![at[a]] = k]
      /\ step' = [step EXCEPT ![a] = "ended"]
      /\ at' = at
  BY DEF Stop
<1>3. at[a] \in Nat /\ Count \in Nat /\ Positions = 1..Count
  BY <1>1, PagesAssumption DEF Positions
<1>4. \A b \in Adapters : b # a =>
         /\ step'[b] = step[b]
         /\ \A q \in Positions : AdapterOf[q] = b => slot'[q] = slot[q]
  BY <1>1, <1>2 DEF TypeOK
<1>5. \A q \in Positions : q # at[a] => slot'[q] = slot[q]
  BY <1>2 DEF TypeOK
<1>6. slot'[at[a]] = k /\ step'[a] = "ended"
  BY <1>1, <1>2 DEF TypeOK
<1>. QED
  BY <1>2, <1>3, <1>4, <1>5, <1>6 DEF LanesOrdered, TypeOK

\* A lane's step disturbs nothing that the dispatcher goes by: the lanes run only
\* before it has anything to report.
LEMMA PageKeeps ==
    ASSUME PagesInv, NEW a \in Adapters, Page(a)
    PROVE  PagesInv'
<1>. USE DEF PagesInv
<1>1. /\ dispatcher = "pages" /\ step[a] # "ended"
      /\ UNCHANGED <<background, dispatch, interrupted, runCanceled>>
  BY StepsOfPage
<1>2. at[a] \in Positions /\ AdapterOf[at[a]] = a /\ slot[at[a]] = "none"
  BY <1>1, LaneStands
<1>3. result = "none" /\ result' = "none" /\ dispatcher' = "pages"
  BY <1>1 DEF DispatchOrdered, dispatch
<1>4. DispatchOrdered' /\ RefusalReported' /\ ReportComplete' /\ CutTargetsUnreported'
  BY <1>3 DEF DispatchOrdered, RefusalReported, ReportComplete, CutTargetsUnreported
<1>5. ASSUME NEW place \in Places \ {"start", "ended"}, Goto(a, place)
      PROVE  PagesInv'
  <2>1. TypeOK'
    BY <1>1, <1>5 DEF TypeOK, Goto, Places, background, dispatch
  <2>2. LanesOrdered'
    BY <1>1, <1>5, GotoKeepsOrder
  <2>3. ContextsExplained' /\ FailuresContained'
    BY <1>1, <1>5 DEF ContextsExplained, FailuresContained, StopsOf, Goto, background, dispatch
  <2>. QED
    BY <1>4, <2>1, <2>2, <2>3
<1>6. ASSUME NEW o \in Outcomes, Finish(a, o), UNCHANGED lanesCanceled,
             cut' = cut \/ (LaneContextEnded /\ cut' = cut \cup {at[a]})
      PROVE  PagesInv'
  <2>1. NextOfLane(at[a]) \in 1..Count+1 /\ (NextOfLane(at[a]) \in Positions => AdapterOf[NextOfLane(at[a])] = a)
    BY <1>2, NextOfLaneIs, PagesAssumption DEF Positions
  <2>2. TypeOK'
    <3>1. slot' \in [Positions -> {"none"} \cup Outcomes \cup Stops]
      BY <1>6 DEF Finish, TypeOK
    <3>2. at' \in [Adapters -> 1..Count+1]
          /\ \A b \in Adapters : at'[b] \in Positions => AdapterOf[at'[b]] = b
      BY <1>6, <2>1 DEF Finish, TypeOK
    <3>3. step' \in [Adapters -> {"start", "native", "projection", "documentation", "artifacts", "ended"}]
      BY <1>6 DEF Finish, TypeOK
    <3>4. cut' \subseteq Positions /\ lanesCanceled' \in BOOLEAN
      BY <1>2, <1>6 DEF TypeOK
    <3>. QED
      BY <1>1, <3>1, <3>2, <3>3, <3>4 DEF TypeOK, background, dispatch
  <2>3. LanesOrdered'
    BY <1>1, <1>6, FinishKeepsOrder
  <2>4. StopsOf({"failed", "refused"}) \subseteq StopsOf({"failed", "refused"})'
    BY <1>2, <1>6, StopsKept DEF Finish, Stops
  <2>5. StopsOf({"canceled"})' \subseteq StopsOf({"canceled"})
    BY <1>2, <1>6 DEF Finish, StopsOf, TypeOK, Outcomes
  <2>6. cut' # {} => cut # {} \/ LaneContextEnded
    BY <1>6
  <2>7. ContextsExplained' /\ FailuresContained'
    BY <1>1, <1>6, <2>4, <2>5, <2>6
    DEF ContextsExplained, FailuresContained, LaneContextEnded, background, dispatch
  <2>. QED
    BY <1>4, <2>2, <2>3, <2>7
<1>7. ASSUME NEW k \in Stops, Stop(a, k),
             k \in {"failed", "refused"} \/ LaneContextEnded \/ documentation = "canceled"
      PROVE  PagesInv'
  <2>1. TypeOK'
    BY <1>1, <1>7 DEF TypeOK, Stop, background, dispatch
  <2>2. LanesOrdered'
    BY <1>1, <1>7, StopKeepsOrder
  <2>3. StopsOf({"failed", "refused"}) \subseteq StopsOf({"failed", "refused"})'
    BY <1>2, <1>7, StopsKept DEF Stop, Stops
  <2>4. k \in {"failed", "refused"} => StopsOf({"failed", "refused"})' # {}
    BY <1>2, <1>7 DEF Stop, StopsOf, TypeOK
  <2>5. interrupted \/ StopsOf({"failed", "refused"})' # {}
    BY <1>1, <1>7, <2>3, <2>4 DEF ContextsExplained, LaneContextEnded
  <2>6. ContextsExplained' /\ FailuresContained'
    BY <1>1, <2>5 DEF ContextsExplained, FailuresContained, background, dispatch
  <2>. QED
    BY <1>4, <2>1, <2>2, <2>6
<1>. QED
  <2>1. \/ \E place \in Places \ {"start", "ended"} : Goto(a, place)
        \/ Finish(a, "analyzed") /\ UNCHANGED <<lanesCanceled, cut>>
        \/ NotAnalyzed(a)
        \/ Stop(a, "failed")
        \/ LaneContextEnded /\ Stop(a, "canceled")
        \/ documentation = "refused" /\ Stop(a, "refused")
        \/ documentation = "canceled" /\ Stop(a, "reductionCanceled")
    BY StepsOfPage
  <2>2. CASE \E place \in Places \ {"start", "ended"} : Goto(a, place)
    BY <1>5, <2>2
  <2>3. CASE Finish(a, "analyzed") /\ UNCHANGED <<lanesCanceled, cut>>
    <3>1. cut' = cut /\ "analyzed" \in Outcomes
      BY <2>3 DEF Outcomes
    <3>. QED
      BY <1>6, <2>3, <3>1
  <2>4. CASE NotAnalyzed(a)
    <3>1. /\ Finish(a, "notAnalyzed") /\ UNCHANGED lanesCanceled
          /\ cut' = cut \/ (LaneContextEnded /\ cut' = cut \cup {at[a]})
      BY <2>4 DEF NotAnalyzed
    <3>. QED
      BY <1>6, <3>1 DEF Outcomes
  <2>5. CASE Stop(a, "failed")
    BY <1>7, <2>5 DEF Stops
  <2>6. CASE LaneContextEnded /\ Stop(a, "canceled")
    BY <1>7, <2>6 DEF Stops
  <2>7. CASE documentation = "refused" /\ Stop(a, "refused")
    BY <1>7, <2>7 DEF Stops
  <2>8. CASE documentation = "canceled" /\ Stop(a, "reductionCanceled")
    BY <1>7, <2>8 DEF Stops
  <2>. QED
    BY <2>1, <2>2, <2>3, <2>4, <2>5, <2>6, <2>7, <2>8, Zenon

-----------------------------------------------------------------------------
(* The dispatcher and the background.                                       *)

\* Lanes that all ended without a stop leave an outcome at every position.
LEMMA EndedLanes ==
    ASSUME TypeOK, LanesOrdered, StopsOf(Stops) = {}, \A a \in Adapters : step[a] = "ended"
    PROVE  \A p \in Positions : slot[p] \in Outcomes
<1>1. SUFFICES ASSUME NEW p \in Positions PROVE slot[p] \in Outcomes
  OBVIOUS
<1>2. AdapterOf[p] \in Adapters
  BY DEF Adapters
<1>3. at[AdapterOf[p]] \notin Positions
  BY <1>2 DEF LanesOrdered, StopsOf
<1>4. p < at[AdapterOf[p]]
  BY <1>2, <1>3, PagesAssumption DEF TypeOK, Positions
<1>. QED
  BY <1>2, <1>4 DEF LanesOrdered

\* The fold's failure is one of the slots' stops, if there is any.
LEMMA FoldStopIs ==
    ASSUME TypeOK, FoldStop # "none"
    PROVE  FoldStop \in Stops /\ StopsOf(Stops) # {}
<1>. DEFINE own == StopsOf(Stops \ {"canceled"})
            stopped == StopsOf(Stops)
<1>1. stopped # {} /\ FoldStop = slot[Lowest(IF own # {} THEN own ELSE stopped)]
  BY DEF FoldStop
<1>2. own \subseteq stopped /\ stopped \subseteq Positions
  BY DEF StopsOf
<1>3. Lowest(IF own # {} THEN own ELSE stopped) \in stopped
  BY <1>1, <1>2, LowestIn
<1>. QED
  BY <1>1, <1>3 DEF StopsOf

LEMMA NoFoldStop ==
    ASSUME TypeOK, FoldStop = "none"
    PROVE  StopsOf(Stops) = {}
<1>1. SUFFICES ASSUME StopsOf(Stops) # {} PROVE FALSE
  OBVIOUS
<1>. DEFINE own == StopsOf(Stops \ {"canceled"})
            stopped == StopsOf(Stops)
<1>2. FoldStop = slot[Lowest(IF own # {} THEN own ELSE stopped)]
  BY <1>1 DEF FoldStop
<1>3. own \subseteq stopped /\ stopped \subseteq Positions
  BY DEF StopsOf
<1>4. Lowest(IF own # {} THEN own ELSE stopped) \in stopped
  BY <1>1, <1>3, LowestIn
<1>. QED
  BY <1>2, <1>4 DEF StopsOf, Stops

\* What the dispatcher and the background do leaves the lanes alone.
LEMMA LanesKept ==
    ASSUME LanesOrdered, UNCHANGED lanes
    PROVE  LanesOrdered' /\ \A K : StopsOf(K)' = StopsOf(K)
  BY DEF LanesOrdered, StopsOf, lanes

\* A return keeps the invariant when its result is one the reduction allows.
LEMMA ReturnKeeps ==
    ASSUME PagesInv, NEW r \in {"report", "unplanned", "nothingAnalyzed"} \cup Stops, Return(r),
           UNCHANGED <<lanes, background, interrupted, lanesCanceled>>,
           dispatcher \notin {"leaving", "waiting", "returned"},
           dispatcher = "planning" => r = "unplanned",
           r # "unplanned" => documentation # "running",
           documentation = "refused" => r \in {"unplanned", "refused"},
           r = "report" => dispatcher = "publishing" /\ ~interrupted
    PROVE  PagesInv'
<1>. USE DEF PagesInv
<1>1. /\ dispatcher' = "leaving" /\ result' = r
      /\ UNCHANGED <<cause, runCanceled, documentation, sources, slot, at, step, cut>>
  BY DEF Return, lanes, background
<1>2. LanesOrdered' /\ \A K : StopsOf(K)' = StopsOf(K)
  BY LanesKept
<1>3. TypeOK'
  BY <1>1 DEF TypeOK
<1>4. ContextsExplained' /\ FailuresContained'
  BY <1>1, <1>2 DEF ContextsExplained, FailuresContained
<1>5. r # "none"
  BY DEF Stops
<1>6. DispatchOrdered' /\ RefusalReported'
  BY <1>1, <1>2, <1>5 DEF DispatchOrdered, RefusalReported
<1>7. ReportComplete' /\ CutTargetsUnreported'
  <2>1. SUFFICES ASSUME r = "report"
                 PROVE  documentation = "ready" /\ (\A p \in Positions : slot[p] \in Outcomes) /\ cut = {}
    BY <1>1 DEF ReportComplete, CutTargetsUnreported
  <2>2. /\ documentation = "ready" /\ ~interrupted /\ StopsOf(Stops) = {}
        /\ \A a \in Adapters : step[a] = "ended"
    BY <2>1 DEF DispatchOrdered
  <2>3. \A p \in Positions : slot[p] \in Outcomes
    BY <2>2, EndedLanes
  <2>4. StopsOf({"failed", "refused"}) = {}
    BY <2>2 DEF StopsOf, Stops
  <2>. QED
    BY <2>2, <2>3, <2>4 DEF ContextsExplained
<1>. QED
  BY <1>2, <1>3, <1>4, <1>6, <1>7

\* A failure that ends the publication reports nothing yet.
LEMMA FailKeeps ==
    ASSUME PagesInv, NEW why \in Stops, FailPublication(why),
           UNCHANGED <<lanes, background, interrupted, lanesCanceled>>,
           dispatcher \in {"pages", "joining", "publishing"}
    PROVE  PagesInv'
<1>. USE DEF PagesInv
<1>1. /\ dispatcher' = "stopping" /\ cause' = why /\ why # "none" /\ runCanceled' = TRUE
      /\ UNCHANGED <<documentation, sources, slot, at, step, cut>>
      /\ result = "none" /\ result' = "none"
  BY DEF FailPublication, lanes, background, DispatchOrdered, Stops
<1>2. LanesOrdered' /\ \A K : StopsOf(K)' = StopsOf(K)
  BY LanesKept
<1>3. TypeOK'
  BY <1>1 DEF TypeOK
<1>4. ContextsExplained' /\ FailuresContained'
  BY <1>1, <1>2 DEF ContextsExplained, FailuresContained
<1>5. DispatchOrdered' /\ RefusalReported' /\ ReportComplete' /\ CutTargetsUnreported'
  BY <1>1 DEF DispatchOrdered, RefusalReported, ReportComplete, CutTargetsUnreported
<1>. QED
  BY <1>2, <1>3, <1>4, <1>5

\* Going on from the plan, from the lanes and from the reduction.
LEMMA GoingOnKeeps ==
    ASSUME PagesInv, UNCHANGED <<lanes, background, interrupted, lanesCanceled, cause, result, runCanceled>>,
           \/ dispatcher = "planning" /\ dispatcher' = "pages"
           \/ /\ dispatcher = "pages" /\ dispatcher' = "joining"
              /\ StopsOf(Stops) = {} /\ \A a \in Adapters : step[a] = "ended"
           \/ dispatcher = "joining" /\ dispatcher' = "publishing" /\ documentation = "ready"
    PROVE  PagesInv'
<1>. USE DEF PagesInv
<1>1. /\ UNCHANGED <<documentation, sources, slot, at, step, cut>>
      /\ result = "none" /\ result' = "none"
  BY DEF lanes, background, DispatchOrdered
<1>2. LanesOrdered' /\ \A K : StopsOf(K)' = StopsOf(K)
  BY LanesKept
<1>3. TypeOK'
  BY <1>1 DEF TypeOK
<1>4. ContextsExplained' /\ FailuresContained'
  BY <1>1, <1>2 DEF ContextsExplained, FailuresContained
<1>5. DispatchOrdered' /\ RefusalReported' /\ ReportComplete' /\ CutTargetsUnreported'
  BY <1>1, <1>2 DEF DispatchOrdered, RefusalReported, ReportComplete, CutTargetsUnreported
<1>. QED
  BY <1>2, <1>3, <1>4, <1>5

\* The deferred calls leave the result alone.
LEMMA LeavingKeeps ==
    ASSUME PagesInv, CancelBackground \/ Leave
    PROVE  PagesInv'
<1>. USE DEF PagesInv
<1>1. /\ UNCHANGED <<documentation, sources, slot, at, step, cut, interrupted, lanesCanceled, cause, result>>
      /\ UNCHANGED lanes
      /\ dispatcher \in {"leaving", "waiting"} /\ dispatcher' \in {"waiting", "returned"}
      /\ runCanceled' \in {runCanceled, TRUE}
  BY DEF CancelBackground, Leave, lanes, background
<1>2. LanesOrdered' /\ \A K : StopsOf(K)' = StopsOf(K)
  BY <1>1, LanesKept
<1>3. TypeOK'
  BY <1>1 DEF TypeOK
<1>4. ContextsExplained' /\ FailuresContained'
  BY <1>1, <1>2 DEF ContextsExplained, FailuresContained
<1>5. DispatchOrdered' /\ RefusalReported' /\ ReportComplete' /\ CutTargetsUnreported'
  BY <1>1 DEF DispatchOrdered, RefusalReported, ReportComplete, CutTargetsUnreported
<1>. QED
  BY <1>2, <1>3, <1>4, <1>5

LEMMA DispatchKeeps ==
    ASSUME PagesInv, Dispatch \/ FailToPublish
    PROVE  PagesInv'
<1>1. CASE Plan
  BY <1>1, ReturnKeeps, GoingOnKeeps DEF Plan, Return
<1>2. CASE Fold
  <2>1. CASE FoldStop # "none"
    BY <1>2, <2>1, FoldStopIs, FailKeeps DEF Fold, PagesInv
  <2>2. CASE FoldStop = "none"
    BY <1>2, <2>2, NoFoldStop, GoingOnKeeps DEF Fold, PagesInv
  <2>. QED
    BY <2>1, <2>2
<1>3. CASE Stopped
  <2>1. ReportedCause \in Stops /\ (documentation = "refused" => ReportedCause = "refused")
    BY <1>3 DEF Stopped, ReportedCause, PagesInv, DispatchOrdered, TypeOK, Stops
  <2>2. ReportedCause # "report" /\ ReportedCause # "unplanned"
    BY <2>1 DEF Stops
  <2>. QED
    BY <1>3, <2>1, <2>2, ReturnKeeps DEF Stopped
<1>4. CASE Join
  <2>1. CASE documentation # "ready" /\ Return(documentation)
    <3>1. documentation \in {"refused", "canceled"}
      BY <1>4, <2>1 DEF Join, PagesInv, TypeOK
    <3>. QED
      BY <1>4, <2>1, <3>1, ReturnKeeps DEF Join, Stops
  <2>2. CASE documentation = "ready" /\ FailPublication("failed")
    BY <1>4, <2>2, FailKeeps DEF Join, Stops
  <2>3. CASE documentation = "ready" /\ Return("nothingAnalyzed")
    BY <1>4, <2>3, ReturnKeeps DEF Join
  <2>4. CASE /\ documentation = "ready" /\ dispatcher' = "publishing"
             /\ UNCHANGED <<cause, result, runCanceled>>
    BY <1>4, <2>4, GoingOnKeeps DEF Join
  <2>. QED
    BY <1>4, <2>1, <2>2, <2>3, <2>4 DEF Join
<1>5. CASE Publish
  <2>1. CASE interrupted
    BY <1>5, <2>1, FailKeeps DEF Publish, Stops
  <2>2. CASE ~interrupted
    BY <1>5, <2>2, ReturnKeeps DEF Publish, PagesInv, DispatchOrdered
  <2>. QED
    BY <2>1, <2>2
<1>6. CASE FailToPublish
  BY <1>6, FailKeeps DEF FailToPublish, Stops
<1>7. CASE CancelBackground \/ Leave
  BY <1>7, LeavingKeeps
<1>. QED
  BY <1>1, <1>2, <1>3, <1>4, <1>5, <1>6, <1>7 DEF Dispatch

\* Only a running reduction changes, and only an ended context cancels it.
LEMMA BackgroundKeeps ==
    ASSUME PagesInv,
           \/ \E kind \in {"ready", "refused", "canceled"} : EndDocumentation(kind)
           \/ EndSources
           \/ Interrupt
    PROVE  PagesInv'
<1>. USE DEF PagesInv
<1>1. /\ UNCHANGED <<slot, at, step, cut, dispatcher, cause, result, lanesCanceled, runCanceled>>
      /\ UNCHANGED lanes
      /\ interrupted => interrupted'
      /\ documentation' # documentation =>
            /\ documentation = "running" /\ documentation' \in {"ready", "refused", "canceled"}
            /\ documentation' = "canceled" => RunContextEnded
            /\ interrupted' = interrupted
      /\ interrupted' \in BOOLEAN /\ sources' \in {"running", "ended"}
  BY DEF EndDocumentation, EndSources, Interrupt, lanes, background, dispatch, TypeOK
<1>2. LanesOrdered' /\ \A K : StopsOf(K)' = StopsOf(K)
  BY <1>1, LanesKept
<1>3. TypeOK'
  BY <1>1 DEF TypeOK
<1>4. ContextsExplained' /\ FailuresContained'
  BY <1>1, <1>2 DEF ContextsExplained, FailuresContained, RunContextEnded
<1>5. DispatchOrdered' /\ RefusalReported' /\ ReportComplete' /\ CutTargetsUnreported'
  BY <1>1, <1>2 DEF DispatchOrdered, RefusalReported, ReportComplete, CutTargetsUnreported
<1>. QED
  BY <1>2, <1>3, <1>4, <1>5

-----------------------------------------------------------------------------
LEMMA PagesInitially == Init => PagesInv
<1>. SUFFICES ASSUME Init PROVE PagesInv
  OBVIOUS
<1>1. \A a \in Adapters : /\ at[a] \in Positions /\ AdapterOf[at[a]] = a
                          /\ \A q \in Positions : q < at[a] => AdapterOf[q] # a
  BY FirstOfLane DEF Init
<1>2. TypeOK
  <2>1. \A p \in Positions : p \in 1..Count+1
    BY PagesAssumption DEF Positions
  <2>2. at \in [Adapters -> 1..Count+1]
    BY <1>1, <2>1 DEF Init
  <2>3. slot \in [Positions -> {"none"} \cup Outcomes \cup Stops]
    BY DEF Init
  <2>4. step \in [Adapters -> {"start", "native", "projection", "documentation", "artifacts", "ended"}]
    BY DEF Init
  <2>. QED
    BY <1>1, <2>2, <2>3, <2>4 DEF Init, TypeOK
<1>3. LanesOrdered
  BY <1>1, PagesAssumption DEF Init, LanesOrdered, Positions
<1>4. \A K \in SUBSET Stops : StopsOf(K) = {}
  BY DEF Init, StopsOf, Stops
<1>5. ContextsExplained /\ DispatchOrdered /\ RefusalReported /\ ReportComplete
      /\ CutTargetsUnreported /\ FailuresContained
  BY <1>4 DEF Init, ContextsExplained, DispatchOrdered, RefusalReported, ReportComplete,
     CutTargetsUnreported, FailuresContained, Stops
<1>. QED
  BY <1>2, <1>3, <1>5 DEF PagesInv

LEMMA PagesStep == PagesInv /\ [Next]_vars => PagesInv'
<1>. SUFFICES ASSUME PagesInv, [Next]_vars PROVE PagesInv'
  OBVIOUS
<1>1. CASE Dispatch \/ FailToPublish
  BY <1>1, DispatchKeeps
<1>2. ASSUME NEW a \in Adapters, Page(a) PROVE PagesInv'
  BY <1>2, PageKeeps
<1>3. CASE \/ \E kind \in {"ready", "refused", "canceled"} : EndDocumentation(kind)
           \/ EndSources
           \/ Interrupt
  BY <1>3, BackgroundKeeps
<1>4. CASE UNCHANGED vars
  BY <1>4 DEF vars, lanes, background, dispatch, PagesInv, TypeOK, LanesOrdered, ContextsExplained,
     DispatchOrdered, RefusalReported, ReportComplete, CutTargetsUnreported, FailuresContained, StopsOf
<1>. QED
  BY <1>1, <1>2, <1>3, <1>4 DEF Next, Returned

\* The dispatcher's inductive invariant, for every plan.
THEOREM PagesInvariant == Spec => []PagesInv
  BY PagesInitially, PagesStep, PTL DEF Spec

\* A refused reduction is what the run reports, whatever the targets came to.
THEOREM RefusalSafety == Spec => []RefusalReported
<1>1. PagesInv => RefusalReported
  BY DEF PagesInv
<1>. QED
  BY <1>1, PagesInvariant, PTL

\* A report accounts for every planned target.
THEOREM ReportSafety == Spec => []ReportComplete
<1>1. PagesInv => ReportComplete
  BY DEF PagesInv
<1>. QED
  BY <1>1, PagesInvariant, PTL

\* No report shows a target that an ended context cut as not analyzed.
THEOREM CutSafety == Spec => []CutTargetsUnreported
<1>1. PagesInv => CutTargetsUnreported
  BY DEF PagesInv
<1>. QED
  BY <1>1, PagesInvariant, PTL

\* A target that is not analyzed disturbs no other.
THEOREM ContainmentSafety == Spec => []FailuresContained
<1>1. PagesInv => FailuresContained
  BY DEF PagesInv
<1>. QED
  BY <1>1, PagesInvariant, PTL

-----------------------------------------------------------------------------
(* Whom the run waits for.                                                   *)

\* The dispatcher need wait for nobody: the guards of Dispatch.
DispatcherGoesOn ==
    \/ dispatcher \in {"planning", "leaving"}
    \/ dispatcher = "pages" /\ \A a \in Adapters : step[a] = "ended"
    \/ dispatcher \in {"joining", "stopping"} /\ documentation # "running"
    \/ dispatcher = "publishing" /\ sources = "ended"
    \/ dispatcher = "waiting" /\ documentation # "running" /\ sources = "ended"

\* A lane need not wait: the guards of Page.
LaneGoesOn(a) ==
    /\ dispatcher = "pages" /\ step[a] # "ended"
    /\ step[a] = "documentation" => documentation # "running"

\* Until the run returns the dispatcher or a lane goes on, or the reduction is running;
\* an extractor is waited for alone only when its context has ended, or by a report that
\* needs what it reads.
WaitsForTheCancelled ==
    dispatcher # "returned" =>
        \/ DispatcherGoesOn
        \/ \E a \in Adapters : LaneGoesOn(a)
        \/ documentation = "running"
        \/ sources = "running" /\ (runCanceled \/ dispatcher = "publishing")

\* Whoever waits for the background has cancelled it, or wants what it makes.
CanceledBeforeWaiting == dispatcher \in {"stopping", "waiting"} => runCanceled

\* However targets fail and the run is interrupted, lanes and dispatcher wait for
\* each other in no circle, and a run never returns late for an extractor it forgot
\* to cancel.  (runTargetPageLanes, failPublication, the deferred calls)
THEOREM ReturnWaitsSafety == Spec => []WaitsForTheCancelled
  <1>1. Init => CanceledBeforeWaiting
    BY DEF Init, CanceledBeforeWaiting
  <1>2. CanceledBeforeWaiting /\ [Next]_vars => CanceledBeforeWaiting'
    <2> SUFFICES ASSUME CanceledBeforeWaiting, [Next]_vars PROVE CanceledBeforeWaiting'
      OBVIOUS
    <2> USE DEF CanceledBeforeWaiting
    <2>1. CASE Dispatch \/ FailToPublish
      BY <2>1 DEF Dispatch, FailToPublish, Plan, Fold, Stopped, Join, Publish, CancelBackground,
         Leave, Return, FailPublication
    <2>2. CASE \E a \in Adapters : Page(a)
      BY <2>2 DEF Page, dispatch
    <2>3. CASE (\E kind \in {"ready", "refused", "canceled"} : EndDocumentation(kind))
               \/ EndSources \/ Interrupt
      BY <2>3 DEF EndDocumentation, EndSources, Interrupt, dispatch
    <2>4. CASE UNCHANGED vars
      BY <2>4 DEF vars, dispatch
    <2> QED BY <2>1, <2>2, <2>3, <2>4 DEF Next, Returned
  <1>3. TypeOK /\ CanceledBeforeWaiting => WaitsForTheCancelled
    BY DEF TypeOK, CanceledBeforeWaiting, WaitsForTheCancelled, DispatcherGoesOn, LaneGoesOn
  <1> QED BY <1>1, <1>2, <1>3, PagesInvariant, PTL DEF Spec, PagesInv
=============================================================================
