---------------------------- MODULE AdaptiveSplit ----------------------------
(***************************************************************************)
(* ExecuteAdaptiveJSONEachResults of internal/llm/adaptive_each.go and the   *)
(* split memos of adaptive_split_memo.go: an item the model refuses as a     *)
(* whole is divided by its owner's rule, round after round, and the refusal  *)
(* is remembered, so that a later run divides it without asking.  Runs of    *)
(* several owners (builds, commands) follow each other over one cache; a run *)
(* may be killed or lose its context anywhere.                               *)
(*                                                                           *)
(* An item is an interval of the rows 1..Rows, divided in the middle; a row   *)
(* alone cannot be divided.  A record is an accepted answer of a whole item, *)
(* which every owner takes ("plain") or only a lenient one ("loose").         *)
(***************************************************************************)
EXTENDS Integers, Sequences, FiniteSets

CONSTANTS Rows,     \* rows of the batch
          Begin,    \* the items a run is given, in order
          Fits,     \* the most rows whose request fits the known envelopes
          Owners,   \* [splits, lenient, cached]: who runs, and how
          Touched,  \* the items whose files others replace, damage or remove
          MaxOthers \* how often they do

Items == {x \in (1..Rows) \X (1..Rows) : x[1] <= x[2]}
\* Why a whole item was refused so that its parts may be asked for instead; an
\* owner opts into all but the first.
Reasons == {"resource", "response_validation", "http_500"}
Answers == {"plain", "loose"}

ASSUME SplitAssumption ==
    /\ Rows \in Nat \ {0} /\ Fits \in Nat /\ MaxOthers \in Nat
    /\ Begin \in Seq(Items) /\ Begin # << >>
    /\ \A i \in 1..Len(Begin)-1 : Begin[i][2] + 1 = Begin[i+1][1]
    /\ \A i, j \in 1..Len(Begin) : i < j => Begin[i][2] < Begin[j][1]
    /\ Touched \subseteq Items
    /\ Owners \subseteq [splits : SUBSET Reasons, lenient : BOOLEAN, cached : BOOLEAN]

VARIABLES
    owner,      \* who runs, or ran last
    phase,      \* "idle", "expanding", "asking", "collecting" or "returned"
    plan,       \* the run's items in order, each with what it came to
    cursor,     \* the item that is being expanded
    memo,       \* each item's split memo: "none", "damaged", "unreadable" or a reason
    record,     \* each item's accepted record: "none", "damaged" or an answer
    asks,       \* history: live calls of this run for each item, counted up to 2
    remembered, \* history: <<owner, item>> answered and saved, or refused and remembered,
                \* and no file of the item harmed since
    others      \* counts what others did to the cache

run == <<owner, phase, plan, cursor, asks>>
cache == <<memo, record>>
vars == <<run, cache, remembered, others>>

States == {"todo", "accepted", "leaf", "refused"} \cup Reasons

Size(item) == item[2] - item[1] + 1
Splits(item) == Size(item) > 1
TooBig(item) == Size(item) > Fits

\* The last row of the first half.
Middle(item) == item[1] + Size(item) \div 2 - 1
Halves(item) == << <<item[1], Middle(item)>>, <<Middle(item) + 1, item[2]>> >>

Node(item) == [item |-> item, state |-> "todo"]
Children(item) == <<Node(Halves(item)[1]), Node(Halves(item)[2])>>

\* Mutant: the parent stays before its children.
ParentKept(i) == SubSeq(plan, 1, i) \o Children(plan[i].item) \o SubSeq(plan, i+1, Len(plan))

\* The plan with its i-th item replaced by its children.
Divided(i) == SubSeq(plan, 1, i-1) \o Children(plan[i].item) \o SubSeq(plan, i+1, Len(plan))

Marked(i, state) == [plan EXCEPT ![i].state = state]
Unfinished == {i \in DOMAIN plan : plan[i].state = "todo"}

Init ==
    /\ owner \in Owners
    /\ phase = "idle"
    /\ plan = << >>
    /\ cursor = 1
    /\ memo = [x \in Items |-> "none"]
    /\ record = [x \in Items |-> "none"]
    /\ asks = [x \in Items |-> 0]
    /\ remembered = {}
    /\ others = 0

BeginRun(o) ==
    /\ phase = "idle"
    /\ owner' = o
    /\ phase' = "expanding"
    /\ plan' = [i \in DOMAIN Begin |-> Node(Begin[i])]
    /\ cursor' = 1
    /\ UNCHANGED <<asks, cache, remembered, others>>

\* The run is over: its items and what it asked are gone.
End ==
    /\ phase' = "idle" /\ plan' = << >> /\ cursor' = 1
    /\ asks' = [x \in Items |-> 0]

\* A run is killed, or its context ended and it returns without a result: what
\* it knew is gone.
Abandon ==
    /\ phase # "idle"
    /\ End
    /\ UNCHANGED <<owner, cache, remembered, others>>

-----------------------------------------------------------------------------
(* A round begins by dividing what is known to be refused as a whole.        *)

\* The owner's decoder takes the answer.
Takes(o, answer) == answer = "plain" \/ (answer = "loose" /\ o.lenient)

\* Mutant: any record of the whole item supersedes its split.
AnyParent(x) == record[x] # "none"

\* A whole answer the owner takes supersedes the split; a damaged record is left
\* to the call's own diagnosis.
ParentWins(x) == record[x] = "damaged" \/ Takes(owner, record[x])

\* loadAdaptiveSplit finds a memo the owner may use.
Hinted(x) ==
    /\ owner.cached /\ ~ParentWins(x)
    /\ memo[x] \in {"resource"} \cup owner.splits

\* splitMemoMiss: a memo that is not the one saved is removed; one that cannot
\* be read or that this build's validator refuses stays.
Missed(x) == owner.cached /\ ~ParentWins(x) /\ memo[x] \in {"damaged", "unreadable"}

NextItem == cursor' = cursor + 1

Expand ==
    /\ phase = "expanding" /\ cursor <= Len(plan)
    /\ LET x == plan[cursor].item IN
       IF plan[cursor].state # "todo" THEN NextItem /\ UNCHANGED <<plan, memo>>
       ELSE IF TooBig(x) THEN
            /\ IF Splits(x) THEN plan' = Divided(cursor) /\ UNCHANGED cursor
               ELSE plan' = Marked(cursor, "leaf") /\ NextItem
            /\ UNCHANGED memo
       ELSE IF Hinted(x) /\ Splits(x) THEN plan' = Divided(cursor) /\ UNCHANGED <<cursor, memo>>
       ELSE /\ memo' = IF Missed(x) /\ memo[x] = "damaged" THEN [memo EXCEPT ![x] = "none"] ELSE memo
            /\ NextItem
            /\ UNCHANGED plan
    /\ UNCHANGED <<owner, phase, asks, record, remembered, others>>

\* The miss is observed, and an observer that fails fails the run.
ObserverFails ==
    /\ phase = "expanding" /\ cursor <= Len(plan)
    /\ LET x == plan[cursor].item IN
       /\ plan[cursor].state = "todo" /\ ~TooBig(x) /\ Missed(x)
       /\ memo' = IF memo[x] = "damaged" THEN [memo EXCEPT ![x] = "none"] ELSE memo
    /\ End
    /\ UNCHANGED <<owner, record, remembered, others>>

\* Mutant: a round is asked for although nothing is left.
AskedForNothing ==
    /\ phase = "expanding" /\ cursor > Len(plan)
    /\ phase' = "asking"
    /\ UNCHANGED <<owner, plan, cursor, asks, cache, remembered, others>>

\* With nothing left to ask for the call returns its leaves.
Expanded ==
    /\ phase = "expanding" /\ cursor > Len(plan)
    /\ phase' = IF Unfinished = {} THEN "returned" ELSE "asking"
    /\ UNCHANGED <<owner, plan, cursor, asks, cache, remembered, others>>

-----------------------------------------------------------------------------
(* The round asks for every unfinished item, side by side.                   *)

Hit(i) ==
    /\ owner.cached /\ Takes(owner, record[plan[i].item])
    /\ plan' = Marked(i, "accepted")
    /\ UNCHANGED <<record, asks, remembered>>

\* A damaged record is evicted before the item is asked for.
Evicted(x) == IF owner.cached /\ record[x] = "damaged" THEN [record EXCEPT ![x] = "none"] ELSE record

\* An accepted answer counts for the run also when it could not be saved.
Accepted(i, answer, saved) ==
    LET x == plan[i].item IN
    /\ Takes(owner, answer)
    /\ plan' = Marked(i, "accepted")
    /\ record' = IF saved THEN [record EXCEPT ![x] = answer] ELSE Evicted(x)
    /\ remembered' = IF saved THEN remembered \cup {<<owner, x>>} ELSE remembered

Refused(i, why) ==
    /\ plan' = Marked(i, why)
    /\ record' = Evicted(plan[i].item)
    /\ UNCHANGED remembered

Live(i) ==
    /\ ~(owner.cached /\ Takes(owner, record[plan[i].item]))
    /\ asks' = [asks EXCEPT ![plan[i].item] = IF @ < 2 THEN @ + 1 ELSE @]
    /\ \/ \E answer \in Answers, saved \in BOOLEAN :
            (saved => owner.cached) /\ Accepted(i, answer, saved)
       \/ \E why \in Reasons \cup {"refused"} : Refused(i, why)

Resolve(i) ==
    /\ phase = "asking" /\ i \in Unfinished
    /\ Hit(i) \/ Live(i)
    /\ UNCHANGED <<owner, phase, cursor, memo, others>>

Resolved ==
    /\ phase = "asking" /\ Unfinished = {}
    /\ phase' = "collecting"
    /\ UNCHANGED <<owner, plan, cursor, asks, cache, remembered, others>>

-----------------------------------------------------------------------------
(* The refusals become the next round's children.                            *)

\* adaptiveFailureMemo: the refusal is one the owner divides for.
Eligible(why) == why \in {"resource"} \cup owner.splits

Pending == {i \in DOMAIN plan : plan[i].state \in Reasons \cup {"refused"}}
First == {i \in Pending : \A j \in Pending : i <= j}

\* Mutant: the children are made before the refusal is remembered, which may fail.
SplitUnremembered(i) ==
    /\ plan' = Divided(i)
    /\ remembered' = IF owner.cached /\ record[plan[i].item] # "damaged" THEN remembered \cup {<<owner, plan[i].item>>} ELSE remembered
    /\ \/ memo' = IF owner.cached THEN [memo EXCEPT ![plan[i].item] = plan[i].state] ELSE memo
       \/ UNCHANGED memo
    /\ UNCHANGED <<phase, cursor, asks>>

\* The refusal is remembered before its children are; failing that the run fails.
SplitRefused(i) ==
    \/ /\ plan' = Divided(i)
       /\ IF owner.cached
          THEN /\ memo' = [memo EXCEPT ![plan[i].item] = plan[i].state]
               /\ remembered' = IF record[plan[i].item] = "damaged" THEN remembered
                                ELSE remembered \cup {<<owner, plan[i].item>>}
          ELSE UNCHANGED <<memo, remembered>>
       /\ UNCHANGED <<phase, cursor, asks>>
    \/ owner.cached /\ End /\ UNCHANGED <<memo, remembered>>

\* Mutant: a refused item that cannot be divided is tried in the next round.
TriedAgain(i) == plan' = Marked(i, "todo")

\* A refusal that divides nothing is its item's own terminal leaf.
Terminal(i) == plan' = Marked(i, "leaf")

Collect ==
    /\ phase = "collecting"
    /\ \E i \in First :
          IF Eligible(plan[i].state) /\ Splits(plan[i].item) THEN SplitRefused(i)
          ELSE Terminal(i) /\ UNCHANGED <<phase, cursor, asks, memo, remembered>>
    /\ UNCHANGED <<owner, record, others>>

NextRound ==
    /\ phase = "collecting" /\ Pending = {}
    /\ phase' = "expanding" /\ cursor' = 1
    /\ UNCHANGED <<owner, plan, asks, cache, remembered, others>>

Return ==
    /\ phase = "returned"
    /\ End
    /\ UNCHANGED <<owner, cache, remembered, others>>

-----------------------------------------------------------------------------
(* Others who use the cache.                                                 *)

\* A replay keeps an answer of a whole item; for an owner who took the one
\* before and does not take this one, nothing is remembered any more.
Replay(x, answer) ==
    /\ others < MaxOthers /\ others' = others + 1
    /\ record' = [record EXCEPT ![x] = answer]
    /\ remembered' = remembered \ {<<o, x>> : o \in {p \in Owners :
                                     Takes(p, record[x]) /\ ~Takes(p, answer)}}
    /\ UNCHANGED <<run, memo>>

\* A file is damaged or removed; what it remembered is forgotten.
Harm(x) ==
    /\ others < MaxOthers /\ others' = others + 1
    /\ \/ \E m \in {"none", "damaged", "unreadable"} :
            memo[x] \notin {"none", m} /\ memo' = [memo EXCEPT ![x] = m] /\ UNCHANGED record
       \/ \E r \in {"none", "damaged"} :
            record[x] \notin {"none", r} /\ record' = [record EXCEPT ![x] = r] /\ UNCHANGED memo
    /\ remembered' = remembered \ (Owners \X {x})
    /\ UNCHANGED run

Step ==
    \/ Expand \/ Expanded
    \/ \E i \in Unfinished : Resolve(i)
    \/ Resolved \/ Collect \/ NextRound \/ Return

Next ==
    \/ Step
    \/ \E o \in Owners : BeginRun(o)
    \/ Abandon
    \/ ObserverFails
    \/ \E x \in Touched, answer \in Answers : Replay(x, answer)
    \/ \E x \in Touched : Harm(x)

Spec == Init /\ [][Next]_vars

\* The run goes on: every call it makes ends.
FairSpec == Spec /\ WF_vars(Step)

-----------------------------------------------------------------------------
\* Types of the variables.
TypeOK ==
    /\ owner \in Owners
    /\ phase \in {"idle", "expanding", "asking", "collecting", "returned"}
    /\ plan \in Seq([item : Items, state : States])
    /\ cursor \in Nat \ {0}
    /\ memo \in [Items -> {"none", "damaged", "unreadable"} \cup Reasons]
    /\ record \in [Items -> {"none", "damaged"} \cup Answers]
    /\ asks \in [Items -> 0..2]
    /\ remembered \subseteq Owners \X Items
    /\ others \in 0..MaxOthers

\* Whatever was divided, the plan covers every row once and in order, and so
\* does the result.  (children, the plan's replacement)
Cover ==
    phase # "idle" =>
        /\ plan[1].item[1] = Begin[1][1]
        /\ plan[Len(plan)].item[2] = Begin[Len(Begin)][2]
        /\ \A i \in 1..Len(plan)-1 : plan[i].item[2] + 1 = plan[i+1].item[1]

\* No item is with the model twice in a run: not a successful sibling when
\* another item splits, and not a parent that was divided.
AskedOnce == \A x \in Items : asks[x] <= 1

\* No run pays again for an item that an earlier run of its owner was answered
\* for, or was refused and remembered, whatever others ran in between and
\* wherever runs were killed.  (loadAdaptiveSplit, saveAdaptiveSplit)
PaidOnce ==
    [][\A x \in Items : asks'[x] > asks[x] => <<owner, x>> \notin remembered]_vars

\* Every run returns: division ends at items that cannot be divided.
EveryRunReturns == phase # "idle" ~> phase = "idle"
=============================================================================
