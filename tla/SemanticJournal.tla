--------------------------- MODULE SemanticJournal ---------------------------
(***************************************************************************)
(* internal/debugdump/semantic_observer.go: the journal of model exchanges.   *)
(* Stages observe their events side by side; each recordable event takes the  *)
(* next ordinal of its stage under the observer's lock and is written after   *)
(* the lock is let go.  The first stages run before their run's directory     *)
(* exists: their exchanges stay pending until a flush.                        *)
(*                                                                           *)
(* An exchange names the event it came from and its ordinal.  A written       *)
(* exchange is committed, by its metadata, or gave a warning.                 *)
(***************************************************************************)
EXTENDS Naturals, Sequences, FiniteSets, SequencesExt

CONSTANTS Stages,     \* one stage per batch of calls
          FirstLayer  \* the stages whose observer has no writer yet

ASSUME JournalAssumption == FirstLayer \subseteq Stages

VARIABLES
    ordinals,  \* SemanticObserver.ordinals: exchanges of each stage so far
    pending,   \* exchanges observed before there was a writer
    hand,      \* the exchange each stage is writing, a sequence of at most one
    flushing,  \* the exchanges a flush has still to write
    committed, \* exchanges in the run directory
    warned     \* exchanges that could not be written

journal == <<ordinals, pending, hand, flushing, committed, warned>>

JournalInit ==
    /\ ordinals = [s \in Stages |-> 0]
    /\ pending = <<>>
    /\ hand = [s \in Stages |-> <<>>]
    /\ flushing = <<>>
    /\ committed = {}
    /\ warned = {}

Exchange(s, event) == [stage |-> s, event |-> event, ordinal |-> ordinals[s] + 1]

\* Mutant: an event that is not recorded takes an ordinal.
CountedAnyway(s, recorded) == [ordinals EXCEPT ![s] = @ + 1]

Counted(s, recorded) == IF recorded THEN [ordinals EXCEPT ![s] = @ + 1] ELSE ordinals

\* ObserveStage under the observer's lock: number the exchange, and keep it when
\* there is no writer.  The stage goes on when it has been written.
ObserveStage(s, event, recorded) ==
    /\ hand[s] = <<>>
    /\ ordinals' = Counted(s, recorded)
    /\ pending' = IF recorded /\ s \in FirstLayer THEN Append(pending, Exchange(s, event)) ELSE pending
    /\ hand' = IF recorded /\ s \notin FirstLayer THEN [hand EXCEPT ![s] = <<Exchange(s, event)>>] ELSE hand
    /\ UNCHANGED <<flushing, committed, warned>>

\* recordSemanticExchange: payloads first and the metadata last, or a warning.
Written(x) ==
    \/ committed' = committed \cup {x} /\ UNCHANGED warned
    \/ warned' = warned \cup {x} /\ UNCHANGED committed

Record(s) ==
    /\ hand[s] # <<>>
    /\ Written(Head(hand[s]))
    /\ hand' = [hand EXCEPT ![s] = <<>>]
    /\ UNCHANGED <<ordinals, pending, flushing>>

\* Flush takes everything pending under the lock and writes it after: what is
\* observed in the meantime is not its own.
Flush ==
    /\ flushing = <<>>
    /\ flushing' = pending
    /\ pending' = <<>>
    /\ UNCHANGED <<ordinals, hand, committed, warned>>

\* Mutant: whatever is pending when the last one is written is forgotten.
FlushNextAndForget ==
    /\ flushing # <<>>
    /\ Written(Head(flushing))
    /\ flushing' = Tail(flushing)
    /\ pending' = IF Len(flushing) = 1 THEN <<>> ELSE pending
    /\ UNCHANGED <<ordinals, hand>>

FlushNext ==
    /\ flushing # <<>>
    /\ Written(Head(flushing))
    /\ flushing' = Tail(flushing)
    /\ UNCHANGED <<ordinals, pending, hand>>

-----------------------------------------------------------------------------
\* Every exchange there is, wherever it stands.
Exchanges ==
    committed \cup warned \cup ToSet(pending) \cup ToSet(flushing)
        \cup UNION {ToSet(hand[s]) : s \in Stages}
=============================================================================
